--------------------------- MODULE IntentContract ---------------------------
(***************************************************************************)
(* What the node promises about buying intents, without its files: an      *)
(* intent opens once and closes once; the audit record notes its opening   *)
(* and its end at most once each, the end only after the intent is closed; *)
(* and the publisher is told of it at most once, after the opening was     *)
(* noted.  A stop may lose what a failed write left in memory; from then   *)
(* on "at most once" is not promised, but the order still is.              *)
(***************************************************************************)
EXTENDS Naturals

CONSTANT Id

VARIABLES
    serving,
    phase,   \* of each intent: none, open, closed
    noted,   \* how often the record has its opening and its end
    told,    \* how often the publisher was told of it
    loss     \* some stop lost a write

contractVars == <<serving, phase, noted, told, loss>>

Phase == {"none", "open", "closed"}

ContractInit ==
    /\ serving = FALSE
    /\ phase = [i \in Id |-> "none"]
    /\ noted = [i \in Id |-> [opening |-> 0, end |-> 0]]
    /\ told = [i \in Id |-> 0]
    /\ loss = FALSE

Start == ~serving /\ serving' = TRUE /\ UNCHANGED <<phase, noted, told, loss>>

Open(i) ==
    /\ serving /\ phase[i] = "none"
    /\ phase' = [phase EXCEPT ![i] = "open"]
    /\ UNCHANGED <<serving, noted, told, loss>>

\* A revocation, an expiry sweep, or, while the node is stopped, an erasure.
Close(S) ==
    /\ S # {} /\ \A i \in S : phase[i] = "open"
    /\ phase' = [i \in Id |-> IF i \in S THEN "closed" ELSE phase[i]]
    /\ UNCHANGED <<serving, noted, told, loss>>

NoteOpening(i) ==
    /\ serving /\ phase[i] = "open"
    /\ noted[i].opening = 0 /\ noted[i].end = 0
    /\ noted' = [noted EXCEPT ![i].opening = 1]
    /\ UNCHANGED <<serving, phase, told, loss>>

NoteEnd(i) ==
    /\ serving /\ phase[i] = "closed"
    /\ noted[i].end = 0 \/ loss
    /\ noted' = [noted EXCEPT ![i].end = @ + 1]
    /\ UNCHANGED <<serving, phase, told, loss>>

Tell(i) ==
    /\ serving /\ phase[i] = "open"
    /\ noted[i] = [opening |-> 1, end |-> 0] /\ told[i] = 0
    /\ told' = [told EXCEPT ![i] = 1]
    /\ UNCHANGED <<serving, phase, noted, loss>>

\* A clean stop loses nothing.
Halt == serving /\ serving' = FALSE /\ UNCHANGED <<phase, noted, told, loss>>

\* A stop after a failed write: an intent may be open again or be gone, and the record lacks
\* what it lacks; but what the publisher was told stays told, and no intent comes up that
\* was not opened.
HaltWithLoss ==
    /\ serving /\ serving' = FALSE /\ loss' = TRUE
    /\ \A i \in Id : /\ phase[i] = "none" <=> phase'[i] = "none"
                     /\ noted'[i].opening <= noted[i].opening /\ noted'[i].end <= noted[i].end
    /\ UNCHANGED told

ContractNext ==
    \/ Start \/ Halt \/ HaltWithLoss
    \/ \E S \in SUBSET Id : Close(S)
    \/ \E i \in Id : Open(i) \/ NoteOpening(i) \/ NoteEnd(i) \/ Tell(i)

Contract == ContractInit /\ [][ContractNext]_contractVars

=============================================================================
