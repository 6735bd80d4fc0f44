---------------------------- MODULE Conversation ----------------------------
(***************************************************************************)
(* What a Claude client promises to its caller, whatever file, pane and    *)
(* pipe it works with: every prompt has an answer of its own, a growing    *)
(* sequence of lines, and StartTurn delivers that answer from its first    *)
(* line on, each line once and in order, until it ends with one result.    *)
(* ClaudeTurn implements it over one transcript file for all turns.        *)
(***************************************************************************)
EXTENDS Naturals, SequencesExt

CONSTANTS
    Turns,     \* 1 .. n
    Kinds      \* what a line may be; "final" ends an answer

VARIABLES
    turn,      \* the turn that runs, or ran last
    running,   \* it has no result yet
    left,      \* its caller gave it up: the context is done
    answers,   \* the lines Claude wrote for each prompt
    sent,      \* the lines each turn put on its events channel
    result     \* how each turn ended

vars == <<turn, running, left, answers, sent, result>>

Init ==
    /\ turn = 0 /\ running = FALSE /\ left = FALSE
    /\ answers = [t \in Turns |-> <<>>]
    /\ sent = [t \in Turns |-> <<>>]
    /\ result = [t \in Turns |-> "none"]

\* A turn may find its context done from the start.
Begin ==
    /\ ~running /\ turn + 1 \in Turns
    /\ turn' = turn + 1 /\ running' = TRUE
    /\ left' \in BOOLEAN
    /\ UNCHANGED <<answers, sent, result>>

\* Claude writes a line for one prompt, or for several it was given as one.
Write ==
    /\ UNCHANGED <<turn, running, left, sent, result>>
    /\ answers' # answers
    /\ \E of \in SUBSET Turns, kind \in Kinds :
          answers' = [t \in Turns |->
                         IF t \in of THEN Append(answers[t], [of |-> of, kind |-> kind])
                         ELSE answers[t]]

Deliver ==
    /\ running
    /\ UNCHANGED <<turn, running, left, result>>
    /\ Len(sent[turn]) < Len(answers[turn])
    /\ sent' = [sent EXCEPT ![turn] = Append(@, answers[turn][Len(@) + 1])]
    /\ UNCHANGED answers

Leave ==
    /\ running /\ left' = TRUE
    /\ UNCHANGED <<turn, running, answers, sent, result>>

\* The last text of what was delivered ends an answer.
Answered(lines) ==
    \E k \in DOMAIN lines :
        /\ lines[k].kind = "final"
        /\ \A j \in k + 1 .. Len(lines) : lines[j].kind \notin {"text", "final"}

\* A turn succeeds on an answer, gives up only when it was left, and may fail
\* at any time.
Ends(r) ==
    /\ r = "ok" => Answered(sent[turn])
    /\ r = "gaveup" => left

End(r) ==
    /\ running /\ Ends(r)
    /\ running' = FALSE /\ left' = TRUE
    /\ result' = [result EXCEPT ![turn] = r]
    /\ UNCHANGED <<turn, answers, sent>>

\* A turn on a client that is not connected fails at once.
Refuse ==
    /\ ~running /\ turn + 1 \in Turns
    /\ turn' = turn + 1 /\ left' = TRUE
    /\ result' = [result EXCEPT ![turn'] = "failed"]
    /\ UNCHANGED <<running, answers, sent>>

Next ==
    \/ Write \/ Begin \/ Deliver \/ Leave \/ Refuse
    \/ \E r \in {"ok", "gaveup", "failed", "oversize"} : End(r)

Spec == Init /\ [][Next]_vars
=============================================================================
