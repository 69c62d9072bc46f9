----------------------------- MODULE ComposeForm -----------------------------
(***************************************************************************)
(* The transaction form of a page (script.js) in front of POST             *)
(* /api/transactions, next to other clients.  The form can be closed and   *)
(* opened again at any moment: neither stops a request that is under way,  *)
(* nor the timer that closes the form 900 ms after a success.  A fetch may *)
(* fail at any moment, whatever the server is doing with the request or    *)
(* has answered.                                                           *)
(***************************************************************************)
EXTENDS TransactionCSV

CONSTANT FormRequests  \* the requests that this form sends, each a submit of its own

ASSUME FormAssumption == FormRequests \subseteq Requests

VARIABLES
    form,    \* open, its fields filled in, the button disabled, the feedback
    fetch,   \* submit -> its fetch: "none", "pending", "answered" or "lost"
    done,    \* the last submit whose fetch has come back, as a set
    timers   \* submits whose success has set a timer that has not fired

formVars == <<form, fetch, done, timers>>
allVars == <<vars, formVars>>

-----------------------------------------------------------------------------

Awaited == {r \in FormRequests : fetch[r] = "pending"}

Sent == {r \in FormRequests : fetch[r] # "none"}

\* Mutant of openComposeModal: the button is enabled again, too.
OpenEnabled ==
    /\ form' = [open |-> TRUE, filled |-> FALSE, disabled |-> FALSE, feedback |-> "none"]
    /\ UNCHANGED <<vars, fetch, done, timers>>

\* The feedback is cleared and the fields are reset; the button is as it was.
openComposeModal ==
    /\ form' = [open |-> TRUE, filled |-> FALSE, disabled |-> form.disabled, feedback |-> "none"]
    /\ UNCHANGED <<vars, fetch, done, timers>>

closeComposeModal ==
    /\ form.open
    /\ form' = [form EXCEPT !.open = FALSE]
    /\ UNCHANGED <<vars, fetch, done, timers>>

FillIn ==
    /\ form.open /\ ~form.filled
    /\ form' = [form EXCEPT !.filled = TRUE]
    /\ UNCHANGED <<vars, fetch, done, timers>>

\* An empty field is not sent.
submitIncomplete ==
    /\ form.open /\ ~form.disabled /\ ~form.filled
    /\ form' = [form EXCEPT !.feedback = "incomplete"]
    /\ UNCHANGED <<vars, fetch, done, timers>>

submitTransaction(r) ==
    /\ form.open /\ ~form.disabled /\ form.filled
    /\ r \notin Sent
    /\ form' = [form EXCEPT !.disabled = TRUE, !.feedback = "pending"]
    /\ fetch' = [fetch EXCEPT ![r] = "pending"]
    /\ UNCHANGED <<vars, done, timers>>

\* Mutant of Feedback: an answer that is not ok is taken for a success.
FeedbackUnchecked(r) == "success"

Feedback(r) == IF pc[r] = "accepted" THEN "success" ELSE "error"

\* Mutant of Enabled: the button is enabled after a success only.
EnabledOnSuccess(r) == pc[r] = "accepted"

\* The finally block.
Enabled(r) == TRUE

ComesBack(r, how, feedback) ==
    /\ r \in Awaited
    /\ fetch' = [fetch EXCEPT ![r] = how]
    /\ form' = [form EXCEPT !.disabled = ~Enabled(r), !.feedback = feedback]
    /\ done' = {r}
    /\ UNCHANGED vars

\* The answer arrives.
Return(r) ==
    /\ pc[r] \in {"accepted", "refused"}
    /\ ComesBack(r, "answered", Feedback(r))
    /\ timers' = IF Feedback(r) = "success" THEN timers \cup {r} ELSE timers

\* The fetch throws: the request did not get through or not yet, the server died, or
\* the connection broke before or after the answer.  The server, if it has the
\* request or gets it later, goes on.
Lost(r) ==
    /\ ComesBack(r, "lost", "error")
    /\ UNCHANGED timers

\* The timer closes the form that is open by then.
TimeOut(r) ==
    /\ r \in timers
    /\ form' = [form EXCEPT !.open = FALSE]
    /\ timers' = timers \ {r}
    /\ UNCHANGED <<vars, fetch, done>>

Server ==
    /\ UNCHANGED formVars
    /\ \/ \E r \in Requests : /\ r \in FormRequests => r \in Sent
                              /\ Receive(r)
       \/ \E r \in Requests : Handle(r)
       \/ Crash

-----------------------------------------------------------------------------

FormInit ==
    /\ Init
    /\ form = [open |-> FALSE, filled |-> FALSE, disabled |-> FALSE, feedback |-> "none"]
    /\ fetch = [r \in FormRequests |-> "none"] /\ done = {} /\ timers = {}

FormNext ==
    \/ Server
    \/ openComposeModal \/ closeComposeModal \/ FillIn \/ submitIncomplete
    \/ \E r \in FormRequests : submitTransaction(r) \/ Return(r) \/ TimeOut(r) \/ Lost(r)

FormSpec == FormInit /\ [][FormNext]_allVars

\* The server's goroutines and the callbacks of the page run.  A request reaches the
\* server or fails, and so does an answer, and a fetch from a dead server fails; while
\* a handler is at work the fetch may have to wait for it.
FairFormSpec ==
    /\ FormSpec
    /\ \A r \in Requests : WF_allVars(Handle(r) /\ UNCHANGED formVars)
    /\ \A r \in FormRequests :
           /\ WF_allVars(/\ pc[r] = "unsent" /\ r \in Awaited
                         /\ Lost(r) \/ (Receive(r) /\ UNCHANGED formVars))
           /\ WF_allVars(pc[r] \notin Steps \cup {"unsent"} /\ (Return(r) \/ Lost(r)))

-----------------------------------------------------------------------------

\* Closing and opening the form does not let a transaction be sent a second time
\* while the first try is under way.
OneAtATime == Cardinality(Awaited) <= 1

\* What the form says of a transaction is so, whatever other clients write and whatever
\* is lost: after a success its row is in the file, whole and once; after an error that
\* the server answered it is not, and never will be.  Only when the fetch itself failed
\* does the form's error say nothing: the row may be there, or come later, and is there
\* at most once.
FeedbackIsTrue ==
    \A r \in done :
        /\ Cardinality(Places(r)) <= 1
        /\ form.feedback = "success" => Cardinality(Places(r)) = 1
        /\ form.feedback = "error" /\ fetch[r] = "answered" => Places(r) = {}

\* The form can be used again, whatever becomes of a request.
ButtonEnabledAgain == form.disabled ~> ~form.disabled
=============================================================================
