--------------------------- MODULE TransactionCSV ---------------------------
(***************************************************************************)
(* POST /api/transactions of the dashboard (main.go): one goroutine per    *)
(* request, no lock, and Transactions.csv between them.  A request looks   *)
(* for the file, then creates it and writes the header, or opens it and    *)
(* checks the header; then it appends its row, and then it answers.  Each  *)
(* system call is a step; any of them may fail, and the process may die    *)
(* between two of them, also between a row and its answer.  A written line *)
(* is a run of cells, so that a write over part of a line shows.           *)
(***************************************************************************)
EXTENDS Integers, FiniteSets, SequencesExt

CONSTANTS
    Requests,    \* the requests that are sent, each once
    Invalid,     \* those with another method, a bad body, an empty field or no integer value
    RowLength,   \* the length of a request's row, in cells
    HeaderLength,
    OneFirst,    \* requests come one at a time until the file has its header
    MaxHandlers, \* bound on the requests that are handled at a time
    MaxCrashes,  \* bound on the crashes
    Absent       \* the file does not exist

ASSUME InvalidAssumption == Invalid \subseteq Requests
ASSUME LengthAssumption ==
    /\ RowLength \in [Requests -> Nat \ {0}]
    /\ HeaderLength \in Nat \ {0}
ASSUME CSVBoundAssumption == MaxHandlers \in Nat /\ MaxCrashes \in Nat /\ OneFirst \in BOOLEAN

\* A cell of a row is never one of the header, and a file is not a missing one.
ASSUME CellAssumption ==
    /\ "header" \notin Requests
    /\ Absent \notin Seq((Requests \cup {"header"}) \X Nat)

VARIABLES
    file,     \* the cells of Transactions.csv, or Absent
    pc,       \* what each request's handler does next
    crashes

vars == <<file, pc, crashes>>

-----------------------------------------------------------------------------

Line(owner, length) == [i \in 1 .. length |-> <<owner, i>>]

Header == Line("header", HeaderLength)

\* Mutant of Row: the columns are looked up under the wrong names, so all are blank.
RowBlank(r) == Line("", RowLength[r])

Row(r) == Line(r, RowLength[r])

\* A write at offset 0 over what the file holds by then.
WrittenAtStart(cells, line) ==
    line \o SubSeq(cells, Len(line) + 1, Len(cells))

Steps == {"stat", "create", "header", "check", "append", "answer"}
Handled == {r \in Requests : pc[r] \in Steps}

Goto(r, step) == pc' = [pc EXCEPT ![r] = step]

Init ==
    /\ file \in {Absent, Header}
    /\ pc = [r \in Requests |-> "unsent"]
    /\ crashes = 0

HasHeader == file # Absent /\ IsPrefix(Header, file)

\* The handler refuses an invalid request before it looks at the file.
Receive(r) ==
    /\ pc[r] = "unsent"
    /\ Cardinality(Handled) < MaxHandlers
    /\ OneFirst => HasHeader \/ Handled = {}
    /\ Goto(r, IF r \in Invalid THEN "refused" ELSE "stat")
    /\ UNCHANGED <<file, crashes>>

\* Mutant of Stat: the file is created whether or not it is there.
StatIgnored(r) ==
    /\ pc[r] = "stat"
    /\ Goto(r, "create")
    /\ UNCHANGED <<file, crashes>>

Stat(r) ==
    /\ pc[r] = "stat"
    /\ Goto(r, IF file = Absent THEN "create" ELSE "check")
    /\ UNCHANGED <<file, crashes>>

\* os.Create empties a file that has come to exist since Stat.
Create(r) ==
    /\ pc[r] = "create"
    /\ file' = << >>
    /\ Goto(r, "header")
    /\ UNCHANGED crashes

WriteHeader(r) ==
    /\ pc[r] = "header"
    /\ file' = WrittenAtStart(file, Header)
    /\ Goto(r, "append")
    /\ UNCHANGED crashes

\* Mutant of CheckHeader: the handler starts over when it has seen the header.
CheckAgain(r) ==
    /\ pc[r] = "check"
    /\ Goto(r, IF HasHeader THEN "stat" ELSE "refused")
    /\ UNCHANGED <<file, crashes>>

CheckHeader(r) ==
    /\ pc[r] = "check"
    /\ Goto(r, IF HasHeader THEN "append" ELSE "refused")
    /\ UNCHANGED <<file, crashes>>

\* The row is one write, at the end the file has by then.
AppendRow(r) ==
    /\ pc[r] = "append"
    /\ file' = file \o Row(r)
    /\ Goto(r, "answer")
    /\ UNCHANGED crashes

\* Whether the answer arrives is another matter, see ComposeForm.
Answer(r) ==
    /\ pc[r] = "answer"
    /\ Goto(r, "accepted")
    /\ UNCHANGED <<file, crashes>>

\* Mutant of Fail: an error of closing the file is answered, too.
FailLate(r) ==
    /\ pc[r] \in Steps
    /\ Goto(r, "refused")
    /\ UNCHANGED <<file, crashes>>

\* A system call fails, with no effect, and the answer is an error.  Nothing after
\* the write of the row is looked at for an error.
Fail(r) ==
    /\ pc[r] \in Steps \ {"answer"}
    /\ Goto(r, "refused")
    /\ UNCHANGED <<file, crashes>>

\* The requests that are being handled get no answer; the server is started again.
Crash ==
    /\ crashes < MaxCrashes
    /\ crashes' = crashes + 1
    /\ pc' = [r \in Requests |-> IF r \in Handled THEN "unanswered" ELSE pc[r]]
    /\ UNCHANGED file

Handle(r) ==
    \/ Stat(r)
    \/ Create(r)
    \/ WriteHeader(r)
    \/ CheckHeader(r)
    \/ AppendRow(r)
    \/ Answer(r)
    \/ Fail(r)

Next ==
    \/ \E r \in Requests : Receive(r) \/ Handle(r)
    \/ Crash

Spec == Init /\ [][Next]_vars

\* The goroutines of the server are scheduled fairly.
FairSpec == Spec /\ \A r \in Requests : WF_vars(Handle(r))

-----------------------------------------------------------------------------

\* The state has its type; every cell of the file is a request's or the header's.
TypeOK ==
    /\ file = Absent \/ \A i \in DOMAIN file :
           \E r \in Requests \cup {"header"} : file[i][1] = r /\ file[i][2] \in Nat
    /\ pc \in [Requests -> Steps \cup {"unsent", "accepted", "refused", "unanswered"}]
    /\ crashes \in 0 .. MaxCrashes

\* Where a request's row stands whole in the file.
Places(r) ==
    IF file = Absent THEN {}
    ELSE {i \in 0 .. Len(file) - RowLength[r] :
             SubSeq(file, i + 1, i + RowLength[r]) = Row(r)}

\* An answer without an error means that the row is in the file, whole and
\* once, and stays there, whatever other requests are doing meanwhile; an error
\* means that it is not.  The row of a request whose handler died is there at most once.
AnswerIsTrue ==
    \A r \in Requests :
        /\ Cardinality(Places(r)) <= 1
        /\ pc[r] = "accepted" => Cardinality(Places(r)) = 1
        /\ pc[r] = "refused" => Places(r) = {}

\* No line is lost, torn or overwritten: a file that exists only grows at its end.
OnlyGrows == [][file # Absent => IsPrefix(file, file')]_file

\* Every request gets an answer, unless the process dies.
Answered == \A r \in Requests : pc[r] \in Steps ~> pc[r] \notin Steps
=============================================================================
