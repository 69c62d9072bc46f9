------------------------- MODULE ComposeFormProofs -------------------------
(***************************************************************************)
(* Proofs about the transaction form and the handler behind it: as long as *)
(* requests come one at a time until Transactions.csv has its header, an   *)
(* answer is true whatever the other requests do at the same time, and     *)
(* whatever fails; and the form never sends twice at a time.               *)
(***************************************************************************)
EXTENDS ComposeForm, FiniteSetTheorems, TLAPS

-----------------------------------------------------------------------------
(* The inductive invariant. *)

Cells == (Requests \cup {"header"}) \X Nat

Stages == Steps \cup {"unsent", "accepted", "refused", "unanswered"}

\* The row of r begins after cell i.
RowAt(r, i) ==
    i + RowLength[r] <= Len(file) /\ \A k \in 1 .. RowLength[r] : file[i + k] = <<r, k>>

\* No cell was written twice; a request has a row once it is to be answered, and not
\* before; one whose handler died may have it or not.
Written == {"answer", "accepted"}

RowsOK ==
    file # Absent =>
        /\ \A i, k \in DOMAIN file : file[i] = file[k] => i = k
        /\ \A r \in Requests :
               /\ pc[r] \in Written => \E i \in Nat : RowAt(r, i)
               /\ pc[r] \notin Written \cup {"unanswered"} =>
                      \A k \in DOMAIN file : file[k][1] # r

\* A file without the header is missing or empty, and at most one request is handled:
\* the one that makes it.
StagesOK ==
    /\ HasHeader \/ file \in {Absent, << >>}
    /\ ~HasHeader => \A r, q \in Handled : r = q
    /\ \A r \in Requests : /\ pc[r] = "create" => file = Absent
                           /\ pc[r] = "header" => file = << >>
                           /\ pc[r] \in {"append", "answer", "accepted"} => HasHeader

CsvInv ==
    /\ file = Absent \/ file \in Seq(Cells)
    /\ pc \in [Requests -> Stages]
    /\ crashes \in 0 .. MaxCrashes
    /\ RowsOK
    /\ StagesOK

-----------------------------------------------------------------------------
(* Lines and files. *)

\* A prefix, cell by cell.
LEMMA PrefixIs ==
    ASSUME NEW s \in Seq(Cells), NEW t \in Seq(Cells)
    PROVE  IsPrefix(s, t) <=> Len(s) <= Len(t) /\ \A k \in 1 .. Len(s) : s[k] = t[k]
<1>1. Len(s) \in Nat /\ Len(t) \in Nat
  OBVIOUS
<1>2. SubSeq(s, 1, Len(s)) = [k \in 1 .. Len(s) |-> s[k]]
  OBVIOUS
<1>3. ASSUME Len(s) <= Len(t)
      PROVE  SubSeq(t, 1, Len(s)) = [k \in 1 .. Len(s) |-> t[k]]
  BY <1>3
<1>4. ASSUME SubSeq(s, 1, Len(s)) = SubSeq(t, 1, Len(s)), Len(s) <= Len(t)
      PROVE  \A k \in 1 .. Len(s) : s[k] = t[k]
  BY <1>2, <1>3, <1>4
<1>5. ASSUME Len(s) <= Len(t), \A k \in 1 .. Len(s) : s[k] = t[k]
      PROVE  SubSeq(s, 1, Len(s)) = SubSeq(t, 1, Len(s))
  BY <1>2, <1>3, <1>5
<1> QED BY <1>4, <1>5 DEF IsPrefix

\* A line is a sequence of the cells of its owner.
LEMMA LineType ==
    ASSUME NEW owner \in Requests \cup {"header"}, NEW n \in Nat
    PROVE  /\ Line(owner, n) \in Seq(Cells) /\ Len(Line(owner, n)) = n
           /\ \A k \in 1 .. n : Line(owner, n)[k] = <<owner, k>>
<1>1. \A k \in 1 .. n : <<owner, k>> \in Cells
  BY DEF Cells
<1> QED BY <1>1 DEF Line

LEMMA HeaderType ==
    /\ Header \in Seq(Cells) /\ Len(Header) = HeaderLength /\ HeaderLength \in Nat \ {0}
    /\ \A k \in 1 .. HeaderLength : Header[k] = <<"header", k>>
BY LineType, LengthAssumption DEF Header

LEMMA RowType ==
    ASSUME NEW r \in Requests
    PROVE  /\ Row(r) \in Seq(Cells) /\ Len(Row(r)) = RowLength[r] /\ RowLength[r] \in Nat \ {0}
           /\ \A k \in 1 .. RowLength[r] : Row(r)[k] = <<r, k>>
<1>1. RowLength[r] \in Nat \ {0}
  BY LengthAssumption
<1> QED BY <1>1, LineType DEF Row

\* A file with the header exists and is not empty, and a missing one has none.
LEMMA HeaderSeen ==
    ASSUME CsvInv
    PROVE  /\ HasHeader => file \in Seq(Cells) /\ file # << >> /\ file # Absent
           /\ Absent \notin Seq(Cells)
<1>1. Absent \notin Seq(Cells)
  BY CellAssumption DEF Cells
<1>2. ASSUME HasHeader PROVE file \in Seq(Cells) /\ file # << >> /\ file # Absent
  <2>1. file \in Seq(Cells) /\ file # Absent
    BY <1>2 DEF CsvInv, HasHeader
  <2>2. Len(Header) <= Len(file)
    BY <1>2, <2>1, HeaderType, PrefixIs DEF HasHeader
  <2> QED BY <2>1, <2>2, HeaderType
<1> QED BY <1>1, <1>2

\* A row that is appended leaves the cells before it where they were.
LEMMA AppendedRow ==
    ASSUME NEW f \in Seq(Cells), NEW r \in Requests
    PROVE  LET g == f \o Row(r)
           IN  /\ g \in Seq(Cells) /\ Len(g) = Len(f) + RowLength[r]
               /\ \A k \in DOMAIN f : k \in DOMAIN g /\ g[k] = f[k]
               /\ \A k \in 1 .. RowLength[r] : g[Len(f) + k] = <<r, k>>
               /\ \A k \in DOMAIN g : k \in DOMAIN f \/ k - Len(f) \in 1 .. RowLength[r]
<1> DEFINE R == Row(r)
<1>1. /\ R \in Seq(Cells) /\ Len(R) = RowLength[r] /\ RowLength[r] \in Nat \ {0}
      /\ \A k \in 1 .. RowLength[r] : R[k] = <<r, k>>
  BY RowType
<1> HIDE DEF R
<1> PICK g : g = f \o R
  OBVIOUS
<1>2. /\ g \in Seq(Cells) /\ Len(g) = Len(f) + Len(R) /\ Len(f) \in Nat
      /\ \A k \in 1 .. Len(g) : g[k] = IF k <= Len(f) THEN f[k] ELSE R[k - Len(f)]
  BY <1>1
<1>3. DOMAIN f = 1 .. Len(f) /\ DOMAIN g = 1 .. Len(g)
  BY <1>2
<1>4. \A k \in DOMAIN f : k \in DOMAIN g /\ g[k] = f[k]
  BY <1>1, <1>2, <1>3
<1>5. ASSUME NEW k \in 1 .. RowLength[r] PROVE g[Len(f) + k] = <<r, k>>
  <2>1. Len(f) + k \in 1 .. Len(g) /\ ~(Len(f) + k <= Len(f)) /\ (Len(f) + k) - Len(f) = k
    BY <1>1, <1>2
  <2> QED BY <1>1, <1>2, <2>1
<1>6. \A k \in DOMAIN g : k \in DOMAIN f \/ k - Len(f) \in 1 .. RowLength[r]
  BY <1>1, <1>2, <1>3
<1> QED BY <1>1, <1>2, <1>4, <1>5, <1>6 DEF R

-----------------------------------------------------------------------------
(* The steps of the server. *)

\* A request goes on, or gets an answer that is an error, and the file stays.
LEMMA GoesOn ==
    ASSUME CsvInv, NEW r \in Requests, NEW step \in Stages, Goto(r, step),
           UNCHANGED <<file, crashes>>, pc[r] \notin Written \cup {"unanswered"}, step \notin Written,
           ~HasHeader /\ step \in Steps => \A q \in Handled : q = r,
           step = "create" => file = Absent, step # "header", step = "append" => HasHeader
    PROVE  CsvInv'
<1>1. /\ pc' \in [Requests -> Stages] /\ pc'[r] = step
      /\ \A q \in Requests : q # r => pc'[q] = pc[q]
  BY DEF CsvInv, Goto
<1>2. HasHeader' = HasHeader
  BY DEF HasHeader, Header
<1>3. RowsOK'
  <2>1. \A q \in Requests : q # r => pc'[q] = pc[q]
    BY <1>1
  <2> QED BY <1>1, <2>1 DEF CsvInv, RowsOK, RowAt
<1>4. StagesOK'
  <2>1. ASSUME ~HasHeader, NEW q \in Handled', NEW p \in Handled' PROVE q = p
    BY <1>1, <2>1 DEF CsvInv, StagesOK, Handled
  <2>2. ASSUME NEW q \in Requests
        PROVE  /\ pc'[q] = "create" => file' = Absent
               /\ pc'[q] = "header" => file' = << >>
               /\ pc'[q] \in {"append", "answer", "accepted"} => HasHeader'
    <3>1. CASE q = r
      BY <1>1, <1>2, <3>1 DEF Written
    <3>2. CASE q # r
      BY <1>1, <1>2, <3>2 DEF CsvInv, StagesOK
    <3> QED BY <3>1, <3>2
  <2> QED BY <1>2, <2>1, <2>2 DEF CsvInv, StagesOK
<1> QED BY <1>1, <1>3, <1>4 DEF CsvInv

\* Before there is a header only the one that makes it is handled.
LEMMA SoleHandler ==
    ASSUME CsvInv, NEW r \in Requests, pc[r] \in Steps
    PROVE  /\ ~HasHeader => \A q \in Handled : q = r
           /\ pc[r] = "create" => file = Absent /\ ~HasHeader
           /\ pc[r] = "header" => file = << >> /\ ~HasHeader
           /\ ~HasHeader => \A q \in Requests : pc[q] \notin {"append", "answer", "accepted"}
<1>1. r \in Handled
  BY DEF Handled
<1> QED BY <1>1, HeaderSeen DEF CsvInv, StagesOK

LEMMA ReceiveInv ==
    ASSUME OneFirst, CsvInv, NEW r \in Requests, Receive(r)
    PROVE  CsvInv'
<1> PICK step : step = IF r \in Invalid THEN "refused" ELSE "stat"
  OBVIOUS
<1>1. /\ step \in {"refused", "stat"} /\ step \in Stages /\ Goto(r, step)
      /\ UNCHANGED <<file, crashes>> /\ pc[r] = "unsent"
      /\ HasHeader \/ Handled = {}
  BY DEF Receive, Stages, Steps
<1> QED BY <1>1, GoesOn DEF Written

LEMMA StatInv ==
    ASSUME CsvInv, NEW r \in Requests, Stat(r)
    PROVE  CsvInv'
<1> PICK step : step = IF file = Absent THEN "create" ELSE "check"
  OBVIOUS
<1>1. /\ step \in {"create", "check"} /\ step \in Stages /\ Goto(r, step)
      /\ UNCHANGED <<file, crashes>> /\ pc[r] = "stat" /\ pc[r] \in Steps
      /\ step = "create" => file = Absent
  BY DEF Stat, Stages, Steps
<1> QED BY <1>1, GoesOn, SoleHandler DEF Written

LEMMA CheckHeaderInv ==
    ASSUME CsvInv, NEW r \in Requests, CheckHeader(r)
    PROVE  CsvInv'
<1> PICK step : step = IF HasHeader THEN "append" ELSE "refused"
  OBVIOUS
<1>1. /\ step \in {"append", "refused"} /\ step \in Stages /\ Goto(r, step)
      /\ UNCHANGED <<file, crashes>> /\ pc[r] = "check" /\ pc[r] \in Steps
      /\ step = "append" => HasHeader
  BY DEF CheckHeader, Stages, Steps
<1> QED BY <1>1, GoesOn, SoleHandler DEF Written

LEMMA FailInv ==
    ASSUME CsvInv, NEW r \in Requests, Fail(r)
    PROVE  CsvInv'
<1>1. /\ Goto(r, "refused") /\ UNCHANGED <<file, crashes>>
      /\ pc[r] \notin Written \cup {"unanswered"} /\ "refused" \in Stages
      /\ "refused" \notin Steps \cup Written
  BY DEF Fail, Stages, Steps, Written
<1> QED BY <1>1, GoesOn

\* An answer finds the row in the file.
LEMMA AnswerInv ==
    ASSUME CsvInv, NEW r \in Requests, Answer(r)
    PROVE  CsvInv'
<1>1. /\ pc' \in [Requests -> Stages] /\ pc[r] = "answer" /\ pc'[r] = "accepted"
      /\ \A q \in Requests : q # r => pc'[q] = pc[q]
      /\ file' = file /\ crashes' = crashes
  BY DEF Answer, Goto, CsvInv, Stages
<1>2. HasHeader' = HasHeader
  BY <1>1 DEF HasHeader, Header
<1>3. RowsOK'
  <2>1. \A q \in Requests : /\ pc'[q] \in Written <=> pc[q] \in Written
                            /\ pc'[q] = "unanswered" <=> pc[q] = "unanswered"
    BY <1>1 DEF Written
  <2> QED BY <1>1, <2>1 DEF CsvInv, RowsOK, RowAt
<1>4. StagesOK'
  <2>1. Handled' \subseteq Handled
    BY <1>1 DEF Handled, Steps
  <2> QED BY <1>1, <1>2, <2>1 DEF CsvInv, StagesOK
<1> QED BY <1>1, <1>3, <1>4 DEF CsvInv

\* Create makes an empty file of a missing one: nobody else is there.
LEMMA CreateInv ==
    ASSUME CsvInv, NEW r \in Requests, Create(r)
    PROVE  CsvInv'
<1>1. /\ pc[r] = "create" /\ pc[r] \in Steps
      /\ file' = << >> /\ pc' = [pc EXCEPT ![r] = "header"] /\ crashes' = crashes
  BY DEF Create, Goto, Steps
<1>2. /\ pc' \in [Requests -> Stages] /\ pc'[r] = "header"
      /\ \A q \in Requests : q # r => pc'[q] = pc[q]
  BY <1>1 DEF CsvInv, Stages, Steps
<1>3. /\ \A q \in Handled : q = r
      /\ \A q \in Requests : pc[q] \notin {"append", "answer", "accepted"}
  BY <1>1, SoleHandler
<1>4. \A q \in Requests : q # r => pc'[q] \notin Steps \cup Written
  BY <1>2, <1>3 DEF Handled, Written, Steps
<1>5. file' \in Seq(Cells) /\ DOMAIN file' = {}
  BY <1>1
<1>6. RowsOK'
  BY <1>2, <1>4, <1>5 DEF RowsOK, Written
<1>7. StagesOK'
  BY <1>1, <1>2, <1>4 DEF StagesOK, Handled, Steps, Written
<1> QED BY <1>1, <1>2, <1>5, <1>6, <1>7 DEF CsvInv

\* The header is written into an empty file.
LEMMA HeaderWritten ==
    ASSUME CsvInv, NEW r \in Requests, WriteHeader(r)
    PROVE  file = << >> /\ file' = Header
<1>1. file = << >>
  BY SoleHandler DEF WriteHeader, Steps
<1>2. SubSeq(file, Len(Header) + 1, Len(file)) = << >>
  <2>1. Len(file) = 0 /\ Len(Header) + 1 > 0 /\ Len(Header) \in Nat
    BY <1>1, HeaderType
  <2> QED BY <1>1, <2>1
<1>3. file' = Header \o << >>
  BY <1>2 DEF WriteHeader, WrittenAtStart
<1> QED BY <1>1, <1>3, HeaderType

LEMMA WriteHeaderInv ==
    ASSUME CsvInv, NEW r \in Requests, WriteHeader(r)
    PROVE  CsvInv'
<1>1. /\ pc[r] = "header" /\ pc[r] \in Steps
      /\ pc' = [pc EXCEPT ![r] = "append"] /\ crashes' = crashes
      /\ file' = Header
  BY HeaderWritten DEF WriteHeader, Goto, Steps
<1>2. /\ pc' \in [Requests -> Stages] /\ pc'[r] = "append"
      /\ \A q \in Requests : q # r => pc'[q] = pc[q]
  BY <1>1 DEF CsvInv, Stages, Steps
<1>3. /\ \A q \in Handled : q = r
      /\ \A q \in Requests : pc[q] \notin {"append", "answer", "accepted"}
  BY <1>1, SoleHandler
<1>4. \A q \in Requests : q # r => pc'[q] \notin Steps \cup Written
  BY <1>2, <1>3 DEF Handled, Written, Steps
<1>5. file' \in Seq(Cells) /\ file' # Absent /\ HasHeader'
  <2>1. IsPrefix(Header, Header)
    BY HeaderType, PrefixIs
  <2>2. Header \in Seq(Cells) /\ Header # Absent
    BY HeaderType, HeaderSeen
  <2> QED BY <1>1, <2>1, <2>2 DEF HasHeader, Header
<1>6. RowsOK'
  <2>1. \A k \in DOMAIN file' : k \in 1 .. HeaderLength /\ file'[k] = <<"header", k>>
    <3>1. DOMAIN Header = 1 .. HeaderLength
      BY HeaderType
    <3> QED BY <1>1, <3>1, HeaderType
  <2>2. \A q \in Requests : q # "header"
    BY CellAssumption
  <2> QED BY <1>2, <1>4, <2>1, <2>2 DEF RowsOK, Written
<1>7. StagesOK'
  BY <1>2, <1>4, <1>5 DEF StagesOK, Steps, Written
<1> QED BY <1>1, <1>2, <1>5, <1>6, <1>7 DEF CsvInv

\* A row is appended behind everything the file has, the header included.
LEMMA AppendRowInv ==
    ASSUME CsvInv, NEW r \in Requests, AppendRow(r)
    PROVE  CsvInv'
<1>1. /\ pc[r] = "append" /\ HasHeader /\ crashes' = crashes
      /\ pc' = [pc EXCEPT ![r] = "answer"] /\ file' = file \o Row(r)
  BY DEF AppendRow, Goto, CsvInv, StagesOK
<1>2. /\ pc' \in [Requests -> Stages] /\ pc'[r] = "answer"
      /\ \A q \in Requests : q # r => pc'[q] = pc[q]
  BY <1>1 DEF CsvInv, Stages, Steps
<1>3. file \in Seq(Cells) /\ file # Absent /\ Len(file) \in Nat
  BY <1>1, HeaderSeen
<1> PICK f : f = file
  OBVIOUS
<1> PICK g : g = file'
  OBVIOUS
<1>4. /\ g \in Seq(Cells) /\ Len(g) = Len(f) + RowLength[r]
      /\ \A k \in DOMAIN f : k \in DOMAIN g /\ g[k] = f[k]
      /\ \A k \in 1 .. RowLength[r] : g[Len(f) + k] = <<r, k>>
      /\ \A k \in DOMAIN g : k \in DOMAIN f \/ k - Len(f) \in 1 .. RowLength[r]
  BY <1>1, <1>3, AppendedRow
<1>5. g # Absent
  BY <1>4, HeaderSeen
<1>6. /\ \A i, k \in DOMAIN f : f[i] = f[k] => i = k
      /\ \A k \in DOMAIN f : f[k][1] # r
      /\ \A q \in Requests :
             /\ pc[q] \in Written => \E i \in Nat : RowAt(q, i)
             /\ pc[q] \notin Written \cup {"unanswered"} => \A k \in DOMAIN f : f[k][1] # q
  BY <1>1, <1>3 DEF CsvInv, RowsOK, Written
<1>7. /\ DOMAIN f = 1 .. Len(f) /\ DOMAIN g = 1 .. Len(g)
      /\ RowLength \in [Requests -> Nat \ {0}]
  BY <1>3, <1>4, LengthAssumption
<1>8. RowsOK'
  <2>1. ASSUME NEW k \in DOMAIN g, k \notin DOMAIN f
        PROVE  k - Len(f) \in 1 .. RowLength[r] /\ g[k] = <<r, k - Len(f)>>
    <3>1. k - Len(f) \in 1 .. RowLength[r] /\ Len(f) + (k - Len(f)) = k
      BY <1>3, <1>4, <1>7, <2>1
    <3> QED BY <1>4, <3>1
  <2>2. ASSUME NEW i \in DOMAIN g, NEW k \in DOMAIN g, g[i] = g[k] PROVE i = k
    <3>1. CASE i \in DOMAIN f /\ k \in DOMAIN f
      BY <1>4, <1>6, <2>2, <3>1
    <3>2. CASE i \notin DOMAIN f /\ k \notin DOMAIN f
      <4>1. i - Len(f) = k - Len(f)
        BY <2>1, <2>2, <3>2
      <4> QED BY <1>3, <1>7, <4>1
    <3>3. CASE i \in DOMAIN f /\ k \notin DOMAIN f
      <4>1. g[i][1] # r /\ g[k][1] = r
        BY <1>4, <1>6, <2>1, <3>3
      <4> QED BY <2>2, <4>1
    <3>4. CASE i \notin DOMAIN f /\ k \in DOMAIN f
      <4>1. g[i][1] = r /\ g[k][1] # r
        BY <1>4, <1>6, <2>1, <3>4
      <4> QED BY <2>2, <4>1
    <3> QED BY <3>1, <3>2, <3>3, <3>4
  <2>3. RowAt(r, Len(f))'
    BY <1>3, <1>4, <1>7 DEF RowAt
  <2>4. ASSUME NEW q \in Requests, q # r, pc[q] \in Written
        PROVE  \E i \in Nat : RowAt(q, i)'
    <3>1. PICK i \in Nat : RowAt(q, i)
      BY <1>6, <2>4
    <3>2. RowLength[q] \in Nat
      BY <1>7
    <3>3. ASSUME NEW k \in 1 .. RowLength[q] PROVE i + k \in DOMAIN f /\ f[i + k] = <<q, k>>
      BY <1>3, <1>7, <3>1, <3>2 DEF RowAt
    <3>4. i + RowLength[q] <= Len(g)
      <4>1. RowLength[r] \in Nat
        BY <1>7
      <4> QED BY <1>3, <1>4, <3>1, <3>2, <4>1 DEF RowAt
    <3>5. RowAt(q, i)'
      BY <1>4, <3>3, <3>4 DEF RowAt
    <3> QED BY <3>5
  <2>5. ASSUME NEW q \in Requests, q # r, pc[q] \notin Written \cup {"unanswered"}
        PROVE  \A k \in DOMAIN g : g[k][1] # q
    BY <1>4, <1>6, <2>1, <2>5
  <2>6. pc'[r] \in Written
    BY <1>2 DEF Written
  <2> QED BY <1>2, <1>3, <2>2, <2>3, <2>4, <2>5, <2>6 DEF RowsOK
<1>9. HasHeader'
  <2>1. Len(Header) <= Len(f) /\ \A k \in 1 .. Len(Header) : Header[k] = f[k]
    BY <1>1, <1>3, HeaderType, PrefixIs DEF HasHeader
  <2>2. Len(Header) <= Len(g) /\ \A k \in 1 .. Len(Header) : Header[k] = g[k]
    BY <1>3, <1>4, <1>7, <2>1, HeaderType
  <2>3. IsPrefix(Header, g)
    BY <1>4, <2>2, HeaderType, PrefixIs
  <2> QED BY <1>5, <2>3 DEF HasHeader, Header
<1>10. StagesOK'
  <2>1. \A q \in Requests : pc[q] \notin {"create", "header"}
    BY <1>1, HeaderSeen DEF CsvInv, StagesOK
  <2> QED BY <1>2, <1>9, <2>1 DEF StagesOK
<1> QED BY <1>1, <1>2, <1>4, <1>8, <1>10 DEF CsvInv

\* The process dies: the file stays.
LEMMA CrashInv ==
    ASSUME CsvInv, Crash
    PROVE  CsvInv'
<1>1. /\ pc' \in [Requests -> Stages] /\ file' = file
      /\ \A q \in Requests : pc'[q] = IF pc[q] \in Steps THEN "unanswered" ELSE pc[q]
  BY DEF Crash, CsvInv, Handled, Stages
<1>2. \A q \in Requests : /\ pc'[q] \notin Steps
                          /\ pc'[q] # "unanswered" => pc'[q] = pc[q]
                          /\ pc'[q] \in Written => pc'[q] = pc[q]
  BY <1>1 DEF Steps, Written
<1>3. HasHeader' = HasHeader
  BY <1>1 DEF HasHeader, Header
<1>4. RowsOK'
  BY <1>1, <1>2 DEF CsvInv, RowsOK, RowAt
<1>5. StagesOK'
  BY <1>1, <1>2, <1>3 DEF CsvInv, StagesOK, Handled, Steps
<1>6. crashes' \in 0 .. MaxCrashes
  BY CSVBoundAssumption DEF Crash, CsvInv
<1> QED BY <1>1, <1>4, <1>5, <1>6 DEF CsvInv

-----------------------------------------------------------------------------
(* The form, the server and the other clients together. *)

\* What a step of the whole is to the server.
LEMMA ServerSteps ==
    ASSUME [FormNext]_allVars
    PROVE  \/ UNCHANGED vars
           \/ Crash
           \/ \E r \in Requests : Receive(r) \/ Handle(r)
<1>1. CASE Server
  BY <1>1 DEF Server
<1>2. CASE \/ openComposeModal \/ closeComposeModal \/ FillIn \/ submitIncomplete
           \/ \E r \in FormRequests : \/ submitTransaction(r) \/ Return(r)
                                      \/ TimeOut(r) \/ Lost(r)
           \/ UNCHANGED allVars
  BY <1>2 DEF openComposeModal, closeComposeModal, FillIn, submitIncomplete,
              submitTransaction, Return, TimeOut, Lost, ComesBack, allVars
<1> QED BY <1>1, <1>2 DEF FormNext

\* Every step keeps CsvInv when requests come one at a time at first.
LEMMA NextCsv == OneFirst /\ CsvInv /\ [FormNext]_allVars => CsvInv'
<1> SUFFICES ASSUME OneFirst, CsvInv, [FormNext]_allVars PROVE CsvInv'
  OBVIOUS
<1>1. CASE UNCHANGED vars
  <2>1. file' = file /\ pc' = pc /\ crashes' = crashes
    BY <1>1 DEF vars
  <2> QED BY <2>1 DEF CsvInv, RowsOK, RowAt, StagesOK, HasHeader, Header, Handled
<1>2. CASE Crash
  BY <1>2, CrashInv
<1>3. ASSUME NEW r \in Requests, Receive(r) \/ Handle(r)
      PROVE  CsvInv'
  BY <1>3, ReceiveInv, StatInv, CreateInv, WriteHeaderInv, CheckHeaderInv, AppendRowInv,
     AnswerInv, FailInv DEF Handle
<1> QED BY <1>1, <1>2, <1>3, ServerSteps

\* A server begins without the file, or with one that has the header only.
LEMMA InitCsv == FormInit => CsvInv
<1> SUFFICES ASSUME FormInit PROVE CsvInv
  OBVIOUS
<1>1. file \in {Absent, Header} /\ pc = [r \in Requests |-> "unsent"] /\ crashes = 0
  BY DEF FormInit, Init
<1>2. Header \in Seq(Cells) /\ IsPrefix(Header, Header)
  BY HeaderType, PrefixIs
<1>3. file = Absent \/ HasHeader
  BY <1>1, <1>2 DEF HasHeader
<1>4. RowsOK
  <2> SUFFICES ASSUME file # Absent PROVE RowsOK
    BY DEF RowsOK
  <2>1. DOMAIN Header = 1 .. HeaderLength
    BY HeaderType
  <2>2. \A k \in DOMAIN file : k \in 1 .. HeaderLength /\ file[k] = <<"header", k>>
    BY <1>1, <2>1, HeaderType
  <2>3. \A q \in Requests : q # "header"
    BY CellAssumption
  <2> QED BY <1>1, <2>2, <2>3 DEF RowsOK, Written
<1>5. StagesOK
  BY <1>1, <1>3 DEF StagesOK, Handled, Steps
<1> QED BY <1>1, <1>2, <1>4, <1>5, CSVBoundAssumption DEF CsvInv, Stages

\* CsvInv is an invariant of the server, the form and the other clients.
THEOREM Csvs ==
    ASSUME OneFirst
    PROVE  FormSpec => []CsvInv
BY InitCsv, NextCsv, PTL DEF FormSpec

\* The state has its type.
THEOREM CsvType ==
    ASSUME OneFirst
    PROVE  FormSpec => []TypeOK
<1>1. CsvInv => TypeOK
  <2> SUFFICES ASSUME CsvInv PROVE TypeOK
    OBVIOUS
  <2>1. ASSUME file # Absent, NEW i \in DOMAIN file
        PROVE  \E r \in Requests \cup {"header"} : file[i][1] = r /\ file[i][2] \in Nat
    <3>1. file[i] \in Cells
      BY <2>1 DEF CsvInv
    <3> QED BY <3>1 DEF Cells
  <2> QED BY <2>1 DEF CsvInv, TypeOK, Stages
<1> QED BY <1>1, Csvs, PTL

\* Where the row of a request is, in the words of the invariant.
LEMMA PlacesAre ==
    ASSUME CsvInv, file # Absent, NEW r \in Requests, NEW i \in Nat
    PROVE  i \in Places(r) <=> RowAt(r, i)
<1>1. /\ file \in Seq(Cells) /\ Len(file) \in Nat /\ RowLength[r] \in Nat \ {0}
      /\ Row(r) = [k \in 1 .. RowLength[r] |-> <<r, k>>]
  BY LengthAssumption DEF CsvInv, Row, Line
<1> DEFINE n == RowLength[r]
           window == SubSeq(file, i + 1, i + n)
<1>2. ASSUME i + n <= Len(file)
      PROVE  window = [k \in 1 .. n |-> file[i + k]]
  <2>1. /\ window = [k \in 1 .. ((i + n) - (i + 1) + 1) |-> file[(i + 1) + k - 1]]
        /\ (i + n) - (i + 1) + 1 = n
        /\ \A k \in 1 .. n : (i + 1) + k - 1 = i + k
    BY <1>1
  <2> QED BY <2>1
<1>3. i \in 0 .. Len(file) - n <=> i + n <= Len(file)
  BY <1>1
<1>4. ASSUME i + n <= Len(file)
      PROVE  window = Row(r) <=> \A k \in 1 .. n : file[i + k] = <<r, k>>
  <2> HIDE DEF n
  <2>1. window = [k \in 1 .. n |-> file[i + k]] /\ Row(r) = [k \in 1 .. n |-> <<r, k>>]
    BY <1>1, <1>2, <1>4 DEF n
  <2> HIDE DEF window
  <2> QED BY <2>1
<1> QED BY <1>3, <1>4 DEF Places, RowAt

\* An answer is true: the row of an accepted request is in the file, whole and once,
\* and that of a refused one is not; no row is there twice.
LEMMA TrueAnswers == CsvInv => AnswerIsTrue
<1> SUFFICES ASSUME CsvInv, NEW r \in Requests
             PROVE  /\ Cardinality(Places(r)) <= 1
                    /\ pc[r] = "accepted" => Cardinality(Places(r)) = 1
                    /\ pc[r] = "refused" => Places(r) = {}
  BY DEF AnswerIsTrue
<1>1. RowLength[r] \in Nat \ {0}
  BY LengthAssumption
<1>2. ASSUME file # Absent, NEW i \in Places(r)
      PROVE  i \in Nat /\ RowAt(r, i) /\ i + 1 \in DOMAIN file /\ file[i + 1] = <<r, 1>>
  <2>1. i \in Nat /\ Len(file) \in Nat /\ DOMAIN file = 1 .. Len(file)
    BY <1>1, <1>2 DEF Places, CsvInv
  <2>2. RowAt(r, i)
    BY <1>2, <2>1, PlacesAre
  <2> QED BY <1>1, <2>1, <2>2 DEF RowAt
<1>3. ASSUME NEW i \in Places(r) PROVE Cardinality(Places(r)) = 1
  <2>1. file # Absent
    BY <1>3 DEF Places
  <2>2. ASSUME NEW k \in Places(r) PROVE k = i
    <3>1. i + 1 = k + 1
      BY <1>2, <1>3, <2>1, <2>2 DEF CsvInv, RowsOK
    <3> QED BY <1>2, <1>3, <2>1, <2>2, <3>1
  <2>3. Places(r) = {i}
    BY <1>3, <2>2
  <2> QED BY <2>3, FS_Singleton
<1>4. ASSUME pc[r] = "accepted" PROVE \E i : i \in Places(r)
  <2>1. file # Absent
    BY <1>4, HeaderSeen DEF CsvInv, StagesOK
  <2>2. PICK i \in Nat : RowAt(r, i)
    BY <1>4, <2>1 DEF CsvInv, RowsOK, Written
  <2> QED BY <2>1, <2>2, PlacesAre
<1>5. Places(r) = {} => Cardinality(Places(r)) = 0
  BY FS_EmptySet
<1>6. ASSUME pc[r] = "refused" PROVE Places(r) = {}
  <2>1. CASE file = Absent
    BY <2>1 DEF Places
  <2>2. CASE file # Absent
    <3>1. \A k \in DOMAIN file : file[k][1] # r
      BY <1>6, <2>2 DEF CsvInv, RowsOK, Written
    <3> QED BY <1>2, <2>2, <3>1
  <2> QED BY <2>1, <2>2
<1>7. Places(r) = {} \/ \E i : i \in Places(r)
  OBVIOUS
<1> QED BY <1>3, <1>6, <1>4, <1>5, <1>7

THEOREM AnswersAreTrue ==
    ASSUME OneFirst
    PROVE  FormSpec => []AnswerIsTrue
BY TrueAnswers, Csvs, PTL

\* No line is lost, torn or overwritten: Create meets no file, the header an empty
\* one, and rows are appended.
THEOREM FileOnlyGrows ==
    ASSUME OneFirst
    PROVE  FormSpec => OnlyGrows
<1>1. CsvInv /\ [FormNext]_allVars => [file # Absent => IsPrefix(file, file')]_file
  <2> SUFFICES ASSUME CsvInv, [FormNext]_allVars, file' # file, file # Absent
               PROVE  IsPrefix(file, file')
    OBVIOUS
  <2>1. PICK r \in Requests : Create(r) \/ WriteHeader(r) \/ AppendRow(r)
    BY ServerSteps DEF vars, Crash, Receive, Handle, Stat, CheckHeader, Answer, Fail
  <2>2. CASE Create(r)
    BY <2>2, SoleHandler DEF Create, Steps
  <2>3. CASE WriteHeader(r)
    <3> PICK none : none = << >>
      OBVIOUS
    <3>1. none \in Seq(Cells) /\ Len(none) = 0 /\ Header \in Seq(Cells) /\ Len(Header) \in Nat
      BY HeaderType
    <3>2. Len(none) <= Len(Header) /\ \A k \in 1 .. Len(none) : none[k] = Header[k]
      BY <3>1
    <3>3. IsPrefix(none, Header)
      BY <3>1, <3>2, PrefixIs
    <3> QED BY <2>3, <3>3, HeaderWritten
  <2>4. CASE AppendRow(r)
    <3> PICK f : f = file
      OBVIOUS
    <3> PICK g : g = file'
      OBVIOUS
    <3>1. f \in Seq(Cells) /\ g = f \o Row(r) /\ Len(f) \in Nat /\ RowLength[r] \in Nat
      BY <2>4, LengthAssumption DEF AppendRow, CsvInv
    <3>2. /\ g \in Seq(Cells) /\ Len(g) = Len(f) + RowLength[r]
          /\ \A k \in DOMAIN f : g[k] = f[k]
      BY <3>1, AppendedRow
    <3>3. DOMAIN f = 1 .. Len(f)
      BY <3>1
    <3>4. \A k \in 1 .. Len(f) : f[k] = g[k]
      BY <3>2, <3>3
    <3>5. \A a, b \in Nat : a <= a + b
      OBVIOUS
    <3>6. Len(f) <= Len(g)
      BY <3>1, <3>2, <3>5
    <3>7. IsPrefix(f, g)
      BY <3>1, <3>2, <3>4, <3>6, PrefixIs
    <3> QED BY <3>7
  <2> QED BY <2>1, <2>2, <2>3, <2>4
<1> QED BY <1>1, Csvs, PTL DEF FormSpec, OnlyGrows

-----------------------------------------------------------------------------
(* The page. *)

\* The button is disabled just while the form waits for the answer to its one request.
WaitsForOne ==
    /\ form \in [open : BOOLEAN, filled : BOOLEAN, disabled : BOOLEAN,
                 feedback : {"none", "incomplete", "pending", "success", "error"}]
    /\ fetch \in [FormRequests -> {"none", "pending", "answered", "lost"}]
    /\ form.disabled <=> Awaited # {}
    /\ \A r, q \in Awaited : r = q

\* What the form says is what the server answered to the last request, or that its
\* fetch was lost.
SaysSo ==
    \A r \in done :
        /\ r \in FormRequests /\ fetch[r] \in {"answered", "lost"}
        /\ form.feedback = "success" => pc[r] = "accepted"
        /\ form.feedback = "error" /\ fetch[r] = "answered" => pc[r] = "refused"

LEMMA NextWaits == WaitsForOne /\ [FormNext]_allVars => WaitsForOne'
<1> SUFFICES ASSUME WaitsForOne, [FormNext]_allVars PROVE WaitsForOne'
  OBVIOUS
<1>1. CASE Server \/ UNCHANGED allVars
  BY <1>1 DEF WaitsForOne, Awaited, Server, formVars, allVars
<1>2. CASE openComposeModal
  BY <1>2 DEF WaitsForOne, Awaited, openComposeModal
<1>3. CASE closeComposeModal \/ FillIn \/ submitIncomplete
  <2>1. /\ form' \in [open : BOOLEAN, filled : BOOLEAN, disabled : BOOLEAN,
                     feedback : {"none", "incomplete", "pending", "success", "error"}]
        /\ form'.disabled = form.disabled
    BY <1>3 DEF WaitsForOne, closeComposeModal, FillIn, submitIncomplete
  <2>2. fetch' = fetch
    BY <1>3 DEF closeComposeModal, FillIn, submitIncomplete
  <2> QED BY <2>1, <2>2 DEF WaitsForOne, Awaited
<1>4. ASSUME NEW r \in FormRequests, submitTransaction(r)
      PROVE  WaitsForOne'
  <2>1. Awaited = {} /\ Awaited' = {r}
    BY <1>4 DEF WaitsForOne, submitTransaction, Awaited
  <2> QED BY <1>4, <2>1 DEF WaitsForOne, submitTransaction
<1>5. ASSUME NEW r \in FormRequests, NEW how \in {"answered", "lost"},
             NEW feedback \in {"success", "error"}, ComesBack(r, how, feedback)
      PROVE  WaitsForOne'
  <2>1. fetch' = [fetch EXCEPT ![r] = how] /\ r \in Awaited
    BY <1>5 DEF ComesBack
  <2>2. Awaited' = {}
    BY <2>1 DEF WaitsForOne, Awaited
  <2>3. form' = [form EXCEPT !.disabled = FALSE, !.feedback = feedback]
    BY <1>5 DEF ComesBack, Enabled
  <2> QED BY <2>1, <2>2, <2>3 DEF WaitsForOne
<1>6. ASSUME NEW r \in FormRequests, Return(r) \/ Lost(r)
      PROVE  WaitsForOne'
  <2>1. Feedback(r) \in {"success", "error"}
    BY DEF Feedback
  <2> QED BY <1>5, <1>6, <2>1 DEF Return, Lost
<1>7. ASSUME NEW r \in FormRequests, TimeOut(r)
      PROVE  WaitsForOne'
  <2>1. form' = [form EXCEPT !.open = FALSE] /\ fetch' = fetch
    BY <1>7 DEF TimeOut
  <2>2. /\ form' \in [open : BOOLEAN, filled : BOOLEAN, disabled : BOOLEAN,
                     feedback : {"none", "incomplete", "pending", "success", "error"}]
        /\ form'.disabled = form.disabled
    BY <2>1 DEF WaitsForOne
  <2> QED BY <2>1, <2>2 DEF WaitsForOne, Awaited
<1> QED BY <1>1, <1>2, <1>3, <1>4, <1>6, <1>7 DEF FormNext

\* However often the form is closed and opened, whenever its timers fire and however
\* many requests it sends, it waits for one at a time.
THEOREM FormWaitsForOne == FormSpec => []OneAtATime
<1>1. FormInit => WaitsForOne
  BY DEF FormInit, WaitsForOne, Awaited
<1>2. WaitsForOne => OneAtATime
  <2> SUFFICES ASSUME WaitsForOne PROVE Cardinality(Awaited) <= 1
    BY DEF OneAtATime
  <2>1. CASE Awaited = {}
    BY <2>1, FS_EmptySet
  <2>2. ASSUME NEW r \in Awaited PROVE Cardinality(Awaited) = 1
    <3>1. Awaited = {r}
      BY <2>2 DEF WaitsForOne
    <3> QED BY <3>1, FS_Singleton
  <2> QED BY <2>1, <2>2
<1> QED BY <1>1, <1>2, NextWaits, PTL DEF FormSpec

\* What was answered stays so, with or without somebody to read the answer.
LEMMA AnswerStays ==
    ASSUME CsvInv, [FormNext]_allVars, NEW r \in Requests, pc[r] \in {"accepted", "refused"}
    PROVE  pc'[r] = pc[r]
<1>1. pc[r] \notin Steps \cup {"unsent"}
  BY DEF Steps
<1>2. CASE UNCHANGED vars
  BY <1>2 DEF vars
<1>3. CASE Crash
  BY <1>1, <1>3 DEF Crash, Handled
<1>4. ASSUME NEW q \in Requests, Receive(q) \/ Handle(q)
      PROVE  pc'[r] = pc[r]
  <2>1. PICK step : Goto(q, step)
    BY <1>4 DEF Receive, Handle, Stat, Create, WriteHeader, CheckHeader, AppendRow, Answer, Fail
  <2>2. pc[q] \in Steps \cup {"unsent"}
    BY <1>4 DEF Receive, Handle, Stat, Create, WriteHeader, CheckHeader, AppendRow, Answer,
                Fail, Steps
  <2> QED BY <1>1, <2>1, <2>2 DEF Goto, CsvInv
<1> QED BY <1>2, <1>3, <1>4, ServerSteps

LEMMA NextSays ==
    CsvInv /\ WaitsForOne /\ SaysSo /\ [FormNext]_allVars => SaysSo'
<1> SUFFICES ASSUME CsvInv, WaitsForOne, SaysSo, [FormNext]_allVars PROVE SaysSo'
  OBVIOUS
<1>1. \A r \in FormRequests : pc[r] \in {"accepted", "refused"} => pc'[r] = pc[r]
  BY AnswerStays, FormAssumption
<1>2. CASE /\ done' = done /\ \A r \in done : fetch'[r] = fetch[r]
           /\ form'.feedback \in {form.feedback, "none", "incomplete", "pending"}
  BY <1>1, <1>2 DEF SaysSo
<1>3. ASSUME NEW r \in FormRequests, Return(r) \/ Lost(r)
      PROVE  SaysSo'
  <2>1. PICK how, feedback :
            /\ ComesBack(r, how, feedback)
            /\ \/ how = "lost" /\ feedback = "error"
               \/ /\ how = "answered" /\ pc[r] \in {"accepted", "refused"}
                  /\ feedback = IF pc[r] = "accepted" THEN "success" ELSE "error"
    BY <1>3 DEF Return, Lost, Feedback
  <2>2. pc' = pc /\ done' = {r} /\ fetch'[r] = how
    BY <2>1 DEF ComesBack, vars, WaitsForOne
  <2>3. form'.feedback = feedback
    BY <2>1 DEF ComesBack, WaitsForOne
  <2> QED BY <2>1, <2>2, <2>3 DEF SaysSo
<1>4. CASE \/ Server \/ UNCHANGED allVars
           \/ openComposeModal \/ closeComposeModal \/ FillIn \/ submitIncomplete
           \/ \E r \in FormRequests : submitTransaction(r) \/ TimeOut(r)
  <2>1. CASE Server \/ UNCHANGED allVars
    BY <1>2, <2>1 DEF Server, formVars, allVars
  <2>2. CASE openComposeModal \/ closeComposeModal \/ FillIn
    BY <1>2, <2>2 DEF openComposeModal, closeComposeModal, FillIn, WaitsForOne
  <2>3. CASE submitIncomplete
    BY <1>2, <2>3 DEF submitIncomplete, WaitsForOne
  <2>4. ASSUME NEW r \in FormRequests, submitTransaction(r)
        PROVE  SaysSo'
    <3>1. done' = done /\ fetch' = [fetch EXCEPT ![r] = "pending"] /\ fetch[r] = "none"
      BY <2>4 DEF submitTransaction, Sent
    <3>2. \A q \in done : q # r /\ fetch'[q] = fetch[q]
      BY <3>1 DEF SaysSo, WaitsForOne
    <3>3. form'.feedback = "pending"
      BY <2>4 DEF submitTransaction, WaitsForOne
    <3> QED BY <1>2, <3>1, <3>2, <3>3
  <2>5. ASSUME NEW r \in FormRequests, TimeOut(r)
        PROVE  SaysSo'
    BY <1>2, <2>5 DEF TimeOut, WaitsForOne
  <2> QED BY <1>4, <2>1, <2>2, <2>3, <2>4, <2>5
<1> QED BY <1>3, <1>4 DEF FormNext

\* Until the fetch itself fails, what the form says of its last transaction is so and
\* stays so, whatever the other clients write meanwhile, through crashes and failed calls
\* of the server; after a fetch that failed it says nothing but that.
THEOREM FormSaysWhatIs ==
    ASSUME OneFirst
    PROVE  FormSpec => []FeedbackIsTrue
<1>1. FormInit => WaitsForOne /\ SaysSo
  BY DEF FormInit, WaitsForOne, SaysSo, Awaited
<1>2. CsvInv /\ SaysSo => FeedbackIsTrue
  <2> SUFFICES ASSUME CsvInv, SaysSo, NEW r \in done
               PROVE  /\ Cardinality(Places(r)) <= 1
                      /\ form.feedback = "success" => Cardinality(Places(r)) = 1
                      /\ form.feedback = "error" /\ fetch[r] = "answered" => Places(r) = {}
    BY DEF FeedbackIsTrue
  <2>1. AnswerIsTrue /\ r \in Requests
    BY TrueAnswers, FormAssumption DEF SaysSo
  <2> QED BY <2>1 DEF SaysSo, AnswerIsTrue
<1> QED BY <1>1, <1>2, Csvs, NextWaits, NextSays, PTL DEF FormSpec

=============================================================================
