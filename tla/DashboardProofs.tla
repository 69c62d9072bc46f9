--------------------------- MODULE DashboardProofs ---------------------------
(***************************************************************************)
(* Proofs about the dashboard server and the page, for any number of       *)
(* shards, nodes and requests, chains of any height and any number of      *)
(* restarts.  The bounds only restrict Next, so they need no assumption.   *)
(* FilesInv says that the files are chains that only grow, StoreInv that   *)
(* a listing is one of the views a file had, PageInv that the page shows   *)
(* views that are still in the files, StatInv that the counts are those of *)
(* such views, and DialogInv follows the request of a dialog that was      *)
(* opened alone from the click to the answer.                              *)
(***************************************************************************)
EXTENDS Page, SumProofs, TLAPS

\* What is in a file, as the listing has it.
ViewsOf(F, s) == {View(b) : b \in Range(F[<<s, 0>>].block)}

FilesInv ==
    /\ file = [f \in DOMAIN file |-> file[f]]
    /\ DOMAIN file \subseteq Files /\ IsFiniteSet(DOMAIN file)
    /\ \A f \in DOMAIN file : IsFile(file[f])

\* A parent-closed set of views, one for a hash, and one parent for a height.
Closed(views) ==
    /\ \A v \in views : v.Height \in Nat
    /\ \A u, v \in views : u.Hash = v.Hash => u = v
    /\ \A u, v \in views : u.Height = v.Height => u.ParentHash = v.ParentHash
    /\ \A v \in views : v.Height > 0 =>
           \E u \in views : u.Hash = v.ParentHash /\ u.Height + 1 = v.Height

\* The block called the latest is a highest one.
LatestOK(l) ==
    l.Blocks # {} =>
        /\ \E v \in l.Blocks : v.Hash = l.LatestHash /\ v.Height = l.LatestHeight
        /\ \A v \in l.Blocks : v.Height <= l.LatestHeight

HolderInv ==
    /\ holder = [f \in Files |-> holder[f]]
    /\ \A f \in Files : holder[f] = "start" => f \in DOMAIN file

ListInv ==
    /\ DOMAIN chosen \subseteq {f[1] : f \in DOMAIN file}
    /\ DOMAIN shards \subseteq DOMAIN chosen
    /\ phase = "up" => DOMAIN shards = DOMAIN chosen
    /\ \A s \in DOMAIN shards :
           /\ <<s, 0>> \in DOMAIN file
           /\ shards[s].Blocks \subseteq ViewsOf(file, s)
           /\ Closed(shards[s].Blocks)
           /\ LatestOK(shards[s])

RequestInv ==
    /\ req = [r \in Requests |-> req[r]]
    /\ \A r \in Requests :
           /\ req[r] = [at |-> req[r].at, shard |-> req[r].shard, hash |-> req[r].hash,
                        height |-> req[r].height, body |-> req[r].body]
           /\ req[r].at \in {"open", "read"} => <<req[r].shard, 0>> \in DOMAIN file

StoreInv == FilesInv /\ HolderInv /\ ListInv /\ RequestInv

\* What was listed once is in the files and in every listing that is made later.
Lasting(L) ==
    /\ \A s \in DOMAIN L : <<s, 0>> \in DOMAIN file /\ L[s] \subseteq ViewsOf(file, s)
    /\ phase # "off" => DOMAIN L \subseteq DOMAIN chosen
    /\ \A s \in DOMAIN L \cap DOMAIN shards : L[s] \subseteq shards[s].Blocks

PageInv == Lasting(shown.shards)

\* The total is that of a listing that some server had; nothing is shown before it.
StatInv ==
    /\ page = "blocks" => \E L : Lasting(L) /\ total <= TotalTransactions(L)
    /\ page # "done" => shown.kind = "nothing"
    /\ total \in Nat
    /\ StatNeverAhead

\* Rows that are the beginning of a block with the height in the dialog's title.
Begins(F, d, rows) ==
    \E body \in QueryBlockTxs(F[<<d.shard, 0>>].block, d.height) : IsBeginning(rows, body)

\* A request that the dialog sent, on its way.
SentBy(F, d, q) ==
    q.at # "free" =>
        /\ q.shard = d.shard /\ q.hash = d.hash
        /\ q.at \in {"open", "read"} => q.height = d.height
        /\ q.at = "answer" => Begins(F, d, q.body)

DialogInv ==
    /\ dialog = Dialog(dialog.open, dialog.shard, dialog.hash, dialog.height, dialog.alone,
                       dialog.area, dialog.rows)
    /\ page # "done" => dialog.hash = None
    /\ dialog.alone /\ dialog.hash # None =>
           /\ dialog.shard \in DOMAIN shown.shards
           /\ \E v \in shown.shards[dialog.shard] :
                  v.Hash = dialog.hash /\ v.Height = dialog.height
           /\ \A r \in Requests : SentBy(file, dialog, req[r])
           /\ dialog.area = "answered" => Begins(file, dialog, dialog.rows)

\* No step takes a block out of a file or changes it.
Grows(F, G) ==
    \A f \in DOMAIN F :
        /\ f \in DOMAIN G
        /\ \A h \in DOMAIN F[f].block :
               h \in DOMAIN G[f].block /\ G[f].block[h] = F[f].block[h]

-----------------------------------------------------------------------------

\* What a node writes is a block that keeps the file a chain.
LEMMA NextBlockFits ==
    ASSUME FilesInv, NEW f \in DOMAIN file, NEW body \in Bodies
    PROVE  /\ NextBlock(f, body).Header.Number \in Nat
           /\ NextBlock(f, body).Body \in Seq(Range(NextBlock(f, body).Body))
           /\ NextBlock(f, body).Header.Number = 0 =>
                  NextBlock(f, body).Header.ParentBlockHash = None
<1> USE DEF FilesInv, IsFile
<1>1. CASE DOMAIN file[f].newest = {}
  <2>1. NextBlock(f, body) = NewGenisisBlock(None)
    BY <1>1 DEF NextBlock
  <2>2. /\ NewGenisisBlock(None).Header.Number = 0 /\ NewGenisisBlock(None).Body = << >>
        /\ NewGenisisBlock(None).Header.ParentBlockHash = None
    BY DEF NewGenisisBlock, Sealed, NewBlock, NewHeader
  <2>3. << >> \in Seq(Range(<< >>))
    OBVIOUS
  <2> QED BY <2>1, <2>2, <2>3
<1>2. CASE DOMAIN file[f].newest # {}
  <2> DEFINE tip == file[f].block[file[f].newest["OnlyNewestBlock"]]
  <2>1. tip.Header.Number \in Nat
    BY <1>2
  <2> HIDE DEF tip
  <2>2. NextBlock(f, body) = BlockOn(tip, body)
    BY <1>2 DEF NextBlock, tip
  <2>3. BlockOn(tip, body).Header.Number = tip.Header.Number + 1 /\ BlockOn(tip, body).Body = body
    BY DEF BlockOn, Sealed, NewBlock, NewHeader
  <2>4. body \in Seq(Range(body))
    BY BodiesAssumption
  <2> QED BY <2>1, <2>2, <2>3, <2>4
<1> QED BY <1>1, <1>2

\* Putting a block that follows, with or without moving the newest hash.
LEMMA PutKeepsFile ==
    ASSUME NEW F, IsFile(F), NEW b, NEW n,
           b.Header.Number \in Nat, b.Body \in Seq(Range(b.Body)),
           b.Header.Number = 0 => b.Header.ParentBlockHash = None,
           Follows(F.block, F.newest, b),
           b.Hash \in DOMAIN F.block => F.block[b.Hash] = b,
           n = F.newest \/ n = NewestIs(b.Hash)
    PROVE  /\ IsFile([block |-> Stored(F.block, b), newest |-> n])
           /\ \A h \in DOMAIN F.block :
                  h \in DOMAIN Stored(F.block, b) /\ Stored(F.block, b)[h] = F.block[h]
<1> DEFINE B == Stored(F.block, b)
<1>1. DOMAIN B = DOMAIN F.block \cup {b.Hash} /\ B[b.Hash] = b
  BY DEF Stored
<1>2. \A h \in DOMAIN F.block : h \in DOMAIN B /\ B[h] = F.block[h]
  BY DEF Stored
<1> HIDE DEF B
<1>3. b.Header.Number > 0 =>
          /\ b.Header.ParentBlockHash \in DOMAIN F.block
          /\ F.block[b.Header.ParentBlockHash].Header.Number + 1 = b.Header.Number
  BY DEF Follows, IsFile
<1>4. \A k \in DOMAIN n : k = "OnlyNewestBlock" /\ n[k] \in DOMAIN B
  BY <1>1, <1>2 DEF IsFile, NewestIs
<1>5. ASSUME NEW h \in DOMAIN B
      PROVE  /\ B[h].Hash = h /\ B[h].Header.Number \in Nat /\ B[h].Body \in Seq(Range(B[h].Body))
             /\ B[h].Header.Number = 0 => B[h].Header.ParentBlockHash = None
             /\ B[h].Header.Number > 0 =>
                    /\ B[h].Header.ParentBlockHash \in DOMAIN B
                    /\ B[B[h].Header.ParentBlockHash].Header.Number + 1 = B[h].Header.Number
  <2>1. CASE h = b.Hash
    BY <2>1, <1>1, <1>2, <1>3
  <2>2. CASE h \in DOMAIN F.block
    BY <2>2, <1>2 DEF IsFile
  <2> QED BY <2>1, <2>2, <1>1
<1>6. IsFiniteSet(DOMAIN B)
  BY <1>1, FS_AddElement DEF IsFile
<1> DEFINE N(h) == F.block[h].Header.Number
           P(h) == F.block[h].Header.ParentBlockHash
           G == [block |-> B, newest |-> n]
<1>7. ASSUME NEW h \in DOMAIN F.block
      PROVE  /\ N(h) <= b.Header.Number
             /\ N(h) = b.Header.Number => P(h) = b.Header.ParentBlockHash
             /\ Below(F, F.block[h]) => N(h) < b.Header.Number
  <2>1. N(h) \in Nat /\ (N(h) = 0 => P(h) = None)
    BY DEF IsFile
  <2>2. CASE DOMAIN F.newest = {}
    BY <2>1, <2>2 DEF IsFile, Follows, Below
  <2>3. CASE DOMAIN F.newest # {}
    <3> DEFINE tip == F.block[F.newest["OnlyNewestBlock"]]
    <3>1. /\ tip.Header.Number \in Nat /\ b.Header.Number = tip.Header.Number + 1
          /\ b.Header.ParentBlockHash = F.newest["OnlyNewestBlock"]
      BY <2>3 DEF IsFile, Follows
    <3>2. \/ N(h) <= tip.Header.Number
          \/ N(h) = tip.Header.Number + 1 /\ P(h) = F.newest["OnlyNewestBlock"]
      BY <2>3 DEF IsFile, Follows, Below
    <3>3. Below(F, F.block[h]) => N(h) <= tip.Header.Number
      BY DEF Below
    <3> HIDE DEF tip
    <3> QED BY <2>1, <3>1, <3>2, <3>3
  <2> QED BY <2>2, <2>3
<1>8. ASSUME NEW g \in DOMAIN B, NEW h \in DOMAIN B PROVE Siblings(B[g], B[h])
  <2>1. g = b.Hash \/ g \in DOMAIN F.block
    BY <1>1
  <2>2. h = b.Hash \/ h \in DOMAIN F.block
    BY <1>1
  <2> QED BY <1>1, <1>2, <1>7, <2>1, <2>2 DEF Siblings, IsFile
<1>9. ASSUME NEW h \in DOMAIN B PROVE Below(G, B[h]) \/ Follows(B, n, B[h])
  <2>1. h = b.Hash \/ h \in DOMAIN F.block
    BY <1>1
  <2>2. CASE n = NewestIs(b.Hash)
    <3>1. DOMAIN n # {} /\ n["OnlyNewestBlock"] = b.Hash
      BY <2>2 DEF NewestIs
    <3>2. B[h].Header.Number <= b.Header.Number
      BY <1>1, <1>2, <1>7, <2>1
    <3> QED BY <1>1, <3>1, <3>2 DEF Below
  <2>3. CASE n = F.newest
    <3>1. DOMAIN n # {} => /\ n["OnlyNewestBlock"] \in DOMAIN F.block
                           /\ B[n["OnlyNewestBlock"]] = F.block[n["OnlyNewestBlock"]]
      BY <1>2, <2>3 DEF IsFile
    <3>2. CASE h = b.Hash
      BY <1>1, <2>3, <3>1, <3>2 DEF Follows
    <3>3. CASE h \in DOMAIN F.block
      <4>1. B[h] = F.block[h] /\ (Below(F, F.block[h]) \/ Follows(F.block, F.newest, F.block[h]))
        BY <1>2, <3>3 DEF IsFile
      <4>2. Below(F, F.block[h]) => Below(G, B[h])
        BY <2>3, <3>1, <4>1 DEF Below
      <4>3. Follows(F.block, F.newest, F.block[h]) => Follows(B, n, B[h])
        BY <2>3, <3>1, <4>1 DEF Follows
      <4> QED BY <4>1, <4>2, <4>3
    <3> QED BY <2>1, <3>2, <3>3
  <2> QED BY <2>2, <2>3
<1>10. IsFile(G)
  BY <1>4, <1>5, <1>6, <1>8, <1>9 DEF IsFile
<1> QED BY <1>2, <1>10 DEF B

LEMMA EmptyIsFile == IsFile(EmptyFile)
BY FS_EmptySet DEF IsFile, EmptyFile, EmptyBucket

\* Opening a file that is not there makes an empty one.
LEMMA OpenedKeeps ==
    ASSUME FilesInv, NEW f \in Files, file' = Opened(f)
    PROVE  FilesInv' /\ Grows(file, file') /\ f \in DOMAIN file'
<1>1. CASE f \in DOMAIN file
  BY <1>1 DEF Opened, FilesInv, Grows
<1>2. CASE f \notin DOMAIN file
  <2>1. /\ file' = [g \in DOMAIN file \cup {f} |-> IF g = f THEN EmptyFile ELSE file[g]]
        /\ DOMAIN file' = DOMAIN file \cup {f}
        /\ \A g \in DOMAIN file : file'[g] = file[g]
        /\ file'[f] = EmptyFile
    BY <1>2 DEF Opened
  <2>2. file' = [g \in DOMAIN file' |-> file'[g]]
    BY <2>1
  <2>3. \A g \in DOMAIN file' : IsFile(file'[g])
    BY <2>1, EmptyIsFile DEF FilesInv
  <2>4. IsFiniteSet(DOMAIN file')
    BY <2>1, FS_AddElement DEF FilesInv
  <2> QED BY <2>1, <2>2, <2>3, <2>4 DEF FilesInv, Grows
<1> QED BY <1>1, <1>2

LEMMA NodeKeepsFiles ==
    ASSUME FilesInv, NEW f \in NodeFiles, NEW body \in Bodies, f \in DOMAIN file,
           \/ NodeAdds(f, NextBlock(f, body))
           \/ NodeDies(f, NextBlock(f, body))
    PROVE  FilesInv' /\ Grows(file, file') /\ DOMAIN file' = DOMAIN file
<1> DEFINE b == NextBlock(f, body)
<1>1. /\ b.Header.Number \in Nat /\ b.Body \in Seq(Range(b.Body))
      /\ b.Header.Number = 0 => b.Header.ParentBlockHash = None
  BY NextBlockFits
<1> HIDE DEF b
<1>2. /\ Follows(file[f].block, file[f].newest, b)
      /\ b.Hash \in DOMAIN file[f].block => file[f].block[b.Hash] = b
  BY DEF NodeAdds, NodeDies, MayPut, b
<1>3. PICK n : /\ n = file[f].newest \/ n = NewestIs(b.Hash)
               /\ file' = [file EXCEPT ![f] = [block |-> Stored(file[f].block, b), newest |-> n]]
  BY DEF NodeAdds, NodeDies, b
<1>4. /\ IsFile([block |-> Stored(file[f].block, b), newest |-> n])
      /\ \A h \in DOMAIN file[f].block :
             /\ h \in DOMAIN Stored(file[f].block, b)
             /\ Stored(file[f].block, b)[h] = file[f].block[h]
  BY <1>1, <1>2, <1>3, PutKeepsFile DEF FilesInv
<1> DEFINE new == [block |-> Stored(file[f].block, b), newest |-> n]
<1>5. new.block = Stored(file[f].block, b)
  OBVIOUS
<1> HIDE DEF new
<1>6. /\ DOMAIN file' = DOMAIN file
      /\ file'[f] = new
      /\ \A g \in DOMAIN file : g # f => file'[g] = file[g]
      /\ file' = [g \in DOMAIN file' |-> file'[g]]
  BY <1>3 DEF FilesInv, new
<1>7. IsFile(new)
  BY <1>4 DEF new
<1> QED BY <1>4, <1>5, <1>6, <1>7 DEF FilesInv, Grows

-----------------------------------------------------------------------------

LEMMA ShardFiles ==
    ASSUME NEW s \in Shards PROVE <<s, 0>> \in Files
BY DEF Files

LEMMA FileShards ==
    ASSUME FilesInv, NEW f \in DOMAIN file PROVE f[1] \in Shards
BY FilesAssumption DEF FilesInv, Files

LEMMA ViewsGrow ==
    ASSUME NEW F, NEW G, Grows(F, G), NEW s, <<s, 0>> \in DOMAIN F
    PROVE  ViewsOf(F, s) \subseteq ViewsOf(G, s)
BY DEF Grows, ViewsOf, Range

\* The blocks of a file are closed under parents and have a hash each.
LEMMA FileIsClosed ==
    ASSUME FilesInv, NEW s, <<s, 0>> \in DOMAIN file
    PROVE  Closed(ViewsOf(file, s))
<1> DEFINE B == file[<<s, 0>>].block
<1>1. \A h \in DOMAIN B :
          /\ B[h].Hash = h
          /\ B[h].Header.Number \in Nat
          /\ B[h].Header.Number > 0 =>
                 /\ B[h].Header.ParentBlockHash \in DOMAIN B
                 /\ B[B[h].Header.ParentBlockHash].Header.Number + 1 = B[h].Header.Number
  BY DEF FilesInv, IsFile
<1>2. ViewsOf(file, s) = {View(B[h]) : h \in DOMAIN B}
  BY DEF ViewsOf, Range
<1> HIDE DEF B
<1>3. \A h \in DOMAIN B :
          /\ View(B[h]).Hash = h
          /\ View(B[h]).Height = B[h].Header.Number
          /\ View(B[h]).ParentHash = B[h].Header.ParentBlockHash
  BY <1>1 DEF View
<1>4. \A v \in ViewsOf(file, s) : v.Hash \in DOMAIN B /\ v = View(B[v.Hash])
  BY <1>2, <1>3
<1>5. ASSUME NEW v \in ViewsOf(file, s), v.Height > 0
      PROVE  \E u \in ViewsOf(file, s) : u.Hash = v.ParentHash /\ u.Height + 1 = v.Height
  <2>1. B[v.Hash].Header.Number > 0 /\ v.ParentHash \in DOMAIN B
    BY <1>1, <1>3, <1>4, <1>5
  <2>2. View(B[v.ParentHash]) \in ViewsOf(file, s)
    BY <2>1, <1>2
  <2>3. View(B[v.ParentHash]).Hash = v.ParentHash /\ View(B[v.ParentHash]).Height + 1 = v.Height
    BY <2>1, <1>1, <1>3, <1>4
  <2> QED BY <2>2, <2>3
<1>6. \A v \in ViewsOf(file, s) : v.Height \in Nat
  BY <1>1, <1>3, <1>4
<1>7. ASSUME NEW u \in ViewsOf(file, s), NEW v \in ViewsOf(file, s), u.Height = v.Height
      PROVE  u.ParentHash = v.ParentHash
  <2>1. \A g, h \in DOMAIN B : Siblings(B[g], B[h])
    BY DEF FilesInv, IsFile, B
  <2>2. Siblings(B[u.Hash], B[v.Hash])
    BY <1>4, <2>1
  <2> QED BY <1>3, <1>4, <1>7, <2>2 DEF Siblings
<1> QED BY <1>4, <1>5, <1>6, <1>7 DEF Closed

LEMMA LatestIsHighest ==
    ASSUME NEW views, \A v \in views : v.Height \in Nat, NEW latest \in Latest(views),
           NEW l, l.Blocks = views, l.LatestHeight = latest.Height, l.LatestHash = latest.Hash
    PROVE  LatestOK(l)
<1> SUFFICES ASSUME views # {} PROVE LatestOK(l)
  BY DEF LatestOK
<1>1. PICK v \in views : /\ \A u \in views : u.Height <= v.Height
                         /\ latest = [Height |-> v.Height, Hash |-> v.Hash]
  BY DEF Latest
<1>2. latest.Height = v.Height /\ latest.Hash = v.Hash
  BY <1>1
<1> QED BY <1>1, <1>2 DEF LatestOK

-----------------------------------------------------------------------------

\* A step of anyone keeps the files chains, and only adds to them.
LEMMA FilesStep ==
    ASSUME StoreInv, [Next]_vars
    PROVE  FilesInv' /\ Grows(file, file')
<1>1. ASSUME file' = file PROVE FilesInv' /\ Grows(file, file')
  BY <1>1 DEF StoreInv, FilesInv, Grows
<1>2. ASSUME NEW f \in Files, file' = Opened(f) PROVE FilesInv' /\ Grows(file, file')
  BY <1>2, OpenedKeeps DEF StoreInv
<1>3. CASE Node
  <2>1. PICK f \in NodeFiles :
            \/ NodeStart(f)
            \/ \E body \in Bodies : f \in DOMAIN file /\
                   (NodeAdds(f, NextBlock(f, body)) \/ NodeDies(f, NextBlock(f, body)))
            \/ NodeStops(f)
    BY <1>3 DEF Node
  <2>2. CASE NodeStart(f)
    BY <2>2, <1>2 DEF NodeStart, Files
  <2>3. CASE NodeStops(f)
    BY <2>3, <1>1 DEF NodeStops
  <2>4. CASE \E body \in Bodies : f \in DOMAIN file /\
                 (NodeAdds(f, NextBlock(f, body)) \/ NodeDies(f, NextBlock(f, body)))
    BY <2>4, NodeKeepsFiles DEF StoreInv
  <2> QED BY <2>1, <2>2, <2>3, <2>4
<1>4. CASE \E s \in Shards : LoadOpen(s)
  BY <1>4, <1>2, ShardFiles DEF LoadOpen, Source
<1>5. CASE \E r \in Requests : OpenFile(r)
  BY <1>5, <1>2 DEF OpenFile, StoreInv, RequestInv, FilesInv
<1>6. CASE \/ StartServer \/ Serve \/ Kill \/ UNCHANGED vars
           \/ \E s \in Shards : LoadRead(s)
           \/ \E r \in Requests : Receive(r) \/ ReadTxs(r) \/ Refuse(r)
           \/ OpenPage \/ Refresh \/ closeModal
           \/ \E r \in Requests : Deliver(r) \/ \E c \in Clickable : showModal(r, c[1], c[2], c[3])
  BY <1>6, <1>1 DEF StartServer, Serve, Kill, LoadRead, Receive, ReadTxs, Refuse, OpenPage,
                    Refresh, FetchStat, FetchBlocks, FetchFails, closeModal, Deliver, showModal,
                    vars, storeVars, files
<1> QED BY <1>3, <1>4, <1>5, <1>6 DEF Next, StoreNext, Load, Handle

\* The part of Next that is not the page's.
LEMMA StepCases ==
    ASSUME [Next]_vars
    PROVE  \/ \E f \in NodeFiles :
                  \/ NodeStart(f) \/ NodeStops(f)
                  \/ \E body \in Bodies : f \in DOMAIN file /\
                        (NodeAdds(f, NextBlock(f, body)) \/ NodeDies(f, NextBlock(f, body)))
           \/ StartServer \/ Serve \/ Kill
           \/ \E s \in Shards : LoadOpen(s) \/ LoadRead(s)
           \/ \E r \in Requests : Receive(r) \/ OpenFile(r) \/ ReadTxs(r) \/ Refuse(r)
           \/ UNCHANGED storeVars
           \/ \E r \in Requests : \/ Deliver(r)
                                  \/ \E c \in Clickable : showModal(r, c[1], c[2], c[3])
BY DEF Next, StoreNext, Node, Load, Handle, OpenPage, Refresh, FetchStat, FetchBlocks,
       FetchFails, closeModal, vars

LEMMA HolderStep ==
    ASSUME StoreInv, [Next]_vars
    PROVE  HolderInv'
<1> USE DEF HolderInv
<1>0. HolderInv /\ DOMAIN file \subseteq DOMAIN file' /\ None # "start"
  BY FilesStep, NamesAssumption DEF StoreInv, Grows
<1>1. ASSUME holder' = holder PROVE HolderInv'
  BY <1>0, <1>1
<1>2. ASSUME NEW f \in Files, Held(f, None) PROVE HolderInv'
  BY <1>0, <1>2 DEF Held
<1>3. ASSUME NEW f \in Files, NEW who, Held(f, who), file' = Opened(f) PROVE HolderInv'
  <2>1. f \in DOMAIN file'
    BY <1>3, OpenedKeeps DEF StoreInv
  <2> QED BY <1>0, <1>3, <2>1 DEF Held
<1>4. ASSUME NEW f \in NodeFiles, NodeStart(f) PROVE HolderInv'
  BY <1>3, <1>4 DEF NodeStart, Files
<1>5. ASSUME NEW f \in NodeFiles, NEW b, NodeStops(f) \/ NodeDies(f, b) PROVE HolderInv'
  BY <1>2, <1>5 DEF NodeStops, NodeDies, Files
<1>6. ASSUME NEW s \in Shards, LoadOpen(s) PROVE HolderInv'
  BY <1>3, <1>6, ShardFiles DEF LoadOpen, Source
<1>7. ASSUME NEW s \in Shards, LoadRead(s) PROVE HolderInv'
  BY <1>2, <1>7, ShardFiles DEF LoadRead, Source
<1>8. ASSUME NEW r \in Requests, OpenFile(r) PROVE HolderInv'
  BY <1>3, <1>8 DEF OpenFile, StoreInv, RequestInv, FilesInv
<1>9. ASSUME NEW r \in Requests, ReadTxs(r) PROVE HolderInv'
  BY <1>2, <1>9 DEF ReadTxs, Released, StoreInv, RequestInv, FilesInv
<1>10. CASE Kill
  BY <1>0, <1>10 DEF Kill
<1>11. ASSUME \/ \E f \in NodeFiles, body \in Bodies : NodeAdds(f, NextBlock(f, body))
              \/ StartServer \/ Serve \/ UNCHANGED storeVars
              \/ \E r \in Requests : Receive(r) \/ Refuse(r) \/ Deliver(r)
              \/ \E r \in Requests, c \in Clickable : showModal(r, c[1], c[2], c[3])
       PROVE  HolderInv'
  BY <1>1, <1>11 DEF NodeAdds, StartServer, Serve, Receive, Refuse, Deliver, showModal,
                     storeVars, files
<1> QED BY <1>4, <1>5, <1>6, <1>7, <1>8, <1>9, <1>10, <1>11, StepCases

\* What was listed is still in the files.
LEMMA ListKept ==
    ASSUME StoreInv, [Next]_vars, chosen' = chosen, shards' = shards,
           phase' = "up" => DOMAIN shards = DOMAIN chosen
    PROVE  ListInv'
<1>1. Grows(file, file')
  BY FilesStep
<1>2. DOMAIN chosen' \subseteq {f[1] : f \in DOMAIN file'}
  BY <1>1 DEF StoreInv, ListInv, Grows
<1>3. ASSUME NEW s \in DOMAIN shards
      PROVE  <<s, 0>> \in DOMAIN file' /\ shards[s].Blocks \subseteq ViewsOf(file', s)
  <2>1. <<s, 0>> \in DOMAIN file /\ shards[s].Blocks \subseteq ViewsOf(file, s)
    BY DEF StoreInv, ListInv
  <2> QED BY <1>1, <2>1, ViewsGrow DEF Grows
<1> QED BY <1>2, <1>3 DEF StoreInv, ListInv

LEMMA ListStep ==
    ASSUME StoreInv, [Next]_vars
    PROVE  ListInv'
<1>0. FilesInv /\ FilesInv' /\ Grows(file, file')
  BY FilesStep DEF StoreInv
<1>1. CASE UNCHANGED server
  BY <1>1, ListKept DEF server, StoreInv, ListInv
<1>2. CASE StartServer
  <2>1. /\ shards' = [s \in {} |-> None] /\ phase' = "load" /\ file' = file
        /\ DOMAIN chosen' = {f[1] : f \in DOMAIN file}
    BY <1>2 DEF StartServer, chooseShardDatabases, files
  <2>2. DOMAIN shards' = {}
    BY <2>1
  <2> QED BY <2>1, <2>2 DEF ListInv
<1>3. CASE Kill
  <2>1. shards' = [s \in {} |-> None] /\ chosen' = [s \in {} |-> 0] /\ phase' = "off"
    BY <1>3 DEF Kill
  <2>2. DOMAIN shards' = {} /\ DOMAIN chosen' = {}
    BY <2>1
  <2> QED BY <2>1, <2>2 DEF ListInv
<1>4. CASE Serve
  BY <1>4, ListKept DEF Serve
<1>5. ASSUME NEW s \in Shards, LoadRead(s) PROVE ListInv'
  <2> DEFINE views == ViewsOf(file, s)
  <2>1. /\ phase' = phase /\ chosen' = chosen /\ file' = file /\ phase = "load"
        /\ s \in DOMAIN chosen
        /\ <<s, 0>> \in Files /\ holder[<<s, 0>>] = "start"
    BY <1>5, ShardFiles DEF LoadRead, Source
  <2>2. <<s, 0>> \in DOMAIN file
    BY <2>1 DEF StoreInv, HolderInv
  <2>3. PICK latest \in Latest(views) :
            shards' = [t \in DOMAIN shards \cup {s} |->
                         IF t # s THEN shards[t]
                         ELSE [Path |-> chosen[s], Blocks |-> views,
                               LatestHeight |-> latest.Height, LatestHash |-> latest.Hash]]
    BY <1>5 DEF LoadRead, loadShardBlocksFromQuery, ViewsOf, Source, QueryBlocks
  <2>4. Closed(views)
    BY <1>0, <2>2, FileIsClosed
  <2> HIDE DEF views
  <2>5. /\ DOMAIN shards' = DOMAIN shards \cup {s}
        /\ \A t \in DOMAIN shards : t # s => shards'[t] = shards[t]
        /\ shards'[s].Blocks = views
        /\ shards'[s].LatestHeight = latest.Height /\ shards'[s].LatestHash = latest.Hash
    BY <2>3
  <2>6. LatestOK(shards'[s])
    BY <2>4, <2>5, LatestIsHighest DEF Closed
  <2>7. views = ViewsOf(file', s)
    BY <2>1 DEF views
  <2> QED BY <2>1, <2>2, <2>4, <2>5, <2>6, <2>7 DEF StoreInv, ListInv
<1>6. ASSUME \/ \E f \in NodeFiles : NodeStart(f) \/ NodeStops(f)
             \/ \E f \in NodeFiles, body \in Bodies :
                    NodeAdds(f, NextBlock(f, body)) \/ NodeDies(f, NextBlock(f, body))
             \/ \E s \in Shards : LoadOpen(s)
             \/ \E r \in Requests : Receive(r) \/ OpenFile(r) \/ ReadTxs(r) \/ Refuse(r)
             \/ \E r \in Requests : Deliver(r)
             \/ \E r \in Requests, c \in Clickable : showModal(r, c[1], c[2], c[3])
             \/ UNCHANGED storeVars
      PROVE  UNCHANGED server
  BY <1>6 DEF NodeStart, NodeStops, NodeAdds, NodeDies, LoadOpen, Receive, OpenFile, ReadTxs,
              Refuse, Deliver, showModal, storeVars
<1> QED BY <1>1, <1>2, <1>3, <1>4, <1>5, <1>6, StepCases

LEMMA RequestStep ==
    ASSUME StoreInv, [Next]_vars
    PROVE  RequestInv'
<1> DEFINE Rec(q) == q = [at |-> q.at, shard |-> q.shard, hash |-> q.hash,
                          height |-> q.height, body |-> q.body]
<1>0. /\ DOMAIN file \subseteq DOMAIN file'
      /\ req = [r \in Requests |-> req[r]]
      /\ \A r \in Requests : Rec(req[r])
      /\ \A r \in Requests : req[r].at \in {"open", "read"} => <<req[r].shard, 0>> \in DOMAIN file
  BY FilesStep DEF StoreInv, RequestInv, Grows
<1>1. CASE req' = req
  BY <1>0, <1>1 DEF RequestInv
<1>2. ASSUME NEW r \in Requests, NEW q, req' = [req EXCEPT ![r] = q], Rec(q),
             q.at \in {"open", "read"} => <<q.shard, 0>> \in DOMAIN file
      PROVE  RequestInv'
  <2> HIDE DEF Rec
  <2>1. /\ req' = [p \in Requests |-> req'[p]]
        /\ \A p \in Requests : req'[p] = IF p = r THEN q ELSE req[p]
    BY <1>0, <1>2
  <2>2. \A p \in Requests : Rec(req'[p])
    BY <1>0, <1>2, <2>1
  <2>3. \A p \in Requests : req'[p].at \in {"open", "read"} => <<req'[p].shard, 0>> \in DOMAIN file'
    BY <1>0, <1>2, <2>1
  <2> QED BY <2>1, <2>2, <2>3 DEF RequestInv, Rec
<1>7. ASSUME NEW r \in Requests, NEW at, NEW s, NEW h, NEW height, NEW body,
             req' = [req EXCEPT ![r] = Request(at, s, h, height, body)],
             at \in {"open", "read"} => <<s, 0>> \in DOMAIN file
      PROVE  RequestInv'
  <2>1. /\ Rec(Request(at, s, h, height, body))
        /\ Request(at, s, h, height, body).at = at /\ Request(at, s, h, height, body).shard = s
    BY DEF Request
  <2> HIDE DEF Rec
  <2> QED BY <2>1, <1>7, <1>2
<1>3. ASSUME NEW r \in Requests, Receive(r) PROVE RequestInv'
  <2>1. CASE Listed(req[r].shard, req[r].hash)
    <3>1. PICK v \in shards[req[r].shard].Blocks :
              req' = [req EXCEPT ![r] = Request("open", req[r].shard, req[r].hash, v.Height, << >>)]
      BY <1>3, <2>1 DEF Receive
    <3>2. <<req[r].shard, 0>> \in DOMAIN file
      BY <2>1 DEF Listed, StoreInv, ListInv
    <3> QED BY <3>1, <3>2, <1>7
  <2>2. CASE ~Listed(req[r].shard, req[r].hash)
    <3> HIDE DEF Rec
    <3>1. req' = [req EXCEPT ![r] = Request("answer", req[r].shard, req[r].hash, 0, << >>)]
      BY <1>3, <2>2 DEF Receive
    <3> QED BY <3>1, <1>7
  <2> QED BY <2>1, <2>2
<1>4. ASSUME NEW r \in Requests, OpenFile(r) PROVE RequestInv'
  <2> DEFINE q == [req[r] EXCEPT !.at = "read"]
  <2>1. req' = [req EXCEPT ![r] = q] /\ req[r].at = "open"
    BY <1>4 DEF OpenFile
  <2>2. Rec(q) /\ q.shard = req[r].shard
    BY <1>0
  <2>3. <<req[r].shard, 0>> \in DOMAIN file
    BY <1>0, <2>1
  <2> HIDE DEF q, Rec
  <2> QED BY <2>1, <2>2, <2>3, <1>2
<1>5. ASSUME NEW r \in Requests, ReadTxs(r) PROVE RequestInv'
  <2> HIDE DEF Rec
  <2>1. PICK body : req' = [req EXCEPT ![r] = Request("answer", req[r].shard, req[r].hash,
                                                      req[r].height, Views(body))]
    BY <1>5 DEF ReadTxs
  <2> QED BY <2>1, <1>7
<1>6. ASSUME NEW r \in Requests, Refuse(r) PROVE RequestInv'
  <2> DEFINE q == [req[r] EXCEPT !.at = "failed"]
  <2>1. req' = [req EXCEPT ![r] = q]
    BY <1>6 DEF Refuse
  <2>2. Rec(q) /\ q.at = "failed"
    BY <1>0
  <2> HIDE DEF q, Rec
  <2> QED BY <2>1, <2>2, <1>2
<1>8. ASSUME NEW r \in Requests,
             Deliver(r) \/ \E c \in Clickable : showModal(r, c[1], c[2], c[3])
      PROVE  RequestInv'
  <2> HIDE DEF Rec
  <2>1. CASE Deliver(r)
    <3>1. req' = [req EXCEPT ![r] = Request("free", None, None, 0, << >>)]
      BY <2>1 DEF Deliver
    <3> QED BY <3>1, <1>7
  <2>2. CASE \E c \in Clickable : showModal(r, c[1], c[2], c[3])
    <3>1. PICK c : req' = [req EXCEPT ![r] = Request("sent", c[1], c[2], 0, << >>)]
      BY <2>2 DEF showModal
    <3> QED BY <3>1, <1>7
  <2> QED BY <1>8, <2>1, <2>2
<1>9. CASE Kill
  <2>1. /\ req' = [r \in Requests |-> IF req[r].at \in {"open", "read", "answer"}
                                      THEN [req[r] EXCEPT !.at = "failed"] ELSE req[r]]
        /\ file' = file
    BY <1>9 DEF Kill
  <2>2. \A r \in Requests : Rec([req[r] EXCEPT !.at = "failed"])
                            /\ [req[r] EXCEPT !.at = "failed"].at = "failed"
    BY <1>0
  <2> HIDE DEF Rec
  <2>3. \A r \in Requests : Rec(req'[r]) /\ req'[r].at \notin {"open", "read"}
    BY <1>0, <2>1, <2>2
  <2> QED BY <2>1, <2>3 DEF RequestInv, Rec
<1>10. ASSUME \/ \E f \in NodeFiles : NodeStart(f) \/ NodeStops(f)
              \/ \E f \in NodeFiles, body \in Bodies :
                     NodeAdds(f, NextBlock(f, body)) \/ NodeDies(f, NextBlock(f, body))
              \/ StartServer \/ Serve \/ UNCHANGED storeVars
              \/ \E s \in Shards : LoadOpen(s) \/ LoadRead(s)
       PROVE  RequestInv'
  BY <1>1, <1>10 DEF NodeStart, NodeStops, NodeAdds, NodeDies, StartServer, Serve, LoadOpen,
                     LoadRead, storeVars
<1> QED BY <1>3, <1>4, <1>5, <1>6, <1>8, <1>9, <1>10, StepCases

-----------------------------------------------------------------------------

LEMMA StoreInit1 == Init => StoreInv
<1> SUFFICES ASSUME Init PROVE StoreInv
  OBVIOUS
<1> USE DEF Init, StoreInit
<1>1. FilesInv
  <2>1. CASE file = OldFiles
    BY <2>1, FilesAssumption DEF FilesInv, Files
  <2>2. CASE file = [f \in {} |-> EmptyFile]
    BY <2>2, FS_EmptySet DEF FilesInv
  <2> QED BY <2>1, <2>2
<1>2. HolderInv
  BY NamesAssumption DEF HolderInv
<1>3. ListInv
  BY DEF ListInv
<1>4. RequestInv
  BY DEF RequestInv, Request
<1> QED BY <1>1, <1>2, <1>3, <1>4 DEF StoreInv

LEMMA StoreStep ==
    ASSUME StoreInv, [Next]_vars PROVE StoreInv'
BY FilesStep, HolderStep, ListStep, RequestStep DEF StoreInv

LEMMA StoreAlways == Spec => []StoreInv
BY StoreInit1, StoreStep, PTL DEF Spec

\* What a server lists lasts: files only gain blocks, and every later server lists
\* all of them.
LEMMA LastingStep ==
    ASSUME StoreInv, [Next]_vars, NEW L, Lasting(L)
    PROVE  Lasting(L)'
<1>0. Grows(file, file') /\ ListInv'
  BY FilesStep, ListStep
<1>1. ASSUME NEW s \in DOMAIN L
      PROVE  <<s, 0>> \in DOMAIN file' /\ L[s] \subseteq ViewsOf(file', s)
  BY <1>0, ViewsGrow DEF Lasting, Grows
<1>2. CASE UNCHANGED server
  BY <1>1, <1>2 DEF Lasting, server
<1>3. CASE StartServer
  <2>1. /\ DOMAIN chosen' = {f[1] : f \in DOMAIN file} /\ shards' = [s \in {} |-> None]
    BY <1>3 DEF StartServer, chooseShardDatabases
  <2>2. \A s \in DOMAIN L : s \in DOMAIN chosen'
    <3> SUFFICES ASSUME NEW s \in DOMAIN L PROVE s \in DOMAIN chosen'
      OBVIOUS
    <3>1. <<s, 0>> \in DOMAIN file /\ <<s, 0>>[1] = s
      BY DEF Lasting
    <3> QED BY <3>1, <2>1
  <2>3. DOMAIN shards' = {}
    BY <2>1
  <2> QED BY <1>1, <2>2, <2>3 DEF Lasting
<1>4. CASE Kill
  <2>1. DOMAIN shards' = {} /\ phase' = "off"
    BY <1>4 DEF Kill
  <2> QED BY <1>1, <2>1 DEF Lasting
<1>5. CASE Serve
  BY <1>1, <1>5 DEF Lasting, Serve
<1>6. ASSUME NEW s \in Shards, LoadRead(s) PROVE Lasting(L)'
  <2>1. /\ file' = file /\ phase' = phase /\ chosen' = chosen
        /\ \E l : /\ l.Blocks = ViewsOf(file, s)
                  /\ shards' = [t \in DOMAIN shards \cup {s} |-> IF t # s THEN shards[t] ELSE l]
    <3>1. PICK latest \in Latest(ViewsOf(file, s)) :
              shards' = [t \in DOMAIN shards \cup {s} |->
                           IF t # s THEN shards[t]
                           ELSE [Path |-> chosen[s], Blocks |-> ViewsOf(file, s),
                                 LatestHeight |-> latest.Height, LatestHash |-> latest.Hash]]
      BY <1>6 DEF LoadRead, loadShardBlocksFromQuery, ViewsOf, Source, QueryBlocks
    <3> DEFINE l == [Path |-> chosen[s], Blocks |-> ViewsOf(file, s),
                     LatestHeight |-> latest.Height, LatestHash |-> latest.Hash]
    <3>2. l.Blocks = ViewsOf(file, s) /\
          shards' = [t \in DOMAIN shards \cup {s} |-> IF t # s THEN shards[t] ELSE l]
      BY <3>1
    <3> HIDE DEF l
    <3> QED BY <3>2, <1>6 DEF LoadRead
  <2>2. /\ DOMAIN shards' = DOMAIN shards \cup {s}
        /\ \A t \in DOMAIN shards : t # s => shards'[t] = shards[t]
        /\ shards'[s].Blocks = ViewsOf(file, s)
    BY <2>1
  <2>3. ASSUME NEW t \in DOMAIN L \cap DOMAIN shards'
        PROVE  L[t] \subseteq shards'[t].Blocks
    <3>1. CASE t = s
      BY <3>1, <2>2 DEF Lasting
    <3>2. CASE t # s
      BY <3>2, <2>2 DEF Lasting
    <3> QED BY <3>1, <3>2
  <2> QED BY <1>1, <2>1, <2>3 DEF Lasting
<1>7. \/ StartServer \/ Kill \/ Serve \/ UNCHANGED server
      \/ \E s \in Shards : LoadRead(s)
  BY DEF Next, StoreNext, Node, Load, Handle, NodeStart, NodeAdds, NodeDies, NodeStops, LoadOpen,
         Receive, OpenFile, ReadTxs, Refuse, Refresh, FetchStat, FetchBlocks, FetchFails, OpenPage,
         Deliver, showModal, closeModal, vars, storeVars
<1> QED BY <1>2, <1>3, <1>4, <1>5, <1>6, <1>7

\* The listing of a server that is up lasts.
LEMMA QueryLasts ==
    ASSUME StoreInv
    PROVE  Lasting(QueryShards)
BY DEF QueryShards, Lasting, StoreInv, ListInv

LEMMA NothingLasts == Lasting(Nothing)
BY DEF Nothing, Lasting

\* What a step does to the page.
LEMMA PageCases ==
    ASSUME [Next]_vars
    PROVE  \/ FetchStat \/ FetchBlocks \/ FetchFails
           \/ total' = total /\ shown' = shown /\ page' = page
           \/ page = "closed" /\ total' = total /\ shown' = shown /\ page' = "stat"
BY DEF Next, StoreNext, Refresh, OpenPage, Deliver, showModal, closeModal, vars, pageVars

LEMMA PageStep ==
    ASSUME StoreInv, PageInv, [Next]_vars
    PROVE  PageInv'
<1>1. CASE shown' = shown
  <2> PICK L : L = shown.shards
    OBVIOUS
  <2> QED BY <1>1, LastingStep DEF PageInv
<1>2. CASE FetchBlocks \/ FetchFails
  <2>1. PICK L : (L = QueryShards \/ L = Nothing) /\ shown'.shards = L
    BY <1>2 DEF FetchBlocks, FetchFails, Shows
  <2>2. Lasting(L)
    BY <2>1, QueryLasts, NothingLasts
  <2>3. Lasting(L)'
    BY <2>2, LastingStep
  <2> QED BY <2>1, <2>3 DEF PageInv
<1> QED BY <1>1, <1>2, PageCases DEF FetchStat

LEMMA PageInit == Init => PageInv
<1> SUFFICES ASSUME Init PROVE PageInv
  OBVIOUS
<1>1. shown.shards = Nothing
  BY DEF Init, Shows
<1> QED BY <1>1, NothingLasts DEF PageInv

LEMMA PageAlways == Spec => []PageInv
BY StoreAlways, PageInit, PageStep, PTL DEF Spec

\* What the page shows is known to every server that is started later: the files
\* of a node only gain blocks, and a listing is the whole of one.
THEOREM ShownAlwaysListed == Spec => []ShownStaysListed
<1>1. StoreInv /\ PageInv => ShownStaysListed
  BY DEF StoreInv, ListInv, PageInv, Lasting, ShownStaysListed
<1> QED BY <1>1, StoreAlways, PageAlways, PTL

\* A listing is closed under parents, its blocks of one height have one parent and
\* its latest block has no other on top, whenever a node stopped or died.
THEOREM AlwaysChainWithSiblings == Spec => []ChainWithSiblings
<1>1. StoreInv => ChainWithSiblings
  <2> SUFFICES ASSUME StoreInv, NEW s \in DOMAIN shards
      PROVE  /\ \A v \in shards[s].Blocks : v.Height > 0 =>
                     \E u \in shards[s].Blocks : u.Hash = v.ParentHash /\ u.Height + 1 = v.Height
             /\ \A u, v \in shards[s].Blocks :
                     u.Height = v.Height => u.ParentHash = v.ParentHash
             /\ shards[s].Blocks # {} =>
                     /\ \E v \in shards[s].Blocks :
                            v.Hash = shards[s].LatestHash /\ v.Height = shards[s].LatestHeight
                     /\ \A v \in shards[s].Blocks :
                            v.Height > 0 => v.ParentHash # shards[s].LatestHash
    BY DEF ChainWithSiblings
  <2> DEFINE B == shards[s].Blocks
  <2>1. Closed(B) /\ LatestOK(shards[s])
    BY DEF StoreInv, ListInv
  <2>2. ASSUME NEW v \in B, v.Height > 0, v.ParentHash = shards[s].LatestHash PROVE FALSE
    <3>1. PICK u \in B : u.Hash = v.ParentHash /\ u.Height + 1 = v.Height
      BY <2>1, <2>2 DEF Closed
    <3>2. PICK w \in B : w.Hash = shards[s].LatestHash /\ w.Height = shards[s].LatestHeight
      BY <2>1, <2>2 DEF LatestOK
    <3>3. u = w /\ v.Height <= w.Height
      BY <2>1, <2>2, <3>1, <3>2 DEF Closed, LatestOK
    <3>4. u.Height \in Nat /\ v.Height \in Nat
      BY <2>1 DEF Closed
    <3> QED BY <3>1, <3>3, <3>4
  <2> QED BY <2>1, <2>2 DEF Closed, LatestOK
<1> QED BY <1>1, StoreAlways, PTL

-----------------------------------------------------------------------------
(* The counts at the head of the page. *)

\* The counts of views, and what TotalTransactions adds up of them.
Counts(V) == [v \in V |-> v.TxCount]

ShardCount(V) == SumFunctionOnSet(Counts(V), V)

Countable(V) == IsFiniteSet(V) /\ \A v \in V : v.TxCount \in Nat

\* The sum over the views of a shard is a sum of the library.
LEMMA ShardTotal ==
    ASSUME NEW V, Countable(V)
    PROVE  MapThenSumSet(LAMBDA v : v.TxCount, V) = ShardCount(V)
<1> DEFINE Def(h) == h = [X \in SUBSET V |->
                            IF X = {} THEN 0
                            ELSE (CHOOSE x \in X : TRUE).TxCount + h[X \ {CHOOSE x \in X : TRUE}]]
<1>1. MapThenSumSet(LAMBDA v : v.TxCount, V) = (CHOOSE h : Def(h))[V]
  BY DEF MapThenSumSet, MapThenFoldSet
<1>2. \A h : Def(h) <=> SumDef(Counts(V), V, h)
  <2>1. \A X \in SUBSET V : X # {} => /\ (CHOOSE x \in X : TRUE) \in V
                                      /\ Counts(V)[CHOOSE x \in X : TRUE]
                                           = (CHOOSE x \in X : TRUE).TxCount
    BY DEF Counts
  <2> QED BY <2>1 DEF SumDef
<1>3. \A x \in V : Counts(V)[x] \in Int
  BY DEF Countable, Counts
<1>4. PICK g : IsSum(Counts(V), V, g)
  BY <1>3, SumExists DEF Countable
<1> HIDE DEF Def
<1>5. (CHOOSE h : Def(h))[V] = (CHOOSE h : SumDef(Counts(V), V, h))[V]
  BY <1>2
<1> QED BY <1>1, <1>5, SumExpanded DEF ShardCount

\* What is counted of a listing, shard by shard.
LEMMA TotalIs ==
    ASSUME NEW L, IsFiniteSet(DOMAIN L), \A s \in DOMAIN L : Countable(L[s])
    PROVE  TotalTransactions(L)
             = SumFunctionOnSet([s \in DOMAIN L |-> ShardCount(L[s])], DOMAIN L)
<1> DEFINE S == DOMAIN L
           f == [s \in S |-> ShardCount(L[s])]
           Def(h) == h = [X \in SUBSET S |->
                            IF X = {} THEN 0
                            ELSE MapThenSumSet(LAMBDA v : v.TxCount, L[CHOOSE s \in X : TRUE])
                                   + h[X \ {CHOOSE s \in X : TRUE}]]
<1>1. TotalTransactions(L) = (CHOOSE h : Def(h))[S]
  BY DEF TotalTransactions, MapThenSumSet, MapThenFoldSet
<1>2. \A h : Def(h) <=> SumDef(f, S, h)
  <2>1. \A X \in SUBSET S : X # {} =>
            MapThenSumSet(LAMBDA v : v.TxCount, L[CHOOSE s \in X : TRUE])
              = f[CHOOSE s \in X : TRUE]
    BY ShardTotal
  <2> QED BY <2>1 DEF SumDef
<1> HIDE DEF Def
<1>3. (CHOOSE h : Def(h))[S] = (CHOOSE h : SumDef(f, S, h))[S]
  BY <1>2
<1> QED BY <1>1, <1>3, SumExpanded

\* More shards with more blocks have no fewer transactions.
LEMMA TotalGrows ==
    ASSUME NEW L, NEW M, IsFiniteSet(DOMAIN M), \A s \in DOMAIN M : Countable(M[s]),
           \A s \in DOMAIN L : s \in DOMAIN M /\ L[s] \subseteq M[s]
    PROVE  /\ TotalTransactions(L) \in Nat /\ TotalTransactions(M) \in Nat
           /\ TotalTransactions(L) <= TotalTransactions(M)
<1> DEFINE l == [s \in DOMAIN L |-> ShardCount(L[s])]
           m == [s \in DOMAIN M |-> ShardCount(M[s])]
<1>1. /\ IsFiniteSet(DOMAIN L) /\ DOMAIN L \in SUBSET DOMAIN M
      /\ \A s \in DOMAIN L : Countable(L[s])
  BY FS_Subset DEF Countable
<1>2. ASSUME NEW V, NEW W, Countable(W), V \subseteq W
      PROVE  ShardCount(V) \in Nat /\ ShardCount(W) \in Nat /\ ShardCount(V) <= ShardCount(W)
  <2>1. /\ \A x \in W : Counts(W)[x] \in Nat
        /\ \A x \in V : Counts(V)[x] \in Nat /\ Counts(V)[x] <= Counts(W)[x]
    BY <1>2 DEF Countable, Counts
  <2> QED BY <1>2, <2>1, SumGrows DEF Countable, ShardCount
<1>3. /\ \A s \in DOMAIN M : m[s] \in Nat
      /\ \A s \in DOMAIN L : l[s] \in Nat /\ l[s] <= m[s]
  BY <1>2
<1>4. /\ SumFunctionOnSet(l, DOMAIN L) \in Nat /\ SumFunctionOnSet(m, DOMAIN M) \in Nat
      /\ SumFunctionOnSet(l, DOMAIN L) <= SumFunctionOnSet(m, DOMAIN M)
  <2> HIDE DEF l, m
  <2> QED BY <1>1, <1>3, SumGrows
<1> QED BY <1>1, <1>4, TotalIs

\* The listing of a server can be counted.
LEMMA ListingCounts ==
    ASSUME StoreInv
    PROVE  /\ IsFiniteSet(DOMAIN QueryShards)
           /\ \A s \in DOMAIN QueryShards : Countable(QueryShards[s])
<1>1. DOMAIN QueryShards = DOMAIN shards /\ \A s \in DOMAIN shards : QueryShards[s] = shards[s].Blocks
  BY DEF QueryShards
<1>2. IsFiniteSet(DOMAIN shards)
  <2> DEFINE g == [f \in DOMAIN file |-> f[1]]
  <2>1. IsFiniteSet({f[1] : f \in DOMAIN file})
    <3>1. {f[1] : f \in DOMAIN file} = {g[f] : f \in DOMAIN file}
      OBVIOUS
    <3>2. IsFiniteSet(DOMAIN file)
      BY DEF StoreInv, FilesInv
    <3> HIDE DEF g
    <3>3. IsFiniteSet({g[f] : f \in DOMAIN file})
      BY <3>2, ValuesFinite
    <3> QED BY <3>1, <3>3
  <2>2. DOMAIN shards \subseteq {f[1] : f \in DOMAIN file}
    BY DEF StoreInv, ListInv
  <2> QED BY <2>1, <2>2, FS_Subset
<1>3. ASSUME NEW s, <<s, 0>> \in DOMAIN file
      PROVE  Countable(ViewsOf(file, s))
  <2> DEFINE B == file[<<s, 0>>].block
  <2>1. IsFiniteSet(DOMAIN B) /\ \A h \in DOMAIN B : B[h].Body \in Seq(Range(B[h].Body))
    BY <1>3 DEF StoreInv, FilesInv, IsFile
  <2>2. ViewsOf(file, s) = {View(B[h]) : h \in DOMAIN B}
    BY DEF ViewsOf, Range
  <2> HIDE DEF B
  <2> DEFINE g == [h \in DOMAIN B |-> View(B[h])]
  <2>3. IsFiniteSet({View(B[h]) : h \in DOMAIN B})
    <3>1. {View(B[h]) : h \in DOMAIN B} = {g[h] : h \in DOMAIN B}
      OBVIOUS
    <3> HIDE DEF g
    <3> QED BY <2>1, <3>1, ValuesFinite
  <2>4. \A h \in DOMAIN B : View(B[h]).TxCount \in Nat
    <3> SUFFICES ASSUME NEW h \in DOMAIN B PROVE View(B[h]).TxCount \in Nat
      OBVIOUS
    <3>1. Len(B[h].Body) \in Nat
      BY <2>1
    <3> QED BY <3>1 DEF View
  <2> QED BY <2>2, <2>3, <2>4 DEF Countable
<1>4. \A s \in DOMAIN shards : Countable(shards[s].Blocks)
  <2> SUFFICES ASSUME NEW s \in DOMAIN shards PROVE Countable(shards[s].Blocks)
    OBVIOUS
  <2>1. <<s, 0>> \in DOMAIN file /\ shards[s].Blocks \subseteq ViewsOf(file, s)
    BY DEF StoreInv, ListInv
  <2> QED BY <1>3, <2>1, FS_Subset DEF Countable
<1> QED BY <1>1, <1>2, <1>4

\* What a server lists has no fewer transactions than what was listed before.
LEMMA LastingCounted ==
    ASSUME StoreInv, phase = "up", NEW L, Lasting(L)
    PROVE  /\ TotalTransactions(L) \in Nat /\ TotalTransactions(QueryShards) \in Nat
           /\ TotalTransactions(L) <= TotalTransactions(QueryShards)
<1>1. \A s \in DOMAIN L : s \in DOMAIN QueryShards /\ L[s] \subseteq QueryShards[s]
  BY DEF StoreInv, ListInv, Lasting, QueryShards
<1> QED BY <1>1, ListingCounts, TotalGrows

LEMMA StatStep ==
    ASSUME StoreInv, StatInv, [Next]_vars
    PROVE  StatInv'
<1>1. CASE total' = total /\ shown' = shown /\ page' = page
  <2>1. page = "blocks" => \E L : Lasting(L)' /\ total <= TotalTransactions(L)
    <3> SUFFICES ASSUME page = "blocks"
                 PROVE  \E L : Lasting(L)' /\ total <= TotalTransactions(L)
      OBVIOUS
    <3>1. PICK L : Lasting(L) /\ total <= TotalTransactions(L)
      BY DEF StatInv
    <3> QED BY <3>1, LastingStep
  <2> QED BY <1>1, <2>1 DEF StatInv, StatNeverAhead
<1>2. CASE page = "closed" /\ total' = total /\ shown' = shown /\ page' = "stat"
  BY <1>2 DEF StatInv, StatNeverAhead
<1>3. CASE FetchStat
  <2>1. /\ phase = "up" /\ page' = "blocks" /\ shown' = shown /\ page # "done"
        /\ total' = TotalTransactions(QueryShards)
    BY <1>3 DEF FetchStat
  <2> PICK L : L = QueryShards
    OBVIOUS
  <2>2. Lasting(L)' /\ TotalTransactions(L) \in Nat
    BY <2>1, QueryLasts, LastingStep, LastingCounted
  <2>3. total' <= TotalTransactions(L)
    BY <2>1, <2>2
  <2> QED BY <2>1, <2>2, <2>3 DEF StatInv, StatNeverAhead
<1>4. CASE FetchBlocks
  <2>1. /\ phase = "up" /\ page = "blocks" /\ page' = "done" /\ total' = total
        /\ \/ shown' = Shows("chain", QueryShards)
           \/ shown' = Shows("threw", Nothing)
    BY <1>4 DEF FetchBlocks
  <2>2. PICK L : Lasting(L) /\ total <= TotalTransactions(L)
    BY <2>1 DEF StatInv
  <2> PICK Q : Q = QueryShards
    OBVIOUS
  <2>3. /\ TotalTransactions(L) \in Nat /\ TotalTransactions(Q) \in Nat
        /\ TotalTransactions(L) <= TotalTransactions(Q)
    BY <2>1, <2>2, LastingCounted
  <2>4. total \in Int
    BY DEF StatInv
  <2>5. total <= TotalTransactions(Q)
    BY <2>2, <2>3, <2>4
  <2>6. shown'.kind = "chain" => shown'.shards = Q
    BY <2>1 DEF Shows
  <2> QED BY <2>1, <2>5, <2>6 DEF StatInv, StatNeverAhead
<1>5. CASE FetchFails
  BY <1>5 DEF FetchFails, Shows, StatInv, StatNeverAhead
<1> QED BY <1>1, <1>2, <1>3, <1>4, <1>5, PageCases

\* The counts never run ahead of the blocks, across restarts between the fetches.
THEOREM StatAlwaysBehind == Spec => []StatNeverAhead
<1>1. Init => StatInv
  BY DEF Init, Shows, StatInv, StatNeverAhead
<1>2. StatInv => StatNeverAhead
  BY DEF StatInv
<1> QED BY <1>1, <1>2, StoreAlways, StatStep, PTL DEF Spec

-----------------------------------------------------------------------------

\* The first transactions of a block are what an answer has.
LEMMA ViewsBegin ==
    ASSUME NEW S, NEW body \in Seq(S)
    PROVE  IsBeginning(Views(body), body)
<1>1. Limit \in Nat /\ Len(body) \in Nat
  BY LimitAssumption
<1>2. Min({Limit, Len(body)}) = IF Len(body) < Limit THEN Len(body) ELSE Limit
  <2>1. \A m \in {Limit, Len(body)} : m \in Nat
    BY <1>1
  <2>2. PICK m \in {Limit, Len(body)} : \A n \in {Limit, Len(body)} : m <= n
    BY <1>1
  <2>3. /\ Min({Limit, Len(body)}) \in {Limit, Len(body)}
        /\ \A n \in {Limit, Len(body)} : Min({Limit, Len(body)}) <= n
    BY <2>2 DEF Min
  <2> QED BY <1>1, <2>3
<1> DEFINE k == IF Len(body) < Limit THEN Len(body) ELSE Limit
<1>3. k \in Nat /\ k <= Len(body) /\ Views(body) = SubSeq(body, 1, k)
  BY <1>1 DEF Views
<1> HIDE DEF k
<1>4. Len(SubSeq(body, 1, k)) = k /\ \A i \in 1 .. k : SubSeq(body, 1, k)[i] = body[i]
  BY <1>1, <1>3
<1>5. DOMAIN SubSeq(body, 1, k) = 1 .. k
  BY <1>1, <1>3
<1> QED BY <1>2, <1>3, <1>4, <1>5 DEF IsBeginning, k

LEMMA BeginsGrow ==
    ASSUME NEW F, NEW G, Grows(F, G), NEW d, <<d.shard, 0>> \in DOMAIN F,
           NEW rows, Begins(F, d, rows)
    PROVE  Begins(G, d, rows)
BY DEF Grows, Begins, QueryBlockTxs, QueryBlock, QueryBlocks, Range

\* The dialog that was opened alone keeps its request and its answer.
LEMMA DialogKept ==
    ASSUME StoreInv, PageInv, DialogInv, [Next]_vars, shown' = shown, page' = page,
           dialog' = dialog,
           ASSUME NEW r \in Requests, dialog.alone, dialog.hash # None
           PROVE  SentBy(file', dialog, req'[r])
    PROVE  DialogInv'
<1>1. CASE dialog.alone /\ dialog.hash # None
  <2>1. /\ dialog.shard \in DOMAIN shown.shards
        /\ \E v \in shown.shards[dialog.shard] : v.Hash = dialog.hash /\ v.Height = dialog.height
        /\ dialog.area = "answered" => Begins(file, dialog, dialog.rows)
    BY <1>1 DEF DialogInv
  <2>2. Grows(file, file') /\ <<dialog.shard, 0>> \in DOMAIN file
    BY <2>1, FilesStep DEF PageInv, Lasting
  <2>3. dialog.area = "answered" => Begins(file', dialog, dialog.rows)
    BY <2>1, <2>2, BeginsGrow
  <2> QED BY <1>1, <2>1, <2>3 DEF DialogInv
<1>2. CASE ~(dialog.alone /\ dialog.hash # None)
  BY <1>2 DEF DialogInv
<1> QED BY <1>1, <1>2

\* A request that is only moved on, or not at all.
LEMMA SentKept ==
    ASSUME StoreInv, PageInv, DialogInv, [Next]_vars, dialog.alone, dialog.hash # None,
           NEW r \in Requests, NEW q, q.at = req[r].at \/ q.at \in {"read", "failed"},
           q.at = "read" => req[r].at \in {"open", "read"}, q.at = "failed" => req[r].at # "free",
           q.shard = req[r].shard, q.hash = req[r].hash, q.height = req[r].height,
           q.body = req[r].body
    PROVE  SentBy(file', dialog, q)
<1>1. SentBy(file, dialog, req[r]) /\ dialog.shard \in DOMAIN shown.shards
  BY DEF DialogInv
<1>2. Grows(file, file') /\ <<dialog.shard, 0>> \in DOMAIN file
  BY <1>1, FilesStep DEF PageInv, Lasting
<1>3. \A rows : Begins(file, dialog, rows) => Begins(file', dialog, rows)
  BY <1>2, BeginsGrow
<1> QED BY <1>1, <1>3 DEF SentBy

LEMMA DialogStep ==
    ASSUME StoreInv, PageInv, DialogInv, [Next]_vars
    PROVE  DialogInv'
<1>0. /\ FilesInv /\ ListInv /\ Grows(file, file')
      /\ req = [r \in Requests |-> req[r]]
      /\ \A r \in Requests :
             req[r] = [at |-> req[r].at, shard |-> req[r].shard, hash |-> req[r].hash,
                       height |-> req[r].height, body |-> req[r].body]
  BY FilesStep DEF StoreInv, RequestInv
<1>1. CASE req' = req /\ UNCHANGED pageVars
  <2>1. ASSUME NEW r \in Requests, dialog.alone, dialog.hash # None
        PROVE  SentBy(file', dialog, req'[r])
    BY <1>1, <2>1, SentKept
  <2> QED BY <1>1, <2>1, DialogKept DEF pageVars
<1>2. ASSUME NEW r \in Requests, NEW q, req' = [req EXCEPT ![r] = q], UNCHANGED pageVars,
             dialog.alone /\ dialog.hash # None => SentBy(file', dialog, q)
      PROVE  DialogInv'
  <2>1. ASSUME NEW p \in Requests, dialog.alone, dialog.hash # None
        PROVE  SentBy(file', dialog, req'[p])
    <3>1. CASE p = r
      BY <1>0, <1>2, <2>1, <3>1
    <3>2. CASE p # r
      BY <1>0, <1>2, <2>1, <3>2, SentKept
    <3> QED BY <3>1, <3>2
  <2> QED BY <1>2, <2>1, DialogKept DEF pageVars
<1>3. ASSUME NEW r \in Requests, Receive(r), UNCHANGED pageVars PROVE DialogInv'
  <2>1. PICK at, height :
            /\ req' = [req EXCEPT ![r] = Request(at, req[r].shard, req[r].hash, height, << >>)]
            /\ \/ /\ Listed(req[r].shard, req[r].hash) /\ at = "open"
                  /\ \E v \in shards[req[r].shard].Blocks : v.Hash = req[r].hash /\ v.Height = height
               \/ ~Listed(req[r].shard, req[r].hash) /\ at = "answer"
    BY <1>3 DEF Receive
  <2> DEFINE q == Request(at, req[r].shard, req[r].hash, height, << >>)
  <2>2. q.at = at /\ q.shard = req[r].shard /\ q.hash = req[r].hash /\ q.height = height
    BY DEF Request
  <2> HIDE DEF q
  <2>3. ASSUME dialog.alone, dialog.hash # None PROVE SentBy(file', dialog, q)
    <3>1. /\ SentBy(file, dialog, req[r]) /\ dialog.shard \in DOMAIN shown.shards
          /\ \E v \in shown.shards[dialog.shard] : v.Hash = dialog.hash /\ v.Height = dialog.height
      BY <2>3 DEF DialogInv
    <3>2. req[r].shard = dialog.shard /\ req[r].hash = dialog.hash /\ phase = "up"
      BY <1>3, <3>1 DEF SentBy, Receive
    <3>3. dialog.shard \in DOMAIN shards /\ shown.shards[dialog.shard] \subseteq shards[dialog.shard].Blocks
      BY <1>0, <3>1, <3>2 DEF PageInv, Lasting, ListInv
    <3>4. PICK v \in shards[dialog.shard].Blocks : v.Hash = dialog.hash /\ v.Height = dialog.height
      BY <3>1, <3>3
    <3>5. Listed(req[r].shard, req[r].hash)
      BY <3>2, <3>3, <3>4 DEF Listed
    <3>6. PICK w \in shards[dialog.shard].Blocks : w.Hash = dialog.hash /\ w.Height = height
      BY <2>1, <3>2, <3>5
    <3>7. height = dialog.height
      <4>1. Closed(shards[dialog.shard].Blocks)
        BY <1>0, <3>3 DEF ListInv
      <4>2. v = w
        BY <3>4, <3>6, <4>1 DEF Closed
      <4> QED BY <3>4, <3>6, <4>2
    <3> QED BY <2>1, <2>2, <3>2, <3>5, <3>7 DEF SentBy
  <2> QED BY <1>2, <1>3, <2>1, <2>3 DEF q
<1>4. ASSUME NEW r \in Requests, UNCHANGED pageVars,
             \/ OpenFile(r)
             \/ Refuse(r)
      PROVE  DialogInv'
  <2>1. PICK at : /\ req' = [req EXCEPT ![r] = [req[r] EXCEPT !.at = at]]
                  /\ \/ at = "read" /\ req[r].at = "open"
                     \/ at = "failed" /\ req[r].at = "sent"
    BY <1>4 DEF OpenFile, Refuse
  <2> DEFINE q == [req[r] EXCEPT !.at = at]
  <2>2. /\ q.at = at /\ q.shard = req[r].shard /\ q.hash = req[r].hash
        /\ q.height = req[r].height /\ q.body = req[r].body
    BY <1>0
  <2> HIDE DEF q
  <2>3. dialog.alone /\ dialog.hash # None => SentBy(file', dialog, q)
    BY <2>1, <2>2, SentKept
  <2> QED BY <1>2, <1>4, <2>1, <2>3 DEF q
<1>5. ASSUME NEW r \in Requests, ReadTxs(r), UNCHANGED pageVars PROVE DialogInv'
  <2>1. PICK body \in QueryBlockTxs(file[<<req[r].shard, 0>>].block, req[r].height) :
            req' = [req EXCEPT ![r] = Request("answer", req[r].shard, req[r].hash,
                                              req[r].height, Views(body))]
    BY <1>5 DEF ReadTxs
  <2>2. req[r].at = "read" /\ file' = file /\ <<req[r].shard, 0>> \in DOMAIN file
    BY <1>5 DEF ReadTxs, StoreInv, RequestInv
  <2>3. body \in Seq(Range(body))
    <3>1. \A h \in DOMAIN file[<<req[r].shard, 0>>].block :
              LET b == file[<<req[r].shard, 0>>].block[h] IN b.Body \in Seq(Range(b.Body))
      BY <1>0, <2>2 DEF FilesInv, IsFile
    <3>2. \E h \in DOMAIN file[<<req[r].shard, 0>>].block :
              body = file[<<req[r].shard, 0>>].block[h].Body
      BY <2>1 DEF QueryBlockTxs, QueryBlock, QueryBlocks, Range
    <3> QED BY <3>1, <3>2
  <2>4. IsBeginning(Views(body), body)
    BY <2>3, ViewsBegin
  <2> DEFINE q == Request("answer", req[r].shard, req[r].hash, req[r].height, Views(body))
  <2>5. q.at = "answer" /\ q.shard = req[r].shard /\ q.hash = req[r].hash /\ q.body = Views(body)
    BY DEF Request
  <2> HIDE DEF q
  <2>6. ASSUME dialog.alone, dialog.hash # None PROVE SentBy(file', dialog, q)
    <3>1. SentBy(file, dialog, req[r])
      BY <2>6 DEF DialogInv
    <3>2. req[r].shard = dialog.shard /\ req[r].hash = dialog.hash /\ req[r].height = dialog.height
      BY <2>2, <3>1 DEF SentBy
    <3> QED BY <2>1, <2>2, <2>4, <2>5, <3>2 DEF SentBy, Begins
  <2> QED BY <1>2, <1>5, <2>1, <2>6 DEF q
<1>6. CASE Kill /\ UNCHANGED pageVars
  <2>1. req' = [r \in Requests |-> IF req[r].at \in {"open", "read", "answer"}
                                  THEN [req[r] EXCEPT !.at = "failed"] ELSE req[r]]
    BY <1>6 DEF Kill
  <2>2. ASSUME NEW r \in Requests, dialog.alone, dialog.hash # None
        PROVE  SentBy(file', dialog, req'[r])
    <3> DEFINE q == [req[r] EXCEPT !.at = "failed"]
    <3>1. /\ q.at = "failed" /\ q.shard = req[r].shard /\ q.hash = req[r].hash
          /\ q.height = req[r].height /\ q.body = req[r].body
      BY <1>0
    <3>2. req'[r] = IF req[r].at \in {"open", "read", "answer"} THEN q ELSE req[r]
      BY <2>1
    <3> HIDE DEF q
    <3>3. CASE req[r].at \in {"open", "read", "answer"}
      <4>1. req'[r] = q /\ req[r].at # "free"
        BY <3>2, <3>3
      <4>2. SentBy(file', dialog, q)
        BY <2>2, <3>1, <4>1, SentKept
      <4> QED BY <4>1, <4>2
    <3>4. CASE req[r].at \notin {"open", "read", "answer"}
      <4>1. req'[r] = req[r]
        BY <3>2, <3>4
      <4> QED BY <2>2, <4>1, SentKept
    <3> QED BY <3>3, <3>4
  <2> QED BY <1>6, <2>2, DialogKept DEF pageVars
<1>7. ASSUME NEW r \in Requests, Deliver(r) PROVE DialogInv'
  <2>1. PICK area, rows :
            /\ dialog' = Dialog(dialog.open, dialog.shard, dialog.hash, dialog.height,
                                dialog.alone, area, rows)
            /\ area = "answered" => req[r].at = "answer" /\ rows = req[r].body
            /\ req' = [req EXCEPT ![r] = Request("free", None, None, 0, << >>)]
            /\ file' = file /\ page' = page /\ shown' = shown
    BY <1>7 DEF Deliver, Rendered, files
  <2>2. /\ dialog'.open = dialog.open /\ dialog'.shard = dialog.shard
        /\ dialog'.hash = dialog.hash /\ dialog'.height = dialog.height
        /\ dialog'.alone = dialog.alone /\ dialog'.area = area /\ dialog'.rows = rows
    BY <2>1 DEF Dialog
  <2>3. dialog' = Dialog(dialog'.open, dialog'.shard, dialog'.hash, dialog'.height, dialog'.alone,
                         dialog'.area, dialog'.rows)
    BY <2>1, <2>2
  <2>4. \A p \in Requests : req'[p] = IF p = r THEN Request("free", None, None, 0, << >>) ELSE req[p]
    BY <1>0, <2>1
  <2>5. Request("free", None, None, 0, << >>).at = "free"
    BY DEF Request
  <2>6. ASSUME dialog.alone, dialog.hash # None
        PROVE  /\ \A p \in Requests : SentBy(file', dialog', req'[p])
               /\ area = "answered" => Begins(file', dialog', rows)
    <3>1. \A p \in Requests : SentBy(file, dialog, req[p])
      BY <2>6 DEF DialogInv
    <3> QED BY <2>1, <2>2, <2>4, <2>5, <3>1 DEF SentBy, Begins
  <2>7. /\ page # "done" => dialog.hash = None
        /\ dialog.alone /\ dialog.hash # None =>
               /\ dialog.shard \in DOMAIN shown.shards
               /\ \E v \in shown.shards[dialog.shard] : v.Hash = dialog.hash /\ v.Height = dialog.height
    BY DEF DialogInv
  <2> QED BY <2>1, <2>2, <2>3, <2>6, <2>7 DEF DialogInv
<1>8. ASSUME NEW r \in Requests, NEW c \in Clickable, showModal(r, c[1], c[2], c[3])
      PROVE  DialogInv'
  <2>1. /\ dialog' = Dialog(TRUE, c[1], c[2], c[3], Free = Requests, "loading", << >>)
        /\ req' = [req EXCEPT ![r] = Request("sent", c[1], c[2], 0, << >>)]
        /\ page = "done" /\ page' = page /\ shown' = shown
    BY <1>8 DEF showModal
  <2>2. /\ dialog'.open = TRUE /\ dialog'.shard = c[1] /\ dialog'.hash = c[2]
        /\ dialog'.height = c[3] /\ dialog'.alone = (Free = Requests)
        /\ dialog'.area = "loading" /\ dialog'.rows = << >>
    BY <2>1 DEF Dialog
  <2>3. dialog' = Dialog(dialog'.open, dialog'.shard, dialog'.hash, dialog'.height, dialog'.alone,
                         dialog'.area, dialog'.rows)
    BY <2>1, <2>2
  <2>4. \A p \in Requests : req'[p] = IF p = r THEN Request("sent", c[1], c[2], 0, << >>) ELSE req[p]
    BY <1>0, <2>1
  <2>5. LET q == Request("sent", c[1], c[2], 0, << >>)
        IN  q.at = "sent" /\ q.shard = c[1] /\ q.hash = c[2]
    BY DEF Request
  <2>6. ASSUME Free = Requests, NEW p \in Requests PROVE SentBy(file', dialog', req'[p])
    <3>1. req[p].at = "free"
      BY <2>6 DEF Free
    <3> QED BY <2>2, <2>4, <2>5, <3>1 DEF SentBy
  <2>7. ASSUME c[2] # None
        PROVE  /\ c[1] \in DOMAIN shown.shards
               /\ \E v \in shown.shards[c[1]] : v.Hash = c[2] /\ v.Height = c[3]
    BY <2>7 DEF Clickable
  <2>8. page' # "done" => dialog'.hash = None
    BY <2>1
  <2>9. ASSUME dialog'.alone, dialog'.hash # None
        PROVE  /\ dialog'.shard \in DOMAIN shown'.shards
               /\ \E v \in shown'.shards[dialog'.shard] :
                      v.Hash = dialog'.hash /\ v.Height = dialog'.height
               /\ \A p \in Requests : SentBy(file', dialog', req'[p])
               /\ dialog'.area # "answered"
    <3>1. Free = Requests /\ c[2] # None
      BY <2>2, <2>9
    <3>2. \A p \in Requests : SentBy(file', dialog', req'[p])
      BY <2>6, <3>1
    <3> QED BY <2>1, <2>2, <2>7, <3>1, <3>2
  <2> QED BY <2>3, <2>8, <2>9 DEF DialogInv
<1>9. CASE closeModal
  <2>1. /\ dialog' = [dialog EXCEPT !.open = FALSE]
        /\ file' = file /\ req' = req /\ page' = page /\ shown' = shown
    BY <1>9 DEF closeModal, storeVars, files
  <2>2. dialog = Dialog(dialog.open, dialog.shard, dialog.hash, dialog.height, dialog.alone,
                        dialog.area, dialog.rows)
    BY DEF DialogInv
  <2>3. /\ dialog'.open = FALSE /\ dialog'.shard = dialog.shard
        /\ dialog'.hash = dialog.hash /\ dialog'.height = dialog.height
        /\ dialog'.alone = dialog.alone /\ dialog'.area = dialog.area /\ dialog'.rows = dialog.rows
        /\ dialog' = Dialog(FALSE, dialog.shard, dialog.hash, dialog.height, dialog.alone,
                            dialog.area, dialog.rows)
    BY <2>1, <2>2 DEF Dialog
  <2>4. \A rows : Begins(file, dialog, rows) <=> Begins(file', dialog', rows)
    BY <2>1, <2>3 DEF Begins
  <2>5. \A r \in Requests : SentBy(file, dialog, req[r]) => SentBy(file', dialog', req'[r])
    BY <2>1, <2>3, <2>4 DEF SentBy
  <2> QED BY <2>1, <2>3, <2>4, <2>5 DEF DialogInv
<1>10. CASE OpenPage \/ Refresh
  <2>1. page # "done" /\ dialog' = dialog
    BY <1>10 DEF OpenPage, Refresh, FetchStat, FetchBlocks, FetchFails
  <2> QED BY <2>1 DEF DialogInv
<1>11. ASSUME \/ StoreNext /\ UNCHANGED pageVars
              \/ UNCHANGED vars
       PROVE  \/ req' = req /\ UNCHANGED pageVars
              \/ Kill /\ UNCHANGED pageVars
              \/ \E r \in Requests :
                     /\ Receive(r) \/ OpenFile(r) \/ Refuse(r) \/ ReadTxs(r)
                     /\ UNCHANGED pageVars
  BY <1>11 DEF StoreNext, Node, NodeStart, NodeAdds, NodeDies, NodeStops, StartServer, Load,
               LoadOpen, LoadRead, Serve, Handle, vars, storeVars
<1> QED BY <1>1, <1>3, <1>4, <1>5, <1>6, <1>7, <1>8, <1>9, <1>10, <1>11 DEF Next

LEMMA DialogInit == Init => DialogInv
<1> SUFFICES ASSUME Init PROVE DialogInv
  OBVIOUS
<1>1. dialog = Dialog(FALSE, None, None, 0, TRUE, "hidden", << >>)
  BY DEF Init
<1>2. /\ dialog.open = FALSE /\ dialog.shard = None /\ dialog.hash = None /\ dialog.height = 0
      /\ dialog.alone = TRUE /\ dialog.area = "hidden" /\ dialog.rows = << >>
  BY <1>1 DEF Dialog
<1> QED BY <1>1, <1>2 DEF DialogInv

LEMMA DialogAlways == Spec => []DialogInv
BY StoreAlways, PageAlways, DialogInit, DialogStep, PTL DEF Spec

\* An answer that is shown to a dialog opened alone is the beginning of its block,
\* or of a sibling that a crash left, whatever the nodes, the server and earlier
\* dialogs did.
THEOREM SoleAnswerAlwaysShown == Spec => []SoleAnswerShown
<1>1. ASSUME StoreInv, PageInv, DialogInv PROVE SoleAnswerShown
  <2> SUFFICES ASSUME dialog.alone, dialog.area = "answered", dialog.hash # None
               PROVE  \E own, b \in QueryBlock(file[<<dialog.shard, 0>>].block, dialog.height) :
                          own.Hash = dialog.hash /\ Siblings(own, b)
                              /\ IsBeginning(dialog.rows, b.Body)
    BY DEF SoleAnswerShown
  <2> DEFINE blocks == QueryBlock(file[<<dialog.shard, 0>>].block, dialog.height)
  <2>1. PICK b \in blocks : IsBeginning(dialog.rows, b.Body)
    BY <1>1 DEF DialogInv, Begins, QueryBlockTxs
  <2>2. PICK v \in ViewsOf(file, dialog.shard) :
            v.Hash = dialog.hash /\ v.Height = dialog.height
    BY <1>1 DEF DialogInv, PageInv, Lasting
  <2>3. PICK own \in Range(file[<<dialog.shard, 0>>].block) : v = View(own)
    BY DEF ViewsOf
  <2>4. own.Hash = dialog.hash /\ own.Header.Number = dialog.height
    BY <2>2, <2>3 DEF View
  <2>5. own \in blocks
    BY <2>3, <2>4 DEF QueryBlock, QueryBlocks
  <2>6. Siblings(own, b)
    <3>1. <<dialog.shard, 0>> \in DOMAIN file
      BY <1>1 DEF DialogInv, PageInv, Lasting
    <3>2. PICK g, h \in DOMAIN file[<<dialog.shard, 0>>].block :
              /\ own = file[<<dialog.shard, 0>>].block[g]
              /\ b = file[<<dialog.shard, 0>>].block[h]
      BY <2>1, <2>3 DEF QueryBlock, QueryBlocks, Range
    <3> QED BY <1>1, <3>1, <3>2 DEF StoreInv, FilesInv, IsFile
  <2> QED BY <2>1, <2>4, <2>5, <2>6
<1> QED BY <1>1, StoreAlways, PageAlways, DialogAlways, PTL

-----------------------------------------------------------------------------
(* Types. *)

TypeInv ==
    /\ holder \in [Files -> {None, "node", "start"} \cup Requests]
    /\ phase \in {"off", "load", "up"} /\ starts \in 0 .. MaxStarts
    /\ \A r \in Requests : req[r].at \in {"free", "sent", "open", "read", "answer", "failed"}
    /\ page \in {"closed", "stat", "blocks", "done"}
    /\ shown.kind \in {"nothing", "chain", "offline", "threw"}
    /\ dialog.area \in {"hidden", "loading", "answered", "failed"}

LEMMA HolderType ==
    ASSUME TypeInv, [Next]_vars
    PROVE  holder' \in [Files -> {None, "node", "start"} \cup Requests]
<1> DEFINE Holders == {None, "node", "start"} \cup Requests
<1>1. ASSUME NEW f, NEW who \in Holders, Held(f, who) PROVE holder' \in [Files -> Holders]
  BY <1>1 DEF Held, TypeInv
<1>2. ASSUME NEW f \in NodeFiles,
             \/ NodeStart(f) \/ NodeStops(f)
             \/ \E body \in Bodies : f \in DOMAIN file /\
                   (NodeAdds(f, NextBlock(f, body)) \/ NodeDies(f, NextBlock(f, body)))
      PROVE  holder' \in [Files -> Holders]
  BY <1>1, <1>2 DEF NodeStart, NodeStops, NodeAdds, NodeDies, TypeInv
<1>3. ASSUME NEW s \in Shards, LoadOpen(s) \/ LoadRead(s) PROVE holder' \in [Files -> Holders]
  BY <1>1, <1>3 DEF LoadOpen, LoadRead
<1>4. ASSUME NEW r \in Requests, Receive(r) \/ OpenFile(r) \/ ReadTxs(r) \/ Refuse(r)
      PROVE  holder' \in [Files -> Holders]
  BY <1>1, <1>4 DEF Receive, OpenFile, ReadTxs, Released, Refuse, files, TypeInv
<1>5. CASE Kill
  BY <1>5 DEF Kill
<1>6. ASSUME \/ StartServer \/ Serve \/ UNCHANGED storeVars
             \/ \E r \in Requests : \/ Deliver(r)
                                    \/ \E c \in Clickable : showModal(r, c[1], c[2], c[3])
      PROVE  holder' = holder
  BY <1>6 DEF StartServer, Serve, Deliver, showModal, storeVars, files
<1> QED BY <1>2, <1>3, <1>4, <1>5, <1>6, StepCases DEF TypeInv

LEMMA ServerType ==
    ASSUME TypeInv, [Next]_vars
    PROVE  phase' \in {"off", "load", "up"} /\ starts' \in 0 .. MaxStarts
<1>1. CASE StartServer
  BY <1>1, DashboardBoundAssumption DEF TypeInv, StartServer
<1>2. CASE Serve \/ Kill
  BY <1>2 DEF TypeInv, Serve, Kill
<1>3. ASSUME NEW s \in Shards, LoadRead(s)
      PROVE  phase' \in {"off", "load", "up"} /\ starts' \in 0 .. MaxStarts
  BY <1>3 DEF TypeInv, LoadRead
<1>4. ASSUME \/ \E f \in NodeFiles : NodeStart(f) \/ NodeStops(f)
             \/ \E f \in NodeFiles, body \in Bodies :
                    NodeAdds(f, NextBlock(f, body)) \/ NodeDies(f, NextBlock(f, body))
             \/ \E s \in Shards : LoadOpen(s)
             \/ \E r \in Requests : Receive(r) \/ OpenFile(r) \/ ReadTxs(r) \/ Refuse(r)
             \/ \E r \in Requests : Deliver(r)
             \/ \E r \in Requests, c \in Clickable : showModal(r, c[1], c[2], c[3])
             \/ UNCHANGED storeVars
      PROVE  UNCHANGED server
  BY <1>4 DEF NodeStart, NodeStops, NodeAdds, NodeDies, LoadOpen, Receive, OpenFile, ReadTxs,
              Refuse, Deliver, showModal, storeVars
<1>5. UNCHANGED server => phase' = phase /\ starts' = starts
  BY DEF server
<1> QED BY <1>1, <1>2, <1>3, <1>4, <1>5, StepCases DEF TypeInv

LEMMA RequestType ==
    ASSUME StoreInv, TypeInv, [Next]_vars, NEW q \in Requests
    PROVE  req'[q].at \in {"free", "sent", "open", "read", "answer", "failed"}
<1> DEFINE Ats == {"free", "sent", "open", "read", "answer", "failed"}
<1> SUFFICES req'[q].at \in Ats
  OBVIOUS
<1>0. /\ req = [r \in Requests |-> req[r]] /\ req[q].at \in Ats
      /\ \A r \in Requests : req[r] = [at |-> req[r].at, shard |-> req[r].shard,
                                       hash |-> req[r].hash, height |-> req[r].height,
                                       body |-> req[r].body]
  BY DEF StoreInv, RequestInv, TypeInv
<1>1. ASSUME NEW r \in Requests, NEW p, p.at \in Ats, req' = [req EXCEPT ![r] = p]
      PROVE  req'[q].at \in Ats
  BY <1>0, <1>1
<1>2. \A at, s, h, height, body : Request(at, s, h, height, body).at = at
  BY DEF Request
<1> HIDE DEF Ats
<1>3. ASSUME NEW r \in Requests, NEW at \in Ats, NEW t, NEW h, NEW height, NEW body,
             req' = [req EXCEPT ![r] = Request(at, t, h, height, body)]
      PROVE  req'[q].at \in Ats
  <2> PICK p : p = Request(at, t, h, height, body)
    OBVIOUS
  <2>1. p.at \in Ats
    BY <1>2
  <2> QED BY <1>1, <1>3, <2>1
<1>4. "free" \in Ats /\ "sent" \in Ats /\ "open" \in Ats /\ "read" \in Ats /\ "answer" \in Ats
       /\ "failed" \in Ats
  BY DEF Ats
<1>5. ASSUME NEW r \in Requests, Receive(r)
      PROVE  req'[q].at \in Ats
  <2>1. PICK at \in {"open", "answer"} : \E height :
            req' = [req EXCEPT ![r] = Request(at, req[r].shard, req[r].hash, height, << >>)]
    BY <1>5 DEF Receive
  <2> QED BY <1>3, <1>4, <2>1
<1>6. ASSUME NEW r \in Requests, OpenFile(r) \/ Refuse(r)
      PROVE  req'[q].at \in Ats
  <2> DEFINE p(at) == [req[r] EXCEPT !.at = at]
  <2>1. PICK at \in {"read", "failed"} : req' = [req EXCEPT ![r] = p(at)]
    BY <1>6 DEF OpenFile, Refuse
  <2>2. p(at).at = at
    BY <1>0
  <2> HIDE DEF p
  <2> QED BY <1>1, <1>4, <2>1, <2>2
<1>7. ASSUME NEW r \in Requests, ReadTxs(r) PROVE req'[q].at \in Ats
  <2>1. PICK body : req' = [req EXCEPT ![r] = Request("answer", req[r].shard, req[r].hash,
                                                      req[r].height, Views(body))]
    BY <1>7 DEF ReadTxs
  <2> QED BY <1>3, <1>4, <2>1
<1>8. ASSUME NEW r \in Requests,
             Deliver(r) \/ \E c \in Clickable : showModal(r, c[1], c[2], c[3])
      PROVE  req'[q].at \in Ats
  <2>1. CASE Deliver(r)
    <3>1. req' = [req EXCEPT ![r] = Request("free", None, None, 0, << >>)]
      BY <2>1 DEF Deliver
    <3> QED BY <1>3, <1>4, <3>1
  <2>2. CASE \E c \in Clickable : showModal(r, c[1], c[2], c[3])
    <3>1. PICK c : req' = [req EXCEPT ![r] = Request("sent", c[1], c[2], 0, << >>)]
      BY <2>2 DEF showModal
    <3> QED BY <1>3, <1>4, <3>1
  <2> QED BY <1>8, <2>1, <2>2
<1>9. CASE Kill
  <2>1. req'[q] = IF req[q].at \in {"open", "read", "answer"}
                  THEN [req[q] EXCEPT !.at = "failed"] ELSE req[q]
    BY <1>9 DEF Kill
  <2>2. [req[q] EXCEPT !.at = "failed"].at = "failed"
    BY <1>0
  <2>3. req'[q].at \in {"failed", req[q].at}
    BY <2>1, <2>2
  <2> QED BY <1>0, <1>4, <2>3
<1>10. ASSUME \/ \E f \in NodeFiles : NodeStart(f) \/ NodeStops(f)
              \/ \E f \in NodeFiles, body \in Bodies :
                     NodeAdds(f, NextBlock(f, body)) \/ NodeDies(f, NextBlock(f, body))
              \/ StartServer \/ Serve \/ UNCHANGED storeVars
              \/ \E s \in Shards : LoadOpen(s) \/ LoadRead(s)
       PROVE  req' = req
  BY <1>10 DEF NodeStart, NodeStops, NodeAdds, NodeDies, StartServer, Serve, LoadOpen,
               LoadRead, storeVars
<1>11. req' = req => req'[q].at \in Ats
  BY <1>0
<1>12. \/ req' = req \/ Kill
       \/ \E r \in Requests : \/ Receive(r) \/ OpenFile(r) \/ ReadTxs(r) \/ Refuse(r)
                              \/ Deliver(r)
                              \/ \E c \in Clickable : showModal(r, c[1], c[2], c[3])
  BY <1>10, StepCases
<1> QED BY <1>5, <1>6, <1>7, <1>8, <1>9, <1>11, <1>12

LEMMA PageType ==
    ASSUME TypeInv, DialogInv, [Next]_vars
    PROVE  /\ page' \in {"closed", "stat", "blocks", "done"}
           /\ shown'.kind \in {"nothing", "chain", "offline", "threw"}
           /\ dialog'.area \in {"hidden", "loading", "answered", "failed"}
<1>1. CASE (StoreNext /\ UNCHANGED pageVars) \/ UNCHANGED vars
  BY <1>1 DEF TypeInv, pageVars, vars
<1>2. CASE OpenPage \/ Refresh
  BY <1>2 DEF TypeInv, OpenPage, Refresh, FetchStat, FetchBlocks, FetchFails, Shows
<1>3. ASSUME NEW r \in Requests,
             Deliver(r) \/ \E c \in Clickable : showModal(r, c[1], c[2], c[3])
      PROVE  /\ page' = page /\ shown' = shown
             /\ dialog'.area \in {"loading", "answered", "failed"}
  BY <1>3 DEF Deliver, Rendered, showModal, Dialog
<1>4. CASE closeModal
  <2>1. dialog'.area = dialog.area /\ page' = page /\ shown' = shown
    BY <1>4 DEF closeModal, DialogInv, Dialog
  <2> QED BY <2>1 DEF TypeInv
<1> QED BY <1>1, <1>2, <1>3, <1>4 DEF TypeInv, Next

\* The state has its type.
THEOREM PageTypeCorrect == Spec => []TypeOK
<1>1. Init => TypeInv
  BY DashboardBoundAssumption DEF Init, StoreInit, TypeInv, Request, Shows, Dialog
<1>2. StoreInv /\ DialogInv /\ TypeInv /\ [Next]_vars => TypeInv'
  BY HolderType, ServerType, RequestType, PageType DEF TypeInv
<1>3. StoreInv /\ TypeInv => TypeOK
  <2> SUFFICES ASSUME StoreInv, TypeInv PROVE TypeOK
    OBVIOUS
  <2>1. DOMAIN file \subseteq Files /\ DOMAIN shards \subseteq DOMAIN chosen
    BY DEF StoreInv, FilesInv, ListInv
  <2>2. DOMAIN chosen \subseteq Shards
    BY FileShards DEF StoreInv, ListInv
  <2> QED BY <2>1, <2>2 DEF TypeInv, TypeOK
<1> QED BY <1>1, <1>2, <1>3, StoreAlways, DialogAlways, PTL DEF Spec

=============================================================================
