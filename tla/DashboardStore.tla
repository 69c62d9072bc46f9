--------------------------- MODULE DashboardStore ---------------------------
(***************************************************************************)
(* The dashboard server (main.go, query/query_block.go): it reads the      *)
(* blocks of every shard once, at the start, and serves that listing; the  *)
(* transactions of a block are read from the file when they are asked for. *)
(* The files are those of nodes that may be running: bolt.Open has no      *)
(* timeout and waits for the lock on the file, which a node holds as long  *)
(* as it runs and a query from opening to closing, also against another    *)
(* query of the same process.                                              *)
(***************************************************************************)
EXTENDS Query, BlockBucket

CONSTANTS
    NodeFiles,  \* the pairs <<shard, node>> that a node may run on
    OldFiles,   \* files of nodes that ran before, as they left them
    Shards,
    Requests,   \* names for the requests that are being answered
    Bodies,     \* the lists of transactions a node may put into a block
    Limit,      \* of a block's transactions an answer has the first, 100 in the code
    MaxHeight,  \* bound on the height of the chains
    MaxStarts   \* bound on the starts of the server

ASSUME NamesAssumption ==
    None \notin {"node", "start"} \cup Requests /\ {"node", "start"} \cap Requests = {}
ASSUME LimitAssumption == Limit \in Nat \ {0}
ASSUME DashboardBoundAssumption == MaxHeight \in Nat /\ MaxStarts \in Nat

\* Blocks of one height have one parent.
Siblings(a, b) ==
    a.Header.Number = b.Header.Number => a.Header.ParentBlockHash = b.Header.ParentBlockHash

Below(f, b) ==
    /\ DOMAIN f.newest # {}
    /\ b.Header.Number <= f.block[f.newest["OnlyNewestBlock"]].Header.Number

\* What a file is like that behaves as BlockFile says: a chain up to the newest
\* block, and besides it blocks that a crash left, on which no other is built.
IsFile(f) ==
    /\ IsFiniteSet(DOMAIN f.block)
    /\ \A h \in DOMAIN f.block :
           LET b == f.block[h]
           IN  /\ b.Hash = h
               /\ b.Header.Number \in Nat
               /\ b.Body \in Seq(Range(b.Body))
               /\ b.Header.Number = 0 => b.Header.ParentBlockHash = None
               /\ b.Header.Number > 0 =>
                      /\ b.Header.ParentBlockHash \in DOMAIN f.block
                      /\ f.block[b.Header.ParentBlockHash].Header.Number + 1 = b.Header.Number
    /\ \A k \in DOMAIN f.newest : k = "OnlyNewestBlock" /\ f.newest[k] \in DOMAIN f.block
    /\ \A h \in DOMAIN f.block :
           Below(f, f.block[h]) \/ Follows(f.block, f.newest, f.block[h])
    /\ \A g, h \in DOMAIN f.block : Siblings(f.block[g], f.block[h])

ASSUME FilesAssumption ==
    /\ NodeFiles \cup DOMAIN OldFiles \subseteq Shards \X Nat
    /\ IsFiniteSet(DOMAIN OldFiles)
    /\ OldFiles = [f \in DOMAIN OldFiles |-> OldFiles[f]]
    /\ \A f \in DOMAIN OldFiles : IsFile(OldFiles[f])
ASSUME BodiesAssumption == \A body \in Bodies : body \in Seq(Range(body))

VARIABLES
    file,    \* <<shard, node>> -> the block bucket and the newest hash, where there is a file
    holder,  \* <<shard, node>> -> who has the file open: "node", "start", a request or None
    phase,   \* the server: "off", "load" (newChainStore) or "up" (ListenAndServe)
    chosen,  \* shard -> node, what chooseShardDatabases found
    shards,  \* chainStore.shards: shard -> its listing
    req,     \* request -> its state
    starts

files == <<file, holder>>
server == <<phase, chosen, shards, starts>>
storeVars == <<files, server, req>>

-----------------------------------------------------------------------------
(* The files. *)

Files == NodeFiles \cup DOMAIN OldFiles \cup (Shards \X {0})

EmptyFile == [block |-> EmptyBucket, newest |-> EmptyBucket]

\* NewStorage creates the file and its buckets if they are not there.
Opened(f) ==
    IF f \in DOMAIN file THEN file
    ELSE [g \in DOMAIN file \cup {f} |-> IF g = f THEN EmptyFile ELSE file[g]]

Held(f, who) == holder' = [holder EXCEPT ![f] = who]

\* A node starts, adds blocks, and stops or dies; what it does to its file is what
\* BlockFile allows.
NodeStart(f) ==
    /\ holder[f] = None
    /\ Held(f, "node")
    /\ file' = Opened(f)
    /\ UNCHANGED <<server, req>>

BlockOn(tip, body) ==
    Sealed(NewBlock(NewHeader(tip.Hash, tip.Header.Number + 1, 1, Len(body), None, body), body))

NextBlock(f, body) ==
    IF DOMAIN file[f].newest = {} THEN NewGenisisBlock(None)
    ELSE BlockOn(file[f].block[file[f].newest["OnlyNewestBlock"]], body)

\* Two blocks with one header are one block: the time is part of it.
MayPut(f, b) ==
    /\ holder[f] = "node"
    /\ Follows(file[f].block, file[f].newest, b)
    /\ b.Hash \in DOMAIN file[f].block => file[f].block[b.Hash] = b

NodeAdds(f, b) ==
    /\ MayPut(f, b)
    /\ file' = [file EXCEPT ![f] = [block |-> Stored(@.block, b), newest |-> NewestIs(b.Hash)]]
    /\ UNCHANGED <<holder, server, req>>

\* The node dies after it has put the block and before the newest hash.
NodeDies(f, b) ==
    /\ MayPut(f, b)
    /\ file' = [file EXCEPT ![f] = [block |-> Stored(@.block, b), newest |-> @.newest]]
    /\ Held(f, None)
    /\ UNCHANGED <<server, req>>

NodeStops(f) ==
    /\ holder[f] = "node"
    /\ Held(f, None)
    /\ UNCHANGED <<file, server, req>>

-----------------------------------------------------------------------------
(* Loading. *)

\* Mutant of chooseShardDatabases: the two numbers of the name are swapped.
chooseSwapped ==
    [s \in {f[2] : f \in DOMAIN file} |-> Min({f[1] : f \in {g \in DOMAIN file : g[2] = s}})]

\* The lowest node that has a file for the shard.
chooseShardDatabases ==
    [s \in {f[1] : f \in DOMAIN file} |-> Min({f[2] : f \in {g \in DOMAIN file : g[1] = s}})]

\* Mutant of Source: the file that was chosen.
SourceChosen(s) == <<s, chosen[s]>>

\* Whatever was chosen, the query is for node 0.
Source(s) == <<s, 0>>

View(b) ==
    [Height |-> b.Header.Number, TxCount |-> Len(b.Body), Hash |-> b.Hash,
     ParentHash |-> b.Header.ParentBlockHash]

loadShardBlocksFromQuery(s) == {View(b) : b \in QueryBlocks(file[Source(s)].block)}

\* Mutant of Latest: only a height above the one so far counts, which is 0 at first.
LatestStrict(views) ==
    IF \A v \in views : v.Height = 0 THEN {[Height |-> 0, Hash |-> None]}
    ELSE {[Height |-> v.Height, Hash |-> v.Hash] :
             v \in {w \in views : \A u \in views : u.Height <= w.Height}}

\* Of the highest blocks the last in the order of their hashes is the latest; with
\* no block the height is 0 and the hash empty.
Latest(views) ==
    IF views = {} THEN {[Height |-> 0, Hash |-> None]}
    ELSE {[Height |-> v.Height, Hash |-> v.Hash] :
             v \in {w \in views : \A u \in views : u.Height <= w.Height}}

StartServer ==
    /\ phase = "off" /\ starts < MaxStarts
    /\ phase' = "load"
    /\ starts' = starts + 1
    /\ chosen' = chooseShardDatabases
    /\ shards' = [s \in {} |-> None]
    /\ UNCHANGED <<files, req>>

\* One shard after the other, in the order of the map, which is any.
LoadOpen(s) ==
    /\ phase = "load"
    /\ s \in DOMAIN chosen \ DOMAIN shards
    /\ \A f \in Files : holder[f] # "start"
    /\ holder[Source(s)] = None
    /\ Held(Source(s), "start")
    /\ file' = Opened(Source(s))
    /\ UNCHANGED <<server, req>>

LoadRead(s) ==
    /\ phase = "load"
    /\ s \in DOMAIN chosen \ DOMAIN shards
    /\ holder[Source(s)] = "start"
    /\ LET views == loadShardBlocksFromQuery(s)
       IN  \E latest \in Latest(views) :
               shards' = [t \in DOMAIN shards \cup {s} |->
                            IF t # s THEN shards[t]
                            ELSE [Path |-> chosen[s], Blocks |-> views,
                                  LatestHeight |-> latest.Height, LatestHash |-> latest.Hash]]
    /\ Held(Source(s), None)
    /\ UNCHANGED <<file, phase, chosen, starts, req>>

Serve ==
    /\ phase = "load"
    /\ DOMAIN shards = DOMAIN chosen
    /\ phase' = "up"
    /\ UNCHANGED <<files, chosen, shards, starts, req>>

\* The process ends: killed, or log.Fatal when something cannot be read at the start.
Kill ==
    /\ phase # "off"
    /\ phase' = "off"
    /\ shards' = [s \in {} |-> None]
    /\ chosen' = [s \in {} |-> 0]
    /\ holder' = [f \in Files |-> IF holder[f] = "node" THEN "node" ELSE None]
    /\ req' = [r \in Requests |-> IF req[r].at \in {"open", "read", "answer"}
                                  THEN [req[r] EXCEPT !.at = "failed"] ELSE req[r]]
    /\ UNCHANGED <<file, starts>>

-----------------------------------------------------------------------------
(* GET /api/block-transactions.  A request is "sent" by the page, see Page. *)

Request(at, s, h, height, body) ==
    [at |-> at, shard |-> s, hash |-> h, height |-> height, body |-> body]

Listed(s, h) == s \in DOMAIN shards /\ \E v \in shards[s].Blocks : v.Hash = h

\* ByHash of the listing gives the height; for a hash that it lacks the answer is
\* an empty list.
Receive(r) ==
    /\ phase = "up"
    /\ req[r].at = "sent"
    /\ LET s == req[r].shard
           h == req[r].hash
       IN  \/ /\ Listed(s, h)
              /\ \E v \in shards[s].Blocks :
                     /\ v.Hash = h
                     /\ req' = [req EXCEPT ![r] = Request("open", s, h, v.Height, << >>)]
           \/ /\ ~Listed(s, h)
              /\ req' = [req EXCEPT ![r] = Request("answer", s, h, 0, << >>)]
    /\ UNCHANGED <<files, server>>

OpenFile(r) ==
    /\ req[r].at = "open"
    /\ holder[<<req[r].shard, 0>>] = None
    /\ Held(<<req[r].shard, 0>>, r)
    /\ file' = Opened(<<req[r].shard, 0>>)
    /\ req' = [req EXCEPT ![r].at = "read"]
    /\ UNCHANGED server

\* Mutant of Views: the last ones.
ViewsLast(body) ==
    SubSeq(body, IF Len(body) < Limit THEN 1 ELSE Len(body) - Limit + 1, Len(body))

\* The first Limit transactions.
Views(body) == SubSeq(body, 1, IF Len(body) < Limit THEN Len(body) ELSE Limit)

\* Mutant of Released: the file is not closed.
Kept(f) == UNCHANGED holder

Released(f) == Held(f, None)

\* The search is by height.
ReadTxs(r) ==
    /\ req[r].at = "read"
    /\ \E body \in QueryBlockTxs(file[<<req[r].shard, 0>>].block, req[r].height) :
           req' = [req EXCEPT ![r] = Request("answer", @.shard, @.hash, @.height, Views(body))]
    /\ Released(<<req[r].shard, 0>>)
    /\ UNCHANGED <<file, server>>

\* Nobody listens: the fetch fails.
Refuse(r) ==
    /\ phase # "up"
    /\ req[r].at = "sent"
    /\ req' = [req EXCEPT ![r].at = "failed"]
    /\ UNCHANGED <<files, server>>

-----------------------------------------------------------------------------

StoreInit ==
    /\ file \in {[f \in {} |-> EmptyFile], OldFiles}
    /\ holder = [f \in Files |-> None]
    /\ phase = "off"
    /\ chosen = [s \in {} |-> 0]
    /\ shards = [s \in {} |-> None]
    /\ req = [r \in Requests |-> Request("free", None, None, 0, << >>)]
    /\ starts = 0

Node ==
    \E f \in NodeFiles :
        \/ NodeStart(f)
        \/ \E body \in Bodies : f \in DOMAIN file /\
               LET b == NextBlock(f, body)
               IN  b.Header.Number <= MaxHeight /\ (NodeAdds(f, b) \/ NodeDies(f, b))
        \/ NodeStops(f)

Load == (\E s \in Shards : LoadOpen(s) \/ LoadRead(s)) \/ Serve

Handle(r) == Receive(r) \/ OpenFile(r) \/ ReadTxs(r) \/ Refuse(r)

StoreNext == Node \/ StartServer \/ Load \/ Kill \/ \E r \in Requests : Handle(r)
=============================================================================
