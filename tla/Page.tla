-------------------------------- MODULE Page --------------------------------
(***************************************************************************)
(* The browser page (script.js) in front of the dashboard server, which    *)
(* may be killed and started again under it.  The page calls refresh once, *)
(* when it is loaded: two fetches, and mock data if one of them fails or   *)
(* the answer cannot be rendered.  A click on a block opens the dialog and *)
(* sends a request; its answer is rendered when it arrives, whichever      *)
(* block the dialog shows by then.                                         *)
(***************************************************************************)
EXTENDS DashboardStore

CONSTANT MaxClicks  \* bound on the clicks

ASSUME ClicksAssumption == MaxClicks \in Nat

VARIABLES
    page,    \* where refresh is: "closed", "stat", "blocks" or "done"
    total,   \* stat.totalTransactions, as /api/stat answered
    shown,   \* what renderShards was given, and why
    dialog,  \* the dialog of a block
    clicks

pageVars == <<page, total, shown, dialog, clicks>>
vars == <<storeVars, pageVars>>

-----------------------------------------------------------------------------
(* GET /api/stat and GET /api/blocks: chainStore.Snapshot. *)

TotalTransactions(listing) ==
    LET OfShard(s) == MapThenSumSet(LAMBDA v : v.TxCount, listing[s])
    IN  MapThenSumSet(OfShard, DOMAIN listing)

QueryShards == [s \in DOMAIN shards |-> shards[s].Blocks]

\* A shard without blocks is sent as null, and shard.blocks.map throws.
Renders(listing) == \A s \in DOMAIN listing : listing[s] # {}

\* "offline" and "threw" show the mock data.
Shows(kind, listing) == [kind |-> kind, shards |-> listing]

Nothing == [s \in {} |-> {}]

\* The page is served by the server itself.
OpenPage ==
    /\ page = "closed" /\ phase = "up"
    /\ page' = "stat"
    /\ UNCHANGED <<storeVars, total, shown, dialog, clicks>>

FetchStat ==
    /\ page = "stat" /\ phase = "up"
    /\ total' = TotalTransactions(QueryShards)
    /\ page' = "blocks"
    /\ UNCHANGED <<storeVars, shown, dialog, clicks>>

FetchBlocks ==
    /\ page = "blocks" /\ phase = "up"
    /\ shown' = IF Renders(QueryShards) THEN Shows("chain", QueryShards)
                ELSE Shows("threw", Nothing)
    /\ page' = "done"
    /\ UNCHANGED <<storeVars, total, dialog, clicks>>

FetchFails ==
    /\ page \in {"stat", "blocks"} /\ phase # "up"
    /\ shown' = Shows("offline", Nothing)
    /\ page' = "done"
    /\ UNCHANGED <<storeVars, total, dialog, clicks>>

-----------------------------------------------------------------------------
(* The dialog. *)

\* alone is a history variable: no other answer was outstanding when it opened.
Dialog(open, s, h, height, alone, area, rows) ==
    [open |-> open, shard |-> s, hash |-> h, height |-> height, alone |-> alone,
     area |-> area, rows |-> rows]

\* The blocks to click on; a mock block has a random hash, None here, and one of
\* three shards.
Clickable ==
    IF shown.kind = "chain"
    THEN UNION {{<<s, v.Hash, v.Height>> : v \in shown.shards[s]} : s \in DOMAIN shown.shards}
    ELSE {<<s, None, 0>> : s \in Shards}

Free == {r \in Requests : req[r].at = "free"}

\* The overlay does not keep the keyboard from the blocks behind it.
showModal(r, s, h, height) ==
    /\ page = "done" /\ clicks < MaxClicks
    /\ Free # {} /\ r = CHOOSE q \in Free : TRUE
    /\ clicks' = clicks + 1
    /\ dialog' = Dialog(TRUE, s, h, height, Free = Requests, "loading", << >>)
    /\ req' = [req EXCEPT ![r] = Request("sent", s, h, 0, << >>)]
    /\ UNCHANGED <<files, server, page, total, shown>>

Rendered(area, rows) ==
    Dialog(dialog.open, dialog.shard, dialog.hash, dialog.height, dialog.alone, area, rows)

\* loadTransactions after the fetch: the answer, or that there is none.
Deliver(r) ==
    /\ \/ req[r].at = "answer" /\ dialog' = Rendered("answered", req[r].body)
       \/ req[r].at = "failed" /\ dialog' = Rendered("failed", << >>)
    /\ req' = [req EXCEPT ![r] = Request("free", None, None, 0, << >>)]
    /\ UNCHANGED <<files, server, page, total, shown, clicks>>

closeModal ==
    /\ dialog.open
    /\ dialog' = [dialog EXCEPT !.open = FALSE]
    /\ UNCHANGED <<storeVars, page, total, shown, clicks>>

-----------------------------------------------------------------------------

Init ==
    /\ StoreInit
    /\ page = "closed" /\ total = 0 /\ clicks = 0
    /\ shown = Shows("nothing", Nothing)
    /\ dialog = Dialog(FALSE, None, None, 0, TRUE, "hidden", << >>)

Refresh == FetchStat \/ FetchBlocks \/ FetchFails

Next ==
    \/ StoreNext /\ UNCHANGED pageVars
    \/ OpenPage \/ Refresh
    \/ \E r \in Requests : Deliver(r) \/ \E c \in Clickable : showModal(r, c[1], c[2], c[3])
    \/ closeModal

Spec == Init /\ [][Next]_vars

\* The server's goroutines and the callbacks of the page run; nobody has to start
\* or stop a node or the server, to load the page or to click.
FairSpec ==
    /\ Spec
    /\ WF_vars(Load /\ UNCHANGED pageVars)
    /\ \A r \in Requests : WF_vars(Handle(r) /\ UNCHANGED pageVars) /\ WF_vars(Deliver(r))
-----------------------------------------------------------------------------

\* The state has its type.
TypeOK ==
    /\ DOMAIN file \subseteq Files
    /\ holder \in [Files -> {None, "node", "start"} \cup Requests]
    /\ phase \in {"off", "load", "up"} /\ starts \in 0 .. MaxStarts
    /\ DOMAIN shards \subseteq DOMAIN chosen /\ DOMAIN chosen \subseteq Shards
    /\ \A r \in Requests : req[r].at \in {"free", "sent", "open", "read", "answer", "failed"}
    /\ page \in {"closed", "stat", "blocks", "done"}
    /\ shown.kind \in {"nothing", "chain", "offline", "threw"}
    /\ dialog.area \in {"hidden", "loading", "answered", "failed"}

\* A listing is a chain from its first block, but for what crashes leave, read in the
\* middle of whatever the node was doing when it stopped or died: the parent of a
\* listed block is listed, one below, blocks of one height have one parent, so all
\* but one of them have no block on top, and neither has the one called the latest.
\* That may be a block off the chain: of two highest ones only the file says which
\* is the newest.
ChainWithSiblings ==
    \A s \in DOMAIN shards :
        /\ \A v \in shards[s].Blocks : v.Height > 0 =>
               \E u \in shards[s].Blocks : u.Hash = v.ParentHash /\ u.Height + 1 = v.Height
        /\ \A u, v \in shards[s].Blocks : u.Height = v.Height => u.ParentHash = v.ParentHash
        /\ shards[s].Blocks # {} =>
               /\ \E v \in shards[s].Blocks :
                      v.Hash = shards[s].LatestHash /\ v.Height = shards[s].LatestHeight
               /\ \A v \in shards[s].Blocks : v.Height > 0 => v.ParentHash # shards[s].LatestHash

\* What the page shows is known to every server that is started later, so a click
\* on it finds its block also after a restart.
ShownStaysListed ==
    phase = "up" =>
        \A s \in DOMAIN shown.shards :
            s \in DOMAIN shards /\ shown.shards[s] \subseteq shards[s].Blocks

\* The transactions that the head of the page counts are among those of the blocks
\* below it, also when the server is killed, the nodes go on and the server is
\* started again between the two fetches.
StatNeverAhead == shown.kind = "chain" => total <= TotalTransactions(shown.shards)

\* rows are the first transactions of the body, as many as an answer may have.
IsBeginning(rows, body) ==
    /\ Len(rows) = Min({Limit, Len(body)})
    /\ \A i \in DOMAIN rows : rows[i] = body[i]

\* If no other answer was outstanding when the dialog was opened, what it shows is
\* the beginning of its own block, unless a crashed node left it a sibling, which the
\* search by height (main.go:717) may have found instead, see QueryFindsChain: the answer
\* of an earlier dialog, a restart or another node's file never gets in between.
SoleAnswerShown ==
    dialog.alone /\ dialog.area = "answered" /\ dialog.hash # None =>
        \E own, b \in QueryBlock(file[<<dialog.shard, 0>>].block, dialog.height) :
            own.Hash = dialog.hash /\ Siblings(own, b) /\ IsBeginning(dialog.rows, b.Body)

Waiting == phase = "load" \/ dialog.area = "loading"

\* Only a running node can keep the server from starting and the dialog from
\* showing an answer or an error; the queries never block each other for ever.
WaitsForNodesOnly == <>[](\A f \in Files : holder[f] # "node") => []<>~Waiting

\* The mock data stands in for an API that is unavailable: "API unavailable" is
\* what refresh throws, and for a shard without blocks renderShards has a text.
MockWhenUnavailable == shown.kind # "threw"
=============================================================================
