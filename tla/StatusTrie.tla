----------------------------- MODULE StatusTrie -----------------------------
(***************************************************************************)
(* The status trie of one shard (chain/blockchain.go, core/account.go) and *)
(* the placement of accounts on shards (utils/utils_partition.go).         *)
(*                                                                         *)
(* A trie is its contents: a partial function from keys to account states. *)
(* The Merkle root is an injective name of the contents, so a root IS the  *)
(* contents; whether a root can be opened is a matter of which contents    *)
(* were written, which BlockChain models.  A key is an account address or  *)
(* the virtual address <<a, s>> that the code builds by appending the      *)
(* digits of shard s to the address a.                                     *)
(***************************************************************************)
EXTENDS Integers, FiniteSets, Functions

CONSTANTS
    Accounts,            \* account addresses
    AddrNum,             \* the number that the last 8 hex digits of an address spell
    ShardNum,            \* params.ShardNum
    ShardData,           \* the table in MapInfo: some accounts -> their shard
    ShardID,             \* ChainConfig.ShardID, the shard of this node
    Init_Balance,        \* params.Init_Balance, of every account the trie lacks
    VirtualInit_Balance  \* params.VirtualInit_Balance

ASSUME ShardNumAssumption == ShardNum \in Nat \ {0}
ASSUME AddrNumAssumption == AddrNum \in [Accounts -> Nat]
ASSUME ShardDataAssumption ==
    /\ DOMAIN ShardData \subseteq Accounts
    /\ \A a \in DOMAIN ShardData : ShardData[a] \in Nat
ASSUME BalanceAssumption == Init_Balance \in Nat /\ VirtualInit_Balance \in Nat
\* Appending shard digits to an address never spells another account's address.
ASSUME VirtualAssumption == Accounts \cap (Accounts \X Nat) = {}

-----------------------------------------------------------------------------
(* Placement. *)

Addr2Shard(addr) == AddrNum[addr] % ShardNum

AddrVirtualAccount(addr, shardID) == <<addr, shardID>>

MapInfo == ShardData

Get_PartitionMap(pm, key) ==
    IF key \in DOMAIN pm THEN pm[key] ELSE Addr2Shard(key)

-----------------------------------------------------------------------------
(* The trie. *)

Keys == Accounts \cup (Accounts \X Nat)

AccountState == [Nonce : Nat, Balance : Nat]

EmptyTrie == [k \in {} |-> [Nonce |-> 0, Balance |-> 0]]

IsTrie(st) ==
    /\ DOMAIN st \subseteq Keys /\ IsFiniteSet(DOMAIN st)
    /\ st = [k \in DOMAIN st |-> st[k]]
    /\ \A k \in DOMAIN st : st[k] \in AccountState

\* st.Get, and the account the code makes up when the trie has none.
Get(st, key, nonce, balance) ==
    IF key \in DOMAIN st THEN st[key] ELSE [Nonce |-> nonce, Balance |-> balance]

Update(st, key, acc) ==
    [k \in DOMAIN st \cup {key} |-> IF k = key THEN acc ELSE st[k]]

Deduct(acc, value) ==
    IF acc.Balance < value THEN acc ELSE [acc EXCEPT !.Balance = @ - value]

Deposit(acc, value) == [acc EXCEPT !.Balance = @ + value]

-----------------------------------------------------------------------------
(* The three writes that GetUpdateStatusTrie makes for transaction number i. *)

SenderState(st, i, tx) == Get(st, tx.Sender, i, Init_Balance)

DebitSender(st, i, tx) ==
    Update(st, tx.Sender, Deduct(SenderState(st, i, tx), tx.Value))

CreditRecipient(st, i, tx) ==
    Update(st, tx.Recipient,
           Deposit(Get(st, tx.Recipient, i, Init_Balance), tx.Value))

\* Keyed by the default shard of the sender, whatever the partition map says.
VirtualRecipient(tx) == AddrVirtualAccount(tx.Recipient, Addr2Shard(tx.Sender))

\* Mutant of CreditVirtual: a new virtual account is opened with the amount and
\* then credited with it.
CreditVirtualTwice(st, i, tx) ==
    Update(st, VirtualRecipient(tx),
           Deposit(Get(st, VirtualRecipient(tx), i, VirtualInit_Balance + tx.Value), tx.Value))

CreditVirtual(st, i, tx) ==
    Update(st, VirtualRecipient(tx),
           Deposit(Get(st, VirtualRecipient(tx), i, VirtualInit_Balance), tx.Value))

-----------------------------------------------------------------------------
(* The loops of AddAccounts and AddAccount over a batch of accounts, and   *)
(* FetchAccounts.  A batch maps addresses to the account states given for  *)
(* them: no address occurs twice, so the order of the loop is immaterial.  *)

\* AddAccounts replaces the state of the accounts placed on this shard.
InjectedLocal(st, pm, batch) ==
    LET local == {a \in DOMAIN batch : Get_PartitionMap(pm, a) = ShardID}
    IN  [k \in DOMAIN st \cup local |-> IF k \in local THEN batch[k] ELSE st[k]]

\* AddAccount adds to the balance, on whatever shard the account lives.
InjectedAny(st, batch) ==
    [k \in DOMAIN st \cup DOMAIN batch |->
        IF k \notin DOMAIN batch THEN st[k]
        ELSE IF k \in DOMAIN st THEN Deposit(st[k], batch[k].Balance)
        ELSE Deposit(batch[k], Init_Balance)]

FetchAccounts(st, addrs) == [a \in addrs |-> Get(st, a, 0, Init_Balance)]

-----------------------------------------------------------------------------
(* The money that a trie stands for, as FetchAccounts reports it: every    *)
(* account has a balance, Init_Balance when the trie lacks it; the virtual *)
(* accounts hold what was sent to other shards.                            *)

Supply(st) ==
    LET fetched == FetchAccounts(st, Accounts)
        virtual == DOMAIN st \ Accounts
    IN  SumFunction([a \in Accounts |-> fetched[a].Balance])
      + SumFunction([v \in virtual |-> st[v].Balance])
=============================================================================
