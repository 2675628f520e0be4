------------------------- MODULE SubscriptionFilter -------------------------
(***************************************************************************)
(* The subscription filter of one consumer (sender/mod.rs): the sets of    *)
(* account pubkeys and owners it asked for, whether it wants transactions, *)
(* and the three shortcuts that keep matches_account cheap: a single       *)
(* pubkey, a single owner, and a Bloom filter consulted when many keys     *)
(* were requested.                                                         *)
(*                                                                         *)
(* An Option<Pubkey> is a set with at most one element.  Bloom::random     *)
(* picks its hash keys at random, so the keys it answers "maybe" for are   *)
(* some superset of the ones that were added: building a filter yields a   *)
(* set of possible filters, one for every such superset.                   *)
(***************************************************************************)
EXTENDS Naturals, FiniteSets

CONSTANTS
    Keys,           \* the 32-byte keys: account pubkeys and owner programs
    BloomThreshold, \* 16 in the code: more requested items turn the Bloom
                    \* filter on
    MaxRequests     \* bound on the distinct requests of one connection

ASSUME FilterAssumption == IsFiniteSet(Keys) /\ BloomThreshold \in Nat

Request ==
    [account_pubkeys : SUBSET Keys,
     account_owners : SUBSET Keys,
     include_transactions : BOOLEAN]

AccountUpdate == [account_pubkey : Keys, account_owner : Keys]

-----------------------------------------------------------------------------
(* The external Bloom filter: no false negatives, any false positives.     *)
BloomOver(added) == {maybe \in SUBSET Keys : added \subseteq maybe}

\* Some(x) for the only element of a one-element set, None otherwise.
Single(S) == IF Cardinality(S) = 1 THEN S ELSE {}

UseBloom(requested_items) == requested_items > BloomThreshold

from_sets(pubkeys, owners, transactions) ==
    { [account_pubkeys |-> pubkeys,
       account_owners |-> owners,
       bloom |-> maybe,
       include_transactions |-> transactions,
       single_pubkey |-> Single(pubkeys),
       single_owner |-> Single(owners),
       use_bloom_fast_reject |->
           UseBloom(Cardinality(pubkeys) + Cardinality(owners))] :
      maybe \in BloomOver(pubkeys \cup owners) }

from_request(req) ==
    from_sets(req.account_pubkeys, req.account_owners, req.include_transactions)

\* Fault: the single-pubkey shortcut is not computed again.
with_request_stale(f, req) ==
    { [g EXCEPT !.single_pubkey = f.single_pubkey] :
      g \in from_sets(f.account_pubkeys \cup req.account_pubkeys,
                      f.account_owners \cup req.account_owners,
                      f.include_transactions \/ req.include_transactions) }

with_request(f, req) ==
    from_sets(f.account_pubkeys \cup req.account_pubkeys,
              f.account_owners \cup req.account_owners,
              f.include_transactions \/ req.include_transactions)

\* Fault: several owners are forgotten, for none of them is a single one.
OnlyPubkeyLoose(f) == f.single_pubkey # {} /\ f.single_owner = {}

\* The three match arms that answer without looking at the sets: the key to
\* compare with is the one in the Option.
OnlyPubkey(f) == f.single_pubkey # {} /\ f.single_owner = {} /\ f.account_owners = {}
OnlyOwner(f) == f.single_pubkey = {} /\ f.single_owner # {} /\ f.account_pubkeys = {}
OneOfEach(f) ==
    /\ f.single_pubkey # {} /\ f.single_owner # {}
    /\ Cardinality(f.account_pubkeys) = 1 /\ Cardinality(f.account_owners) = 1

BloomRejects(f, u) ==
    /\ f.use_bloom_fast_reject
    /\ u.account_pubkey \notin f.bloom
    /\ u.account_owner \notin f.bloom

matches_account(f, u) ==
    CASE OnlyPubkey(f) -> u.account_pubkey \in f.single_pubkey
      [] OnlyOwner(f) -> u.account_owner \in f.single_owner
      [] OneOfEach(f) -> \/ u.account_pubkey \in f.single_pubkey
                         \/ u.account_owner \in f.single_owner
      [] OTHER -> /\ ~BloomRejects(f, u)
                  /\ \/ u.account_pubkey \in f.account_pubkeys
                     \/ u.account_owner \in f.account_owners

matches_transaction(f) == f.include_transactions

\* What a filter is for, without the shortcuts.
Wants(f, u) ==
    \/ u.account_pubkey \in f.account_pubkeys
    \/ u.account_owner \in f.account_owners

-----------------------------------------------------------------------------
(* The life of one filter: built from the first request of a connection,   *)
(* extended by every later one.  asked accumulates the requests themselves.*)
VARIABLES filter, asked

filterVars == <<filter, asked>>

FilterInit == \E req \in Request : filter \in from_request(req) /\ asked = {req}

ApplyRequest(req) ==
    /\ Cardinality(asked \cup {req}) <= MaxRequests
    /\ filter' \in with_request(filter, req)
    /\ asked' = asked \cup {req}

FilterNext == \E req \in Request : ApplyRequest(req)

FilterSpec == FilterInit /\ [][FilterNext]_filterVars

-----------------------------------------------------------------------------
AskedPubkeys == UNION {req.account_pubkeys : req \in asked}
AskedOwners == UNION {req.account_owners : req \in asked}
AskedTransactions == \E req \in asked : req.include_transactions

AskedFor(u) == \E req \in asked : Wants(req, u)

(***************************************************************************)
(* MatchesExactlyWhatWasAsked: after any sequence of subscribe requests,   *)
(* whatever shortcut matches_account takes and whatever false positives    *)
(* the Bloom filter has, an account update matches iff one of the requests *)
(* named its pubkey or its owner.                                          *)
(***************************************************************************)
MatchesExactlyWhatWasAsked ==
    \A u \in AccountUpdate : matches_account(filter, u) <=> AskedFor(u)

(***************************************************************************)
(* TransactionsStayOn: transactions are delivered iff some request opted   *)
(* in; a later account subscription does not switch them off.              *)
(***************************************************************************)
TransactionsStayOn ==
    matches_transaction(filter) <=> AskedTransactions

(***************************************************************************)
(* FilterIsUnion: the type of the filter and the inductive form of both    *)
(* properties.  The filter is one that from_sets can build from the union  *)
(* of every request so far, whatever the order with_request applied them   *)
(* in.                                                                     *)
(***************************************************************************)
FilterIsUnion ==
    /\ asked \subseteq Request
    /\ filter \in from_sets(AskedPubkeys, AskedOwners, AskedTransactions)
=============================================================================
