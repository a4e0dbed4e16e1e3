-------------------------------- MODULE Wallet --------------------------------
(***************************************************************************)
(* The coin economy: balances, the append-only ledger, purchases, chapter  *)
(* unlocks and translator earnings (service/wallet, repository/wallet).    *)
(*                                                                         *)
(* A request runs in two steps.  The service first reads what it sells (a  *)
(* chapter, an arc, a purchase), checks it and builds a command; only then *)
(* does the repository's Apply lock the reader's wallet row and run the    *)
(* command in one transaction.  The two steps are separate actions here,   *)
(* so anything may happen between them: another request of the same        *)
(* reader, a retry with the same key, a new price, an unpublished chapter, *)
(* a cancelled subscription, the clock.  Apply itself is one step as far   *)
(* as it reads what the lock on the reader's wallet row (and on the        *)
(* purchase) covers.  A bundle reads more: price and status of chapters,   *)
(* which no lock covers, so it is checked in one step and paid in a later  *)
(* one, holding the wallet row in between.                                 *)
(***************************************************************************)
EXTENDS Coins, Bundle, Sequences

CONSTANTS
    User,           \* everybody; a translator is a user too
    Reader,         \* the users who make requests in this instance
    NoWriter,       \* "no translator to credit" (writer id 0)
    Chapter,        \* chapters of one novel, by chapter number
    Arc,            \* arcs of that novel, by id
    ArcOf,          \* [Arc -> SUBSET Chapter]: each arc's chapter range
    TranslatorOf,   \* [Chapter -> User \cup {NoWriter}]
    Pack,           \* coin packs on sale
    PackCoins,      \* [Pack -> [coins, bonus]]
    Purchase,       \* ids of purchase rows
    ClientKey,      \* values of the Idempotency-Key header
    Slot,           \* requests served at the same time
    Endpoints,      \* the operations that this instance's clients use
    Price,          \* list prices a translator sets
    TipCoins,       \* amounts that readers tip
    Adjustment,     \* [coins, bonus] corrections that admins make
    Opening,        \* [User -> [coins, bonus]]: an admin grant made at the start
    BonusTTL, FeePercent, ArcBundleDiscountPercent, EarlyAccess,
    TipsEnabled, SellByArc,                     \* the novel's settings
    MaxTime, MaxRows                            \* bounds for TLC

ASSUME ChapterAssumption  == IsFiniteSet(Chapter) /\ Chapter \subseteq Nat \ {0}
ASSUME ArcAssumption      == Arc \subseteq Nat \ {0} /\ ArcOf \in [Arc -> SUBSET Chapter]
ASSUME PurchaseAssumption == Purchase \subseteq Nat \ {0}
ASSUME WriterAssumption   == Reader \subseteq User /\ NoWriter \notin User
                             /\ TranslatorOf \in [Chapter -> User \cup {NoWriter}]
ASSUME PackAssumption     == PackCoins \in [Pack -> [coins: Nat, bonus: Nat]]
ASSUME MoneyAssumption    == /\ Price \subseteq Nat
                             /\ TipCoins \subseteq 1 .. 1000
                             /\ Adjustment \subseteq [coins: Int, bonus: Int]
                             /\ Opening \in [User -> [coins: Nat, bonus: Nat]]
ASSUME PolicyAssumption   == /\ BonusTTL \in Nat
                             /\ EarlyAccess \in Nat
                             /\ FeePercent \in 0 .. 100
                             /\ ArcBundleDiscountPercent \in 0 .. 100
                             /\ TipsEnabled \in BOOLEAN
                             /\ SellByArc \in BOOLEAN
ASSUME BoundAssumption    == MaxTime \in Nat /\ MaxRows \in Nat

VARIABLES
    now,          \* the clock
    wallet,       \* [User -> Balances]: wallet_balances
    ledger,       \* [User -> Seq(Row)]: coin_ledger, in order of id
    unlocks,      \* chapter_unlocks
    earnings,     \* writer_earnings
    purchases,    \* [Purchase -> purchase row]
    sale,         \* [Chapter -> [price, published, publicAt]]
    subscribed,   \* [User -> BOOLEAN]: an active auto-unlock subscription
    request,      \* [Slot -> Command \cup {Idle}]: commands built, not yet applied
    seen,         \* [Slot -> rows of chapters]: what a bundle's check has read
    reply         \* the receipt sent in the last step, NoReply if none was

vars == <<now, wallet, ledger, unlocks, earnings, purchases, sale, subscribed,
          request, seen, reply>>
money == <<wallet, ledger, unlocks, earnings>>
world == <<now, sale, subscribed>>

-----------------------------------------------------------------------------
(* Rows, keys and commands.                                                *)

Kinds    == {"topup", "spend_unlock", "tip", "adjust", "bonus_expire"}
RefTypes == {"chapter_unlock", "arc_bundle", "auto_unlock", "chapter_tip",
             "purchase", "admin_adjust", "bonus_expire"}
NoId     == 0
Refs     == [type: RefTypes, id: Nat]
Ref(type, id) == [type |-> type, id |-> id]

(* An idempotency key, prefixed by the operation it was sent to.           *)
namespaced(op, key) == [op |-> op, key |-> key]
Ops   == {"", "unlock", "arc_unlock", "tip", "topup", "adjust", "autounlock",
          "bonus_expire"}
Keys  == [op: Ops, key: ClientKey \cup Chapter \cup 0 .. MaxTime]
NoKey == namespaced("", 0)          \* NULL

Row == [kind: Kinds, ref: Refs, delta: Int, bonusDelta: Int,
        paidAfter: Nat, bonusAfter: Nat, key: Keys]

Item == [chapter: Chapter, listPrice: Nat, coins: Nat,
         writer: User \cup {NoWriter}]

(* "coins" and "bonus" are the operation's amounts: what a spend debits,   *)
(* what a pack credits, what an adjustment adds or removes.                *)
Command == [user: User, key: Keys, at: Nat, kind: Kinds, ref: Refs,
            coins: Int, bonus: Int,
            child: {"none", "unlock", "arc", "tip", "purchase"},
            items: SUBSET Item]

Idle    == [user |-> NoWriter]
NoReply == [user |-> NoWriter]

(* The writer an item credits: nobody when the chapter has no translator   *)
(* or the buyer is the translator.                                         *)
Credited(u, c) == IF TranslatorOf[c] = u THEN NoWriter ELSE TranslatorOf[c]

ItemOf(u, c, listPrice, coins) ==
    [chapter |-> c, listPrice |-> listPrice, coins |-> coins,
     writer |-> Credited(u, c)]

(* The chapter rows that a bundle's check reads (byID); NothingRead before. *)
SaleRow     == [price: Nat, published: BOOLEAN, publicAt: Nat]
SaleRows    == UNION {[C -> SaleRow] : C \in SUBSET Chapter}
NothingRead == << >>

Owned(u)  == {r.chapter : r \in {x \in unlocks : x.user = u}}
IsPublic(c) == sale[c].publicAt <= now

-----------------------------------------------------------------------------
(* Apply: the single coin write path.                                      *)

(* A bundle that was checked holds the reader's wallet row until it ends.  *)
Holds(s) == seen[s] # NothingRead

(* Mutant: the wallet row is read without FOR UPDATE.                      *)
WalletReadOnly(s) == TRUE

(* Nobody else holds the wallet row that the command of s locks.           *)
WalletFree(s) ==
    \A t \in Slot \ {s} : Holds(t) => request[t].user # request[s].user

RowsWithKey(u, key) == {i \in DOMAIN ledger[u] : ledger[u][i].key = key}
StoredRow(cmd) == ledger[cmd.user][CHOOSE i \in RowsWithKey(cmd.user, cmd.key) : TRUE]

(* Mutant: the replay check compares with the newest row only.            *)
LatestKeyOnly(cmd) ==
    Len(ledger[cmd.user]) > 0 /\ ledger[cmd.user][Len(ledger[cmd.user])].key = cmd.key

KeyUsed(cmd) == RowsWithKey(cmd.user, cmd.key) # {}

(* Mutant: any spend answers for any other.                                *)
sameKind(row, cmd) == row.kind = cmd.kind

(* A stored row answers a command only if it is about the same target.     *)
sameTarget(row, cmd) == row.kind = cmd.kind /\ row.ref = cmd.ref

(* What a child row needs; "" when it may be written.  The unique keys     *)
(* that back the first check up (chapter_unlocks' primary key) see the     *)
(* same rows, as the wallet row is locked.                                 *)
(* Mutant: a chapter is looked for among the unlocks of single chapters,   *)
(* so one that was bought in a bundle is sold again.                       *)
UnlockErrorIgnoringBundles(cmd) ==
    IF \E x \in unlocks : /\ x.user = cmd.user
                          /\ x.chapter \in {i.chapter : i \in cmd.items}
                          /\ ledger[x.user][x.row].ref.type # "arc_bundle"
    THEN "already_unlocked" ELSE NoError

(* Mutant: the ownership check is left to the key of chapter_unlocks.       *)
UnlockErrorNever(cmd) == NoError

UnlockError(cmd) ==
    IF \E i \in cmd.items : i.chapter \in Owned(cmd.user)
    THEN "already_unlocked" ELSE NoError

(* Mutant: ownership and publication are checked again, the prices not.    *)
ArcErrorTrustingQuote(cmd) ==
    IF \/ \E i \in cmd.items : i.chapter \in Owned(cmd.user)
       \/ \E i \in cmd.items : ~sale[i.chapter].published
    THEN "bundle_stale" ELSE NoError

(* Nothing but the wallet row is locked when the chapters are read.        *)
ArcError(cmd) ==
    IF cmd.items = {} THEN "arc_already_owned"
    ELSE IF \/ \E i \in cmd.items : i.chapter \in Owned(cmd.user)
            \/ \E i \in cmd.items : ~sale[i.chapter].published
            \/ \E i \in cmd.items : sale[i.chapter].price # i.listPrice
         THEN "bundle_stale"
    ELSE NoError

(* Mutant: a purchase's status is left to the service's earlier read.      *)
PurchaseErrorIgnoringStatus(cmd) ==
    IF cmd.ref.id \notin Purchase THEN "not_found"
    ELSE IF purchases[cmd.ref.id].user # cmd.user THEN "not_found"
    ELSE NoError

PurchaseError(cmd) ==
    IF cmd.ref.id \notin Purchase THEN "not_found"
    ELSE IF purchases[cmd.ref.id].user # cmd.user THEN "not_found"
    ELSE IF purchases[cmd.ref.id].status # "pending" THEN "purchase_not_pending"
    ELSE NoError

checkChildPreconditions(cmd) ==
    CASE cmd.child = "unlock"   -> UnlockError(cmd)
      [] cmd.child = "arc"      -> ArcError(cmd)
      [] cmd.child = "purchase" -> PurchaseError(cmd)
      [] OTHER                  -> NoError

planFor(cmd) ==
    LET b == wallet[cmd.user]
    IN  CASE cmd.kind = "spend_unlock" -> PlanSpend(b, cmd.coins, cmd.at)
          [] cmd.kind = "tip"    -> PlanSpendPaidOnly(b, cmd.coins, cmd.at)
          [] cmd.kind = "topup"  -> PlanCredit(b, cmd.coins, cmd.bonus, BonusTTL, cmd.at)
          [] cmd.kind = "adjust" -> PlanAdjust(b, cmd.coins, cmd.bonus, cmd.at)
          [] OTHER               -> PlanBonusExpiry(b, cmd.at)

(* A bundle's items must add up to its debit.                              *)
Allocated(cmd, plan) ==
    cmd.child = "arc" =>
        SumFunction([i \in cmd.items |-> i.coins]) = -(plan.delta + plan.bonusDelta)

(* The preconditions hold; a bundle's did when it was checked.             *)
Passed(s) ==
    IF request[s].child = "arc" THEN Holds(s)
    ELSE checkChildPreconditions(request[s]) = NoError

Payable(cmd) ==
    /\ planFor(cmd).err = NoError
    /\ Allocated(cmd, planFor(cmd))

LedgerRow(cmd, kind, delta, bonusDelta, paidAfter, bonusAfter, key) ==
    [kind |-> kind, ref |-> cmd.ref, delta |-> delta, bonusDelta |-> bonusDelta,
     paidAfter |-> paidAfter, bonusAfter |-> bonusAfter, key |-> key]

(* Mutant: the write-off carries the same paid balance as the entry.       *)
ExpiryRowsAfterEntry(cmd, plan) ==
    IF plan.lapsed = 0 THEN << >>
    ELSE << LedgerRow(cmd, "bonus_expire", 0, -plan.lapsed,
                      plan.result.paid, 0, NoKey) >>

(* The write-off of lapsed bonus, without a key, comes before the entry.   *)
ExpiryRows(cmd, plan) ==
    IF plan.lapsed = 0 THEN << >>
    ELSE << LedgerRow(cmd, "bonus_expire", 0, -plan.lapsed,
                      wallet[cmd.user].paid, 0, NoKey) >>

EntryRow(cmd, plan) ==
    LedgerRow(cmd, cmd.kind, plan.delta, plan.bonusDelta,
              plan.result.paid, plan.result.bonus, cmd.key)

NewRows(cmd, plan) == ExpiryRows(cmd, plan) \o << EntryRow(cmd, plan) >>

UnlockRows(cmd, row) ==
    IF cmd.child \in {"unlock", "arc"}
    THEN {[user |-> cmd.user, chapter |-> i.chapter, coins |-> i.coins,
           row |-> row] : i \in cmd.items}
    ELSE {}

(* Mutant: a bundle's chapters are unlocked without crediting anybody.     *)
EarningRowsOfSingles(cmd, row) ==
    {[writer |-> i.writer, chapter |-> i.chapter, gross |-> i.coins,
      net |-> NetCoins(i.coins, FeePercent), user |-> cmd.user, row |-> row,
      kind |-> IF cmd.child = "tip" THEN "tip" ELSE "unlock"] :
        i \in {x \in cmd.items : x.writer # NoWriter /\ cmd.child # "arc"}}

(* Mutant: translators are credited the list price of a discounted chapter.*)
EarningRowsAtListPrice(cmd, row) ==
    {[writer |-> i.writer, chapter |-> i.chapter, gross |-> i.listPrice,
      net |-> NetCoins(i.listPrice, FeePercent), user |-> cmd.user, row |-> row,
      kind |-> IF cmd.child = "tip" THEN "tip" ELSE "unlock"] :
        i \in {x \in cmd.items : x.writer # NoWriter}}

EarningRows(cmd, row) ==
    {[writer |-> i.writer, chapter |-> i.chapter, gross |-> i.coins,
      net |-> NetCoins(i.coins, FeePercent), user |-> cmd.user, row |-> row,
      kind |-> IF cmd.child = "tip" THEN "tip" ELSE "unlock"] :
        i \in {x \in cmd.items : x.writer # NoWriter}}

Receipt(cmd, row) == [user |-> cmd.user, ref |-> cmd.ref, row |-> row]

(* The transaction ends and the lock is gone.                              *)
Finish(s) ==
    /\ request' = [request EXCEPT ![s] = Idle]
    /\ seen' = [seen EXCEPT ![s] = NothingRead]

(* A bundle has locked the wallet, found its key unused and its quote      *)
(* still true.                                                             *)
CheckBundle(s) ==
    LET cmd == request[s]
    IN  /\ cmd # Idle
        /\ cmd.child = "arc"
        /\ ~Holds(s)
        /\ WalletFree(s)
        /\ ~KeyUsed(cmd)
        /\ checkChildPreconditions(cmd) = NoError
        /\ seen' = [seen EXCEPT ![s] = [c \in {i.chapter : i \in cmd.items} |-> sale[c]]]
        /\ reply' = NoReply
        /\ UNCHANGED <<money, purchases, world, request>>

(* The key was used before for this target: nothing is written.            *)
ApplyReplay(s) ==
    LET cmd == request[s]
    IN  /\ cmd # Idle
        /\ WalletFree(s)
        /\ KeyUsed(cmd)
        /\ sameTarget(StoredRow(cmd), cmd)
        /\ reply' = Receipt(cmd, StoredRow(cmd))
        /\ Finish(s)
        /\ UNCHANGED <<money, purchases, world>>

(* The transaction is rolled back.                                         *)
ApplyRefused(s) ==
    LET cmd == request[s]
    IN  /\ cmd # Idle
        /\ WalletFree(s)
        /\ \/ KeyUsed(cmd) /\ ~sameTarget(StoredRow(cmd), cmd)
           \/ /\ ~KeyUsed(cmd) /\ ~Holds(s)
              /\ checkChildPreconditions(cmd) # NoError
           \/ ~KeyUsed(cmd) /\ Passed(s) /\ ~Payable(cmd)
        /\ reply' = NoReply
        /\ Finish(s)
        /\ UNCHANGED <<money, purchases, world>>

ApplyCommit(s) ==
    LET cmd  == request[s]
        plan == planFor(cmd)
        rows == ledger[cmd.user] \o NewRows(cmd, plan)
    IN  /\ cmd # Idle
        /\ WalletFree(s)
        /\ ~KeyUsed(cmd)
        /\ Passed(s)
        /\ Payable(cmd)
        /\ wallet'   = [wallet EXCEPT ![cmd.user] = plan.result]
        /\ ledger'   = [ledger EXCEPT ![cmd.user] = rows]
        /\ unlocks'  = unlocks \cup UnlockRows(cmd, Len(rows))
        /\ earnings' = earnings \cup EarningRows(cmd, Len(rows))
        /\ purchases' = IF cmd.child = "purchase"
                        THEN [purchases EXCEPT ![cmd.ref.id].status = "succeeded"]
                        ELSE purchases
        /\ reply' = Receipt(cmd, EntryRow(cmd, plan))
        /\ Finish(s)
        /\ UNCHANGED world

(* The request dies before its transaction commits: a cancelled context,   *)
(* a crashed server.                                                       *)
Abandon(s) ==
    /\ request[s] # Idle
    /\ reply' = NoReply
    /\ Finish(s)
    /\ UNCHANGED <<money, purchases, world>>

-----------------------------------------------------------------------------
(* The services: each reads, checks and builds a command.                  *)

Submit(s, cmd) ==
    /\ request[s] = Idle
    /\ Len(ledger[cmd.user]) < MaxRows
    /\ request' = [request EXCEPT ![s] = cmd]
    /\ reply' = NoReply
    /\ UNCHANGED <<money, purchases, world, seen>>

Spend(u, key, ref, coins, child, items) ==
    [user |-> u, key |-> key, at |-> now, kind |-> "spend_unlock", ref |-> ref,
     coins |-> coins, bonus |-> 0, child |-> child, items |-> items]

ForSale(c) == sale[c].published /\ sale[c].price > 0

UnlockChapter(s, u, c, k) ==
    /\ "unlock" \in Endpoints
    /\ ForSale(c)
    /\ IsPublic(c) \/ subscribed[u]
    /\ Submit(s, Spend(u, namespaced("unlock", k), Ref("chapter_unlock", c),
                       sale[c].price, "unlock",
                       {ItemOf(u, c, sale[c].price, sale[c].price)}))

(* Called by the auto-unlock job for a pair that its scan found; neither   *)
(* the subscription nor its cap is read again.                             *)
AutoUnlockChapter(s, u, c) ==
    /\ "auto_unlock" \in Endpoints
    /\ ForSale(c)
    /\ Submit(s, Spend(u, namespaced("autounlock", c), Ref("auto_unlock", c),
                       sale[c].price, "unlock",
                       {ItemOf(u, c, sale[c].price, sale[c].price)}))

(* The chapters of an arc that the reader still needs, at list price.      *)
QuotedPrices(u, a) ==
    [c \in {x \in ArcOf[a] : /\ ForSale(x)
                             /\ x \notin Owned(u)
                             /\ IsPublic(x) \/ subscribed[u]}
        |-> sale[c].price]

QuoteArcBundle(u, a) == QuoteBundle(QuotedPrices(u, a), ArcBundleDiscountPercent)

UnlockArc(s, u, a, k) ==
    LET key    == namespaced("arc_unlock", k)
        quote  == QuoteArcBundle(u, a)
        prices == QuotedPrices(u, a)
    IN  /\ "arc_unlock" \in Endpoints
        /\ RowsWithKey(u, key) = {}
        /\ SellByArc
        /\ quote.err = NoError
        /\ Submit(s, Spend(u, key, Ref("arc_bundle", a), quote.total, "arc",
                           {ItemOf(u, c, prices[c], quote.perChapter[c]) :
                                c \in DOMAIN prices}))

(* A bundle recognises a retry before it quotes, by its key alone.         *)
ReplayByKey(u, a, k) ==
    LET key == namespaced("arc_unlock", k)
    IN  /\ "arc_unlock" \in Endpoints
        /\ RowsWithKey(u, key) # {}
        /\ reply' = [user |-> u, ref |-> Ref("arc_bundle", a),
                     row |-> ledger[u][CHOOSE i \in RowsWithKey(u, key) : TRUE]]
        /\ UNCHANGED <<money, purchases, world, request, seen>>

TipChapter(s, u, c, coins, k) ==
    /\ "tip" \in Endpoints
    /\ sale[c].published
    /\ TipsEnabled
    /\ TranslatorOf[c] \notin {NoWriter, u}
    /\ Submit(s, [user |-> u, key |-> namespaced("tip", k), at |-> now,
                  kind |-> "tip", ref |-> Ref("chapter_tip", c), coins |-> coins,
                  bonus |-> 0, child |-> "tip",
                  items |-> {ItemOf(u, c, sale[c].price, coins)}])

CompletePurchase(s, u, p, k) ==
    /\ "topup" \in Endpoints
    /\ purchases[p].status # "none"
    /\ purchases[p].user = u
    /\ LET pack == PackCoins[purchases[p].pack]
       IN  Submit(s, [user |-> u, key |-> namespaced("topup", k), at |-> now,
                      kind |-> "topup", ref |-> Ref("purchase", p),
                      coins |-> pack.coins, bonus |-> pack.bonus,
                      child |-> "purchase", items |-> {}])

Adjust(s, u, a, k) ==
    /\ "adjust" \in Endpoints
    /\ Submit(s, [user |-> u, key |-> namespaced("adjust", k), at |-> now,
                  kind |-> "adjust", ref |-> Ref("admin_adjust", NoId),
                  coins |-> a.coins, bonus |-> a.bonus, child |-> "none",
                  items |-> {}])

(* Called by the nightly job for a wallet that its scan found lapsed.  One *)
(* unit of the clock is a day, so the dated key is the clock.              *)
ExpireBonus(s, u) ==
    /\ "bonus_expire" \in Endpoints
    /\ wallet[u].bonus > 0
    /\ Expired(wallet[u], now)
    /\ Submit(s, [user |-> u, key |-> namespaced("bonus_expire", now), at |-> now,
                  kind |-> "bonus_expire", ref |-> Ref("bonus_expire", NoId),
                  coins |-> 0, bonus |-> 0, child |-> "none", items |-> {}])

-----------------------------------------------------------------------------
(* Purchases: opened and failed without touching the wallet.               *)

NoPurchase == [status |-> "none", user |-> NoWriter, pack |-> NoWriter, key |-> NoWriter]

PurchaseRows == [status: {"pending", "succeeded", "failed"}, user: User,
                 pack: Pack, key: ClientKey]

UnusedPurchases == {p \in Purchase : purchases[p].status = "none"}

(* Idempotent on (user, key): a used key returns the row it made.          *)
CreatePurchase(u, pack, k) ==
    /\ "topup" \in Endpoints
    /\ ~\E p \in Purchase : purchases[p].user = u /\ purchases[p].key = k
    /\ \E p \in UnusedPurchases :
          /\ \A q \in UnusedPurchases : p <= q
          /\ purchases' = [purchases EXCEPT ![p] =
                [status |-> "pending", user |-> u, pack |-> pack, key |-> k]]
    /\ reply' = NoReply
    /\ UNCHANGED <<money, world, request, seen>>

FailPurchase(u, p) ==
    /\ "topup" \in Endpoints
    /\ purchases[p].user = u
    /\ purchases[p].status = "pending"
    /\ purchases' = [purchases EXCEPT ![p].status = "failed"]
    /\ reply' = NoReply
    /\ UNCHANGED <<money, world, request, seen>>

-----------------------------------------------------------------------------
(* The rest of the platform, as far as a sale depends on it.               *)

World(newSale, newSubscribed, newNow) ==
    /\ sale' = newSale
    /\ subscribed' = newSubscribed
    /\ now' = newNow
    /\ reply' = NoReply
    /\ UNCHANGED <<money, purchases, request, seen>>

RepriceChapter(c, price) ==
    /\ "reprice" \in Endpoints
    /\ World([sale EXCEPT ![c].price = price], subscribed, now)

PublishChapter(c) ==
    /\ "publish" \in Endpoints
    /\ World([sale EXCEPT ![c] = [price |-> @.price, published |-> TRUE,
                                  publicAt |-> now + EarlyAccess]],
             subscribed, now)

UnpublishChapter(c) ==
    /\ "publish" \in Endpoints
    /\ World([sale EXCEPT ![c] = [price |-> @.price, published |-> FALSE,
                                  publicAt |-> 0]],
             subscribed, now)

SetSubscription(u, active) ==
    /\ "subscribe" \in Endpoints
    /\ World(sale, [subscribed EXCEPT ![u] = active], now)

Tick == now < MaxTime /\ World(sale, subscribed, now + 1)

-----------------------------------------------------------------------------

OpeningRows(u) ==
    IF Opening[u].coins = 0 /\ Opening[u].bonus = 0 THEN << >>
    ELSE << [kind |-> "adjust", ref |-> Ref("admin_adjust", NoId),
             delta |-> Opening[u].coins, bonusDelta |-> Opening[u].bonus,
             paidAfter |-> Opening[u].coins, bonusAfter |-> Opening[u].bonus,
             key |-> namespaced("adjust", 0)] >>

Init ==
    /\ now = 0
    /\ wallet = [u \in User |-> Bal(Opening[u].coins, Opening[u].bonus, NoExpiry)]
    /\ ledger = [u \in User |-> OpeningRows(u)]
    /\ unlocks = {}
    /\ earnings = {}
    /\ purchases = [p \in Purchase |-> NoPurchase]
    /\ \E price \in [Chapter -> Price] :
          sale = [c \in Chapter |->
                    [price |-> price[c], published |-> TRUE, publicAt |-> 0]]
    /\ subscribed = [u \in User |-> FALSE]
    /\ request = [s \in Slot |-> Idle]
    /\ seen = [s \in Slot |-> NothingRead]
    /\ reply = NoReply

Next ==
    \/ \E s \in Slot : \/ ApplyReplay(s)
                       \/ ApplyRefused(s)
                       \/ CheckBundle(s)
                       \/ ApplyCommit(s)
                       \/ Abandon(s)
    \/ \E s \in Slot, u \in Reader, k \in ClientKey :
          \/ \E c \in Chapter : \/ UnlockChapter(s, u, c, k)
                                \/ \E x \in TipCoins : TipChapter(s, u, c, x, k)
          \/ \E a \in Arc : UnlockArc(s, u, a, k)
          \/ \E p \in Purchase : CompletePurchase(s, u, p, k)
          \/ \E a \in Adjustment : Adjust(s, u, a, k)
    \/ \E s \in Slot, u \in Reader : \/ \E c \in Chapter : AutoUnlockChapter(s, u, c)
                                   \/ ExpireBonus(s, u)
    \/ \E u \in Reader, k \in ClientKey : \/ \E a \in Arc : ReplayByKey(u, a, k)
                                        \/ \E p \in Pack : CreatePurchase(u, p, k)
    \/ \E u \in Reader, p \in Purchase : FailPurchase(u, p)
    \/ \E c \in Chapter : \/ \E p \in Price : RepriceChapter(c, p)
                          \/ PublishChapter(c)
                          \/ UnpublishChapter(c)
    \/ \E u \in Reader, active \in BOOLEAN : SetSubscription(u, active)
    \/ Tick

Spec == Init /\ [][Next]_vars

-----------------------------------------------------------------------------
(* Every balance is a natural number, and every row, command and key is    *)
(* well formed: no interleaving of spends, write-offs and corrections      *)
(* overdraws a wallet (the CHECKs on wallet_balances never fire).          *)
TypeOK ==
    /\ now \in 0 .. MaxTime
    /\ wallet \in [User -> Balances]
    /\ ledger \in [User -> Seq(Row)]
    /\ unlocks \subseteq [user: User, chapter: Chapter, coins: Nat, row: Nat]
    /\ earnings \subseteq [writer: User, chapter: Chapter, gross: Nat, net: Int,
                           user: User, row: Nat, kind: {"unlock", "tip"}]
    /\ purchases \in [Purchase -> PurchaseRows \cup {NoPurchase}]
    /\ sale \in [Chapter -> SaleRow]
    /\ subscribed \in [User -> BOOLEAN]
    /\ request \in [Slot -> Command \cup {Idle}]
    /\ seen \in [Slot -> SaleRows]
    /\ reply \in [user: User, ref: Refs, row: Row] \cup {NoReply}

(* Each ledger row continues the row before it, and the wallet is where    *)
(* the last row left it, so the ledger explains every balance row by row   *)
(* (the reason why the write-off is written before the entry).             *)
PaidBefore(l, i)  == IF i = 1 THEN 0 ELSE l[i - 1].paidAfter
BonusBefore(l, i) == IF i = 1 THEN 0 ELSE l[i - 1].bonusAfter

Explains(l, b) ==
    /\ \A i \in 1 .. Len(l) :
          /\ l[i].paidAfter  = PaidBefore(l, i) + l[i].delta
          /\ l[i].bonusAfter = BonusBefore(l, i) + l[i].bonusDelta
    /\ b.paid  = PaidBefore(l, Len(l) + 1)
    /\ b.bonus = BonusBefore(l, Len(l) + 1)

RunningTotal == \A u \in User : Explains(ledger[u], wallet[u])

(* The invariant that the reconcile job looks for and that the docs state: *)
(* the ledger's deltas add up to the balance, for both kinds of coins.     *)
Reconciles ==
    \A u \in User :
        LET l == ledger[u]
        IN  /\ SumFunction([i \in DOMAIN l |-> l[i].delta]) = wallet[u].paid
            /\ SumFunction([i \in DOMAIN l |-> l[i].bonusDelta]) = wallet[u].bonus

(* However often a request is retried or sent twice at once, its key has   *)
(* at most one ledger row.                                                 *)
OneRowPerKey ==
    \A u \in User : \A i, j \in DOMAIN ledger[u] :
        ledger[u][i].key = ledger[u][j].key /\ ledger[u][i].key # NoKey => i = j

(* A reader pays for a chapter once.  Single unlocks, auto-unlocks and     *)
(* bundles of the same chapter may race: there is one unlock row per       *)
(* reader and chapter, every debit for a single chapter is the one its     *)
(* unlock row names, and every unlock row names a debit.                   *)
OneDebitPerChapter ==
    /\ \A x, y \in unlocks : x.user = y.user /\ x.chapter = y.chapter => x = y
    /\ \A u \in User : \A i \in DOMAIN ledger[u] :
          LET row == ledger[u][i]
          IN  row.kind = "spend_unlock" /\ row.ref.type # "arc_bundle" =>
                [user |-> u, chapter |-> row.ref.id, row |-> i,
                 coins |-> -(row.delta + row.bonusDelta)] \in unlocks
    /\ \A x \in unlocks :
          /\ x.row \in DOMAIN ledger[x.user]
          /\ ledger[x.user][x.row].kind = "spend_unlock"

(* A purchase credits its owner's wallet once if it succeeded and never    *)
(* otherwise, whatever completions, retries and failures of it race.       *)
CreditsOf(l, p) ==
    UNION {{<<u, i>> : i \in {j \in DOMAIN l[u] : /\ l[u][j].kind = "topup"
                                                /\ l[u][j].ref = Ref("purchase", p)}} :
             u \in User}

PurchaseCreditedOnce ==
    \A p \in Purchase :
        IF purchases[p].status = "succeeded"
        THEN \E i \in DOMAIN ledger[purchases[p].user] :
                CreditsOf(ledger, p) = {<<purchases[p].user, i>>}
        ELSE CreditsOf(ledger, p) = {}

(* The child rows of a debit describe the same money as the debit: the     *)
(* unlock rows add up to it; the translator of each chapter is credited,   *)
(* once, with what the reader paid for it (the whole debit for a tip);     *)
(* nobody else is, and nobody for reading themselves.                      *)
DebitAccounted ==
    \A u \in User : \A i \in DOMAIN ledger[u] :
        LET row    == ledger[u][i]
            debit  == -(row.delta + row.bonusDelta)
            bought == {x \in unlocks : x.user = u /\ x.row = i}
            earned == {e \in earnings : e.user = u /\ e.row = i}
        IN  /\ row.kind = "spend_unlock" =>
                  /\ SumFunction([x \in bought |-> x.coins]) = debit
                  /\ \A x \in bought : TranslatorOf[x.chapter] \notin {NoWriter, u} =>
                        \E e \in earned : e.chapter = x.chapter
                  /\ \A e \in earned : \E x \in bought :
                        x.chapter = e.chapter /\ x.coins = e.gross
                  /\ \A e, f \in earned : e.chapter = f.chapter => e = f
            /\ row.kind = "tip" =>
                  \E e \in earned : /\ earned = {e} /\ e.gross = debit
                                    /\ e.chapter = row.ref.id
            /\ row.kind \notin {"spend_unlock", "tip"} => bought = {} /\ earned = {}
            /\ \A e \in earned : /\ e.writer = TranslatorOf[e.chapter] /\ e.writer # u
                                  /\ e.net \in 0 .. e.gross

(* A receipt is about what was asked for: a key that is used again for     *)
(* another target is a conflict, never an answer (the comment of           *)
(* findReplay).                                                            *)
ReceiptNamesTarget == reply # NoReply => reply.row.ref = reply.ref

(* What holds of it in the code: a receipt is of the operation that was    *)
(* asked for, and of its target unless a bundle was asked for, which       *)
(* recognises a retry by the key alone.                                    *)
ReceiptNamesOperation ==
    reply # NoReply =>
        /\ reply.row.ref.type = reply.ref.type
        /\ reply.ref.type # "arc_bundle" => reply.row.ref = reply.ref

(* A reader who reads the ledger and the receipts learns what the coins    *)
(* went to: every debit has its child rows, every receipt its operation.   *)
ReceiptsTruthful == DebitAccounted /\ ReceiptNamesOperation

(* A stale quote never buys: a bundle is paid at the discounted sum of     *)
(* prices that its chapters had, all published, at one moment when the     *)
(* wallet was locked already, and the reader owns none of them when it is  *)
(* paid.  (A price that changes after that moment is not seen.)            *)
PaidAsSeen(s, u, bought, debit) ==
    /\ request[s] # Idle /\ request[s].user = u
    /\ DOMAIN seen[s] = bought
    /\ \A c \in bought : seen[s][c].published
    /\ debit = QuoteBundle([c \in bought |-> seen[s][c].price],
                           ArcBundleDiscountPercent).total

BundleAtCheckedPrices ==
    [][\A u \in User : \A i \in DOMAIN ledger'[u] \ DOMAIN ledger[u] :
          LET row    == ledger'[u][i]
              bought == {x.chapter : x \in unlocks' \ unlocks}
          IN  row.kind = "spend_unlock" /\ row.ref.type = "arc_bundle" =>
                /\ bought # {}
                /\ bought \cap Owned(u) = {}
                /\ \E s \in Slot :
                      PaidAsSeen(s, u, bought, -(row.delta + row.bonusDelta))]_vars

-----------------------------------------------------------------------------
(* The wallet implements the shop: its readers' coins, possessions and     *)
(* used keys behave as Shop says, so every step of the two-step requests   *)
(* is one whole operation or nothing.                                      *)
KeysOf(u) == {ledger[u][i].key : i \in DOMAIN ledger[u]} \ {NoKey}

AbstractShop == INSTANCE Shop WITH
    Reader <- User, Item <- Chapter,
    Key    <- Keys \ {NoKey},
    BuyKey <- {k \in Keys : k.op \in {"unlock", "arc_unlock", "autounlock"}},
    coins  <- [u \in User |-> wallet[u].paid + wallet[u].bonus],
    owned  <- [u \in User |-> Owned(u)],
    done   <- [u \in User |-> KeysOf(u)]

ImplementsShop == AbstractShop!ShopSpec
=============================================================================
