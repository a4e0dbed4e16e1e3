----------------------------- MODULE WalletProofs -----------------------------
(***************************************************************************)
(* Theorems about Wallet for every value of its constants: types, what the *)
(* ledger, the unlocks, the earnings and the purchases agree on, that      *)
(* receipts and bundles tell the truth, and that the two-step requests     *)
(* implement the one-step Shop.                                            *)
(***************************************************************************)
EXTENDS Wallet, SumTheorems, TLAPS

USE DEF NoError

-----------------------------------------------------------------------------
(* The planners.                                                           *)

(* What an accepted plan is: it moves the balance by its deltas, after     *)
(* writing off all of the bonus or none.                                   *)
PlanOK(b, p) ==
    /\ p.lapsed \in {0, b.bonus}
    /\ p.delta \in Int /\ p.bonusDelta \in Int
    /\ p.result \in Balances
    /\ p.result.paid = b.paid + p.delta
    /\ p.result.bonus = b.bonus - p.lapsed + p.bonusDelta

LEMMA SpendPlan ==
    ASSUME NEW b \in Balances, NEW amount \in Int, NEW t \in Nat,
           PlanSpend(b, amount, t).err = NoError
    PROVE  LET p == PlanSpend(b, amount, t)
           IN  PlanOK(b, p) /\ amount > 0 /\ p.delta + p.bonusDelta = -amount
<1>1. b.paid \in Nat /\ b.bonus \in Nat /\ b.expiresAt \in Nat \cup {NoExpiry}
  BY DEF Balances
<1> QED BY <1>1 DEF PlanSpend, PlanOK, Planned, Refused, Lapsed, Surviving, Bal,
                    DeadlineFor, Balances, NoExpiry

LEMMA PaidOnlyPlan ==
    ASSUME NEW b \in Balances, NEW amount \in Int, NEW t \in Nat,
           PlanSpendPaidOnly(b, amount, t).err = NoError
    PROVE  PlanOK(b, PlanSpendPaidOnly(b, amount, t))
<1>1. b.paid \in Nat /\ b.bonus \in Nat /\ b.expiresAt \in Nat \cup {NoExpiry}
  BY DEF Balances
<1> QED BY <1>1 DEF PlanSpendPaidOnly, PlanOK, Planned, Refused, Lapsed, Surviving,
                    Bal, Balances, NoExpiry

LEMMA CreditPlan ==
    ASSUME NEW b \in Balances, NEW coins \in Int, NEW bonus \in Int, NEW t \in Nat,
           PlanCredit(b, coins, bonus, BonusTTL, t).err = NoError
    PROVE  PlanOK(b, PlanCredit(b, coins, bonus, BonusTTL, t))
<1>1. b.paid \in Nat /\ b.bonus \in Nat /\ b.expiresAt \in Nat \cup {NoExpiry}
  BY DEF Balances
<1>2. BonusTTL \in Nat
  BY PolicyAssumption
<1> QED BY <1>1, <1>2 DEF PlanCredit, PlanOK, Planned, Refused, Lapsed, Surviving,
                    Bal, DeadlineFor, Balances, NoExpiry

LEMMA AdjustPlan ==
    ASSUME NEW b \in Balances, NEW coins \in Int, NEW bonus \in Int, NEW t \in Nat,
           PlanAdjust(b, coins, bonus, t).err = NoError
    PROVE  PlanOK(b, PlanAdjust(b, coins, bonus, t))
<1>1. b.paid \in Nat /\ b.bonus \in Nat /\ b.expiresAt \in Nat \cup {NoExpiry}
  BY DEF Balances
<1> QED BY <1>1 DEF PlanAdjust, PlanOK, Planned, Refused, Bal, DeadlineFor,
                    Balances, NoExpiry

LEMMA ExpiryPlan ==
    ASSUME NEW b \in Balances, NEW t \in Nat, PlanBonusExpiry(b, t).err = NoError
    PROVE  PlanOK(b, PlanBonusExpiry(b, t))
<1>1. b.paid \in Nat /\ b.bonus \in Nat /\ b.expiresAt \in Nat \cup {NoExpiry}
  BY DEF Balances
<1> QED BY <1>1 DEF PlanBonusExpiry, PlanOK, Planned, Refused, Bal, Balances, NoExpiry

(* Every planner at once, as Apply uses it.                                *)
LEMMA PlanForOK ==
    ASSUME TypeOK, NEW cmd \in Command, planFor(cmd).err = NoError
    PROVE  PlanOK(wallet[cmd.user], planFor(cmd))
<1>1. /\ wallet[cmd.user] \in Balances
      /\ cmd.coins \in Int /\ cmd.bonus \in Int /\ cmd.at \in Nat
      /\ cmd.kind \in Kinds
  BY DEF TypeOK, Command
<1>2. CASE cmd.kind = "spend_unlock"
  BY <1>1, <1>2, SpendPlan DEF planFor
<1>3. CASE cmd.kind = "tip"
  BY <1>1, <1>3, PaidOnlyPlan DEF planFor
<1>4. CASE cmd.kind = "topup"
  BY <1>1, <1>4, CreditPlan DEF planFor
<1>5. CASE cmd.kind = "adjust"
  BY <1>1, <1>5, AdjustPlan DEF planFor
<1>6. CASE cmd.kind = "bonus_expire"
  BY <1>1, <1>6, ExpiryPlan DEF planFor
<1> QED BY <1>1, <1>2, <1>3, <1>4, <1>5, <1>6 DEF Kinds

-----------------------------------------------------------------------------
(* The bundle quote.                                                       *)

LEMMA AllocationType ==
    ASSUME NEW prices, IsFiniteSet(DOMAIN prices),
           \A c \in DOMAIN prices : prices[c] \in Nat, NEW total \in Nat
    PROVE  AllocateProportional(prices, total) \in [DOMAIN prices -> Nat]
<1> DEFINE D == DOMAIN prices
           sum == SumFunction(prices)
<1>1. sum \in Nat
  BY SumIsNat DEF SumFunction
<1>2. CASE sum <= 0
  BY <1>2 DEF AllocateProportional
<1>3. CASE sum > 0
  <2>1. \A c \in D : (prices[c] * total) \div sum \in Nat
    <3> TAKE c \in D
    <3> DEFINE m == prices[c] * total
    <3>1. m \in Nat
      <4>1. prices[c] \in Nat OBVIOUS
      <4> QED BY <4>1
    <3> HIDE DEF m, sum
    <3>2. m \div sum \in Nat BY <3>1, <1>1, <1>3
    <3> QED BY <3>2 DEF m
  <2>2. Floor(prices, total) \in [D -> Nat]
    BY <2>1 DEF Floor
  <2> HIDE DEF sum
  <2>3. CASE total = 0
    BY <2>3 DEF AllocateProportional
  <2>4. CASE total > 0
    BY <2>2, <2>4, <1>1, <1>3 DEF AllocateProportional, sum
  <2> QED BY <2>3, <2>4
<1> QED BY <1>1, <1>2, <1>3

LEMMA QuoteType ==
    ASSUME NEW prices, IsFiniteSet(DOMAIN prices),
           \A c \in DOMAIN prices : prices[c] \in Nat,
           QuoteBundle(prices, ArcBundleDiscountPercent).err = NoError
    PROVE  LET q == QuoteBundle(prices, ArcBundleDiscountPercent)
           IN  q.total \in Nat /\ q.perChapter \in [DOMAIN prices -> Nat]
<1> DEFINE gross == SumFunction(prices)
           discount == (gross * Clamp(ArcBundleDiscountPercent)) \div 100
           q == QuoteBundle(prices, ArcBundleDiscountPercent)
<1>1. gross \in Nat
  BY SumIsNat DEF SumFunction
<1>2. Clamp(ArcBundleDiscountPercent) = ArcBundleDiscountPercent
      /\ ArcBundleDiscountPercent \in 0 .. 100
  BY PolicyAssumption DEF Clamp
<1>3. discount \in 0 .. gross
  <2> DEFINE m == gross * ArcBundleDiscountPercent
  <2>1. m \in Nat /\ m <= gross * 100
    <3> HIDE DEF gross
    <3> QED BY <1>1, <1>2
  <2> HIDE DEF m, gross
  <2>2. m \div 100 \in 0 .. gross BY <2>1, <1>1
  <2> QED BY <2>2, <1>2 DEF m
<1> HIDE DEF gross, discount
<1>4. q.total = gross - discount
      /\ q.perChapter = AllocateProportional(prices, gross - discount)
  BY DEF QuoteBundle, gross, discount
<1>5. gross - discount \in Nat
  BY <1>1, <1>3
<1> QED BY <1>4, <1>5, AllocationType

-----------------------------------------------------------------------------
(* Type correctness.                                                       *)

LEMMA IdleIsNoCommand ==
    ASSUME TypeOK, NEW s \in Slot, request[s] # Idle
    PROVE  request[s] \in Command
BY DEF TypeOK

LEMMA KeyTypes ==
    /\ \A op \in Ops, k \in ClientKey : namespaced(op, k) \in Keys
    /\ \A op \in Ops, c \in Chapter : namespaced(op, c) \in Keys
    /\ \A op \in Ops, t \in 0 .. MaxTime : namespaced(op, t) \in Keys
    /\ NoKey \in Keys
BY BoundAssumption DEF namespaced, Keys, NoKey, Ops

(* A committed command writes well-formed rows.                            *)
LEMMA RowTypes ==
    ASSUME TypeOK, NEW cmd \in Command, planFor(cmd).err = NoError
    PROVE  /\ NewRows(cmd, planFor(cmd)) \in Seq(Row)
           /\ EntryRow(cmd, planFor(cmd)) \in Row
           /\ ExpiryRows(cmd, planFor(cmd)) \in Seq(Row)
<1> DEFINE plan == planFor(cmd)
           b == wallet[cmd.user]
<1>1. PlanOK(b, plan) /\ b \in Balances
  BY PlanForOK DEF TypeOK, Command
<1> HIDE DEF plan, b
<1>2. /\ b.bonus \in Nat /\ b.paid \in Nat
      /\ plan.lapsed \in Nat /\ plan.delta \in Int /\ plan.bonusDelta \in Int
      /\ plan.result.paid \in Nat /\ plan.result.bonus \in Nat
  BY <1>1 DEF PlanOK, Balances
<1>3. /\ cmd.kind \in Kinds /\ cmd.ref \in Refs /\ cmd.key \in Keys
      /\ NoKey \in Keys /\ "bonus_expire" \in Kinds
  BY KeyTypes DEF Command, Kinds
<1>4. EntryRow(cmd, plan) \in Row
  BY <1>2, <1>3 DEF EntryRow, LedgerRow, Row
<1>5. LedgerRow(cmd, "bonus_expire", 0, -plan.lapsed, b.paid, 0, NoKey) \in Row
  BY <1>2, <1>3 DEF LedgerRow, Row
<1>6. ExpiryRows(cmd, plan) \in Seq(Row)
  BY <1>5 DEF ExpiryRows, b
<1>7. NewRows(cmd, plan) \in Seq(Row)
  BY <1>4, <1>6 DEF NewRows
<1> QED BY <1>4, <1>6, <1>7 DEF plan

LEMMA ItemTypes ==
    ASSUME NEW u \in User, NEW c \in Chapter, NEW listPrice \in Nat, NEW coins \in Nat
    PROVE  ItemOf(u, c, listPrice, coins) \in Item
BY WriterAssumption DEF ItemOf, Item, Credited

LEMMA SpendType ==
    ASSUME TypeOK, NEW u \in User, NEW key \in Keys, NEW ref \in Refs,
           NEW coins \in Int, NEW items \in SUBSET Item,
           NEW child \in {"unlock", "arc"}
    PROVE  Spend(u, key, ref, coins, child, items) \in Command
BY BoundAssumption DEF TypeOK, Spend, Command, Kinds

(* What the services know of the commands that they build, beyond types:   *)
(* the kind, the reference, the key and the child rows of a command agree, *)
(* a bundle costs what its own list prices come to, and a tip has a        *)
(* translator to go to.                                                    *)
BuyOps == {"unlock", "arc_unlock", "autounlock"}

PricedAt(cmd, p) ==
    /\ p = [c \in DOMAIN p |-> p[c]]
    /\ DOMAIN p = {i.chapter : i \in cmd.items} /\ DOMAIN p # {}
    /\ \A i \in cmd.items : i.listPrice = p[i.chapter]
    /\ cmd.coins = QuoteBundle(p, ArcBundleDiscountPercent).total

Coherent(cmd) ==
    /\ cmd.key # NoKey
    /\ cmd.kind = "spend_unlock" <=> cmd.child \in {"unlock", "arc"}
    /\ cmd.kind = "spend_unlock" <=> cmd.key.op \in BuyOps
    /\ cmd.kind = "tip" <=> cmd.child = "tip"
    /\ cmd.kind = "topup" <=> cmd.child = "purchase"
    /\ cmd.kind = "topup" => cmd.ref.type = "purchase"
    /\ cmd.child \in {"none", "purchase"} => cmd.items = {}
    /\ cmd.child = "arc" <=> cmd.ref.type = "arc_bundle"
    /\ cmd.child \in {"unlock", "tip"} =>
          \E i \in Item : /\ cmd.items = {i}
                          /\ i.chapter = cmd.ref.id
                          /\ i.coins = cmd.coins
    /\ \A i, j \in cmd.items : i.chapter = j.chapter => i = j
    /\ \A i \in cmd.items : i.writer = Credited(cmd.user, i.chapter)
    /\ cmd.key.op = "arc_unlock" => cmd.ref.type = "arc_bundle"
    /\ IsFiniteSet(cmd.items)
    /\ cmd.child = "arc" => \E p : PricedAt(cmd, p)
    /\ cmd.child = "tip" => \A i \in cmd.items : i.writer # NoWriter

Submits(s) == \E cmd \in Command : Coherent(cmd) /\ Submit(s, cmd)

LEMMA ItemFields ==
    ASSUME NEW u \in User, NEW c \in Chapter, NEW listPrice, NEW coins
    PROVE  LET i == ItemOf(u, c, listPrice, coins)
           IN  /\ i.chapter = c /\ i.coins = coins /\ i.listPrice = listPrice
               /\ i.writer = Credited(u, c)
               /\ TranslatorOf[c] \notin {NoWriter, u} => i.writer # NoWriter
BY WriterAssumption DEF ItemOf, Credited

LEMMA SpendFields ==
    ASSUME NEW u, NEW key, NEW ref, NEW coins, NEW child, NEW items
    PROVE  LET cmd == Spend(u, key, ref, coins, child, items)
           IN  /\ cmd.user = u /\ cmd.key = key /\ cmd.ref = ref /\ cmd.coins = coins
               /\ cmd.child = child /\ cmd.items = items /\ cmd.kind = "spend_unlock"
BY DEF Spend

LEMMA KeyFields ==
    ASSUME NEW op, NEW k
    PROVE  namespaced(op, k).op = op /\ (op # "" => namespaced(op, k) # NoKey)
BY DEF namespaced, NoKey

LEMMA UnlockCommand ==
    ASSUME TypeOK, NEW u \in User, NEW c \in Chapter, NEW op \in {"unlock", "autounlock"},
           NEW k, namespaced(op, k) \in Keys, NEW type \in {"chapter_unlock", "auto_unlock"}
    PROVE  LET cmd == Spend(u, namespaced(op, k), Ref(type, c), sale[c].price, "unlock",
                            {ItemOf(u, c, sale[c].price, sale[c].price)})
           IN  cmd \in Command /\ Coherent(cmd)
<1> DEFINE item == ItemOf(u, c, sale[c].price, sale[c].price)
           key  == namespaced(op, k)
           cmd  == Spend(u, key, Ref(type, c), sale[c].price, "unlock", {item})
<1>1. sale[c].price \in Nat
  BY DEF TypeOK, SaleRow
<1>2. /\ item \in Item /\ item.chapter = c /\ item.coins = sale[c].price
      /\ item.writer = Credited(u, item.chapter)
  BY <1>1, ItemTypes, ItemFields
<1>3. Ref(type, c) \in Refs /\ Ref(type, c).type = type /\ Ref(type, c).id = c
  BY ChapterAssumption DEF Ref, Refs, RefTypes
<1>4. key.op \in BuyOps /\ key.op # "arc_unlock" /\ key # NoKey
  BY KeyFields DEF BuyOps
<1> HIDE DEF item, key
<1>5. cmd \in Command
  BY <1>1, <1>2, <1>3, SpendType DEF key
<1>6. /\ cmd.user = u /\ cmd.key = key /\ cmd.ref = Ref(type, c)
      /\ cmd.coins = sale[c].price /\ cmd.child = "unlock" /\ cmd.items = {item}
      /\ cmd.kind = "spend_unlock"
  BY SpendFields
<1> HIDE DEF cmd
<1>7. Coherent(cmd)
  BY <1>2, <1>3, <1>4, <1>6, FS_Singleton DEF Coherent
<1> QED BY <1>5, <1>7 DEF cmd, item, key

(* What a quote offers, it offers at natural prices.                       *)
LEMMA QuotedPricesType ==
    ASSUME TypeOK, NEW u \in User, NEW a \in Arc
    PROVE  LET p == QuotedPrices(u, a)
           IN  /\ DOMAIN p \subseteq Chapter
               /\ IsFiniteSet(DOMAIN p)
               /\ \A c \in DOMAIN p : p[c] \in Nat /\ p[c] = sale[c].price
<1>1. DOMAIN QuotedPrices(u, a) \subseteq Chapter
  BY ArcAssumption DEF QuotedPrices
<1>2. IsFiniteSet(DOMAIN QuotedPrices(u, a))
  BY <1>1, ChapterAssumption, FS_Subset
<1> QED BY <1>1, <1>2 DEF QuotedPrices, TypeOK, SaleRow

LEMMA ArcCommand ==
    ASSUME TypeOK, NEW u \in User, NEW a \in Arc, NEW k \in ClientKey,
           QuoteArcBundle(u, a).err = NoError
    PROVE  LET quote  == QuoteArcBundle(u, a)
               prices == QuotedPrices(u, a)
               cmd    == Spend(u, namespaced("arc_unlock", k), Ref("arc_bundle", a),
                               quote.total, "arc",
                               {ItemOf(u, c, prices[c], quote.perChapter[c]) :
                                    c \in DOMAIN prices})
           IN  cmd \in Command /\ Coherent(cmd)
<1> DEFINE quote  == QuoteArcBundle(u, a)
           prices == QuotedPrices(u, a)
           key    == namespaced("arc_unlock", k)
           items  == {ItemOf(u, c, prices[c], quote.perChapter[c]) : c \in DOMAIN prices}
           cmd    == Spend(u, key, Ref("arc_bundle", a), quote.total, "arc", items)
<1>1. /\ DOMAIN prices \subseteq Chapter
      /\ IsFiniteSet(DOMAIN prices)
      /\ \A c \in DOMAIN prices : prices[c] \in Nat
  BY QuotedPricesType
<1>2. quote = QuoteBundle(prices, ArcBundleDiscountPercent) /\ quote.err = NoError
  BY DEF QuoteArcBundle
<1> HIDE DEF quote, prices
<1>3. quote.total \in Nat /\ quote.perChapter \in [DOMAIN prices -> Nat]
  BY <1>1, <1>2, QuoteType DEF quote
<1>4. /\ items \in SUBSET Item
      /\ \A i, j \in items : i.chapter = j.chapter => i = j
      /\ \A i \in items : i.writer = Credited(u, i.chapter)
      /\ {i.chapter : i \in items} = DOMAIN prices
      /\ \A i \in items : i.listPrice = prices[i.chapter]
  <2>1. ASSUME NEW c \in DOMAIN prices
        PROVE  LET i == ItemOf(u, c, prices[c], quote.perChapter[c])
               IN  /\ i \in Item /\ i.writer = Credited(u, i.chapter)
                   /\ i.chapter = c /\ i.listPrice = prices[c]
    <3>1. c \in Chapter /\ prices[c] \in Nat /\ quote.perChapter[c] \in Nat
      BY <1>1, <1>3
    <3> QED BY <3>1, ItemTypes, ItemFields
  <2>2. {i.chapter : i \in items} = DOMAIN prices
    <3>1. \A i \in items : i.chapter \in DOMAIN prices
      BY <2>1
    <3>2. \A c \in DOMAIN prices : \E i \in items : i.chapter = c
      BY <2>1
    <3> HIDE DEF items
    <3> QED BY <3>1, <3>2
  <2> QED BY <2>1, <2>2
<1>a. IsFiniteSet(items)
  <2> DEFINE f == [c \in DOMAIN prices |->
                     ItemOf(u, c, prices[c], quote.perChapter[c])]
  <2>1. f \in Surjection(DOMAIN prices, items)
    BY DEF Surjection
  <2> HIDE DEF f, items
  <2> QED BY <1>1, <2>1, FS_Surjection
<1>b. DOMAIN prices # {} /\ prices = [c \in DOMAIN prices |-> prices[c]]
  <2>1. DOMAIN prices # {}
    BY <1>2 DEF QuoteBundle
  <2> QED BY <2>1 DEF prices, QuotedPrices
<1>5. Ref("arc_bundle", a) \in Refs /\ Ref("arc_bundle", a).type = "arc_bundle"
  BY ArcAssumption DEF Ref, Refs, RefTypes
<1>6. key.op \in BuyOps /\ key # NoKey /\ key \in Keys
  BY KeyFields, KeyTypes DEF BuyOps, Ops
<1> HIDE DEF items, key
<1>7. cmd \in Command
  BY <1>3, <1>4, <1>5, <1>6, SpendType
<1>8. /\ cmd.user = u /\ cmd.key = key /\ cmd.ref = Ref("arc_bundle", a)
      /\ cmd.child = "arc" /\ cmd.items = items /\ cmd.kind = "spend_unlock"
      /\ cmd.coins = quote.total
  BY SpendFields
<1> HIDE DEF cmd
<1>c. PricedAt(cmd, prices)
  BY <1>2, <1>4, <1>8, <1>b DEF PricedAt
<1>9. Coherent(cmd)
  BY <1>4, <1>5, <1>6, <1>8, <1>a, <1>c DEF Coherent
<1> QED BY <1>7, <1>9 DEF cmd, items, key, quote, prices

(* The background jobs do too: they use no client key.                     *)
LEMMA JobSubmits ==
    ASSUME TypeOK, NEW s \in Slot, NEW u \in User
    PROVE  /\ \A c \in Chapter : AutoUnlockChapter(s, u, c) => Submits(s)
           /\ ExpireBonus(s, u) => Submits(s)
<1>1. ASSUME NEW c \in Chapter, AutoUnlockChapter(s, u, c) PROVE Submits(s)
  <2>1. namespaced("autounlock", c) \in Keys
    BY KeyTypes DEF Ops
  <2> QED BY <1>1, <2>1, UnlockCommand DEF AutoUnlockChapter, Submits
<1>2. ASSUME ExpireBonus(s, u) PROVE Submits(s)
  <2> DEFINE cmd == [user |-> u, key |-> namespaced("bonus_expire", now), at |-> now,
                     kind |-> "bonus_expire", ref |-> Ref("bonus_expire", NoId),
                     coins |-> 0, bonus |-> 0, child |-> "none", items |-> {}]
  <2>1. Ref("bonus_expire", NoId) \in Refs
    BY DEF Ref, Refs, RefTypes, NoId
  <2>2. namespaced("bonus_expire", now) \in Keys
    BY KeyTypes DEF Ops, TypeOK
  <2>3. now \in Nat /\ "bonus_expire" \in Kinds
    BY BoundAssumption DEF TypeOK, Kinds
  <2>4. cmd \in Command
    BY <2>1, <2>2, <2>3 DEF Command
  <2>5. Submit(s, cmd)
    BY <1>2 DEF ExpireBonus
  <2>6. Coherent(cmd)
    BY KeyFields, FS_EmptySet DEF Coherent, BuyOps, Ref
  <2> HIDE DEF cmd
  <2> QED BY <2>4, <2>5, <2>6 DEF Submits
<1> QED BY <1>1, <1>2

(* Each service action submits a well-formed, coherent command.            *)
LEMMA ServiceSubmits ==
    ASSUME TypeOK, NEW s \in Slot, NEW u \in User, NEW k \in ClientKey
    PROVE  /\ \A c \in Chapter : UnlockChapter(s, u, c, k) => Submits(s)
           /\ \A c \in Chapter, x \in TipCoins : TipChapter(s, u, c, x, k) => Submits(s)
           /\ \A a \in Arc : UnlockArc(s, u, a, k) => Submits(s)
           /\ \A p \in Purchase : CompletePurchase(s, u, p, k) => Submits(s)
           /\ \A a \in Adjustment : Adjust(s, u, a, k) => Submits(s)
<1>1. ASSUME NEW c \in Chapter, UnlockChapter(s, u, c, k) PROVE Submits(s)
  <2>1. namespaced("unlock", k) \in Keys
    BY KeyTypes DEF Ops
  <2> QED BY <1>1, <2>1, UnlockCommand DEF UnlockChapter, Submits
<1>3. ASSUME NEW c \in Chapter, NEW x \in TipCoins, TipChapter(s, u, c, x, k)
      PROVE  Submits(s)
  <2> DEFINE item == ItemOf(u, c, sale[c].price, x)
             cmd == [user |-> u, key |-> namespaced("tip", k), at |-> now,
                     kind |-> "tip", ref |-> Ref("chapter_tip", c), coins |-> x,
                     bonus |-> 0, child |-> "tip",
                     items |-> {item}]
  <2>1. /\ item \in Item /\ item.chapter = c /\ item.coins = x
        /\ item.writer = Credited(u, item.chapter)
        /\ item.writer # NoWriter
    <3>1. sale[c].price \in Nat /\ x \in Nat BY MoneyAssumption DEF TypeOK, SaleRow
    <3>2. TranslatorOf[c] \notin {NoWriter, u} BY <1>3 DEF TipChapter
    <3> QED BY <3>1, <3>2, ItemTypes, ItemFields
  <2>2. Ref("chapter_tip", c) \in Refs
    BY ChapterAssumption DEF Ref, Refs, RefTypes
  <2>3. namespaced("tip", k) \in Keys
    BY KeyTypes DEF Ops
  <2>4. now \in Nat /\ x \in Int /\ "tip" \in Kinds
    BY MoneyAssumption, BoundAssumption DEF TypeOK, Kinds
  <2>5. Submit(s, cmd)
    BY <1>3 DEF TipChapter
  <2> HIDE DEF item
  <2>6. cmd \in Command
    BY <2>1, <2>2, <2>3, <2>4 DEF Command
  <2>7. Coherent(cmd)
    <3>1. namespaced("tip", k).op = "tip" /\ namespaced("tip", k) # NoKey
      BY KeyFields
    <3>2. Ref("chapter_tip", c).id = c /\ Ref("chapter_tip", c).type = "chapter_tip"
      BY DEF Ref
    <3>3. /\ cmd.key = namespaced("tip", k) /\ cmd.ref = Ref("chapter_tip", c)
          /\ cmd.kind = "tip" /\ cmd.child = "tip" /\ cmd.items = {item}
          /\ cmd.coins = x /\ cmd.user = u
      OBVIOUS
    <3> HIDE DEF cmd
    <3> QED BY <2>1, <3>1, <3>2, <3>3, FS_Singleton DEF Coherent, BuyOps
  <2> HIDE DEF cmd
  <2> QED BY <2>5, <2>6, <2>7 DEF Submits
<1>4. ASSUME NEW a \in Arc, UnlockArc(s, u, a, k) PROVE Submits(s)
  BY <1>4, ArcCommand DEF UnlockArc, Submits
<1>5. ASSUME NEW p \in Purchase, CompletePurchase(s, u, p, k) PROVE Submits(s)
  <2> DEFINE pack == PackCoins[purchases[p].pack]
             cmd == [user |-> u, key |-> namespaced("topup", k), at |-> now,
                     kind |-> "topup", ref |-> Ref("purchase", p),
                     coins |-> pack.coins, bonus |-> pack.bonus,
                     child |-> "purchase", items |-> {}]
  <2>1. purchases[p] \in PurchaseRows
    BY <1>5 DEF CompletePurchase, TypeOK, NoPurchase
  <2>2. pack.coins \in Nat /\ pack.bonus \in Nat
    BY <2>1, PackAssumption DEF PurchaseRows
  <2>3. Ref("purchase", p) \in Refs
    BY PurchaseAssumption DEF Ref, Refs, RefTypes
  <2>4. namespaced("topup", k) \in Keys
    BY KeyTypes DEF Ops
  <2>5. now \in Nat /\ "topup" \in Kinds
    BY BoundAssumption DEF TypeOK, Kinds
  <2> HIDE DEF pack
  <2>6. cmd \in Command
    BY <2>2, <2>3, <2>4, <2>5 DEF Command
  <2>7. Submit(s, cmd)
    BY <1>5 DEF CompletePurchase, pack
  <2>8. Coherent(cmd)
    BY KeyFields, FS_EmptySet DEF Coherent, BuyOps, Ref
  <2> HIDE DEF cmd
  <2> QED BY <2>6, <2>7, <2>8 DEF Submits
<1>6. ASSUME NEW a \in Adjustment, Adjust(s, u, a, k) PROVE Submits(s)
  <2> DEFINE cmd == [user |-> u, key |-> namespaced("adjust", k), at |-> now,
                     kind |-> "adjust", ref |-> Ref("admin_adjust", NoId),
                     coins |-> a.coins, bonus |-> a.bonus, child |-> "none",
                     items |-> {}]
  <2>1. a.coins \in Int /\ a.bonus \in Int
    BY MoneyAssumption
  <2>2. Ref("admin_adjust", NoId) \in Refs
    BY DEF Ref, Refs, RefTypes, NoId
  <2>3. namespaced("adjust", k) \in Keys
    BY KeyTypes DEF Ops
  <2>4. now \in Nat /\ "adjust" \in Kinds
    BY BoundAssumption DEF TypeOK, Kinds
  <2>5. cmd \in Command
    BY <2>1, <2>2, <2>3, <2>4 DEF Command
  <2>6. Submit(s, cmd)
    BY <1>6 DEF Adjust
  <2>7. Coherent(cmd)
    BY KeyFields, FS_EmptySet DEF Coherent, BuyOps, Ref
  <2> HIDE DEF cmd
  <2> QED BY <2>5, <2>6, <2>7 DEF Submits
<1> QED BY <1>1, <1>3, <1>4, <1>5, <1>6

(* Each step of Next, seen as one of a few shapes.                         *)
ReaderSteps ==
    \/ \E s \in Slot : Submits(s)
    \/ \E s \in Slot : ApplyCommit(s)
    \/ \E s \in Slot : ApplyReplay(s) \/ ApplyRefused(s) \/ Abandon(s)
    \/ \E s \in Slot : CheckBundle(s)
    \/ \E u \in User, a \in Arc, k \in ClientKey : ReplayByKey(u, a, k)

PurchaseSteps ==
    \/ \E u \in User, p \in Pack, k \in ClientKey : CreatePurchase(u, p, k)
    \/ \E u \in User, p \in Purchase : FailPurchase(u, p)

WorldSteps ==
    \/ \E c \in Chapter : \/ \E p \in Price : RepriceChapter(c, p)
                          \/ PublishChapter(c)
                          \/ UnpublishChapter(c)
    \/ \E u \in User, active \in BOOLEAN : SetSubscription(u, active)
    \/ Tick

LEMMA NextShapes ==
    ASSUME TypeOK, Next
    PROVE  ReaderSteps \/ PurchaseSteps \/ WorldSteps
<1>1. Reader \subseteq User
  BY WriterAssumption
<1> QED BY <1>1, ServiceSubmits, JobSubmits
        DEF Next, ReaderSteps, PurchaseSteps, WorldSteps

LEMMA NothingReadType == NothingRead \in SaleRows
<1>1. NothingRead \in [{} -> SaleRow]
  BY DEF NothingRead
<1> QED BY <1>1 DEF SaleRows

THEOREM TypeInit == Init => TypeOK
<1> SUFFICES ASSUME Init PROVE TypeOK
  OBVIOUS
<1>1. /\ now \in 0 .. MaxTime
      /\ unlocks = {} /\ earnings = {}
      /\ reply \in {NoReply}
      /\ request \in [Slot -> Command \cup {Idle}]
      /\ subscribed \in [User -> BOOLEAN]
  BY BoundAssumption DEF Init
<1>2. wallet \in [User -> Balances]
  BY MoneyAssumption DEF Init, Bal, Balances
<1>3. purchases \in [Purchase -> PurchaseRows \cup {NoPurchase}]
  BY DEF Init
<1>7. seen \in [Slot -> SaleRows]
  BY NothingReadType DEF Init
<1>4. sale \in [Chapter -> SaleRow]
  <2>1. PICK price \in [Chapter -> Price] :
          sale = [c \in Chapter |->
                    [price |-> price[c], published |-> TRUE, publicAt |-> 0]]
    BY DEF Init
  <2>2. \A c \in Chapter : price[c] \in Nat
    BY MoneyAssumption
  <2>3. TRUE \in BOOLEAN
    OBVIOUS
  <2> QED BY ONLY <2>1, <2>2, <2>3 DEF SaleRow
<1>5. ASSUME NEW u \in User PROVE OpeningRows(u) \in Seq(Row)
  <2> DEFINE row == [kind |-> "adjust", ref |-> Ref("admin_adjust", NoId),
                     delta |-> Opening[u].coins, bonusDelta |-> Opening[u].bonus,
                     paidAfter |-> Opening[u].coins, bonusAfter |-> Opening[u].bonus,
                     key |-> namespaced("adjust", 0)]
  <2>1. Opening[u].coins \in Nat /\ Opening[u].bonus \in Nat
    BY MoneyAssumption
  <2>2. namespaced("adjust", 0) \in Keys
    <3>1. 0 \in 0 .. MaxTime /\ "adjust" \in Ops BY BoundAssumption DEF Ops
    <3> QED BY <3>1, KeyTypes
  <2>3. Ref("admin_adjust", NoId) \in Refs /\ "adjust" \in Kinds
    BY DEF Ref, Refs, RefTypes, NoId, Kinds
  <2>4. row \in Row
    BY <2>1, <2>2, <2>3 DEF Row
  <2> HIDE DEF row
  <2>5. << row >> \in Seq(Row)
    BY <2>4
  <2> QED BY <2>5 DEF OpeningRows, row
<1>6. ledger \in [User -> Seq(Row)]
  BY <1>5 DEF Init
<1> QED BY <1>1, <1>2, <1>3, <1>4, <1>6, <1>7 DEF TypeOK

LEMMA CommitType == ASSUME TypeOK, NEW s \in Slot, ApplyCommit(s) PROVE TypeOK'
<1> DEFINE cmd  == request[s]
           plan == planFor(cmd)
           rows == ledger[cmd.user] \o NewRows(cmd, plan)
<1>1. cmd \in Command /\ cmd.user \in User /\ cmd.items \in SUBSET Item
  BY IdleIsNoCommand DEF ApplyCommit, Command
<1>2. plan.err = NoError
  BY DEF ApplyCommit, Payable
<1>3. PlanOK(wallet[cmd.user], plan)
  BY <1>1, <1>2, PlanForOK
<1>4. NewRows(cmd, plan) \in Seq(Row) /\ EntryRow(cmd, plan) \in Row
  BY <1>1, <1>2, RowTypes
<1>5. /\ wallet' = [wallet EXCEPT ![cmd.user] = plan.result]
      /\ ledger' = [ledger EXCEPT ![cmd.user] = rows]
      /\ unlocks' = unlocks \cup UnlockRows(cmd, Len(rows))
      /\ earnings' = earnings \cup EarningRows(cmd, Len(rows))
      /\ purchases' = IF cmd.child = "purchase"
                      THEN [purchases EXCEPT ![cmd.ref.id].status = "succeeded"]
                      ELSE purchases
      /\ reply' = Receipt(cmd, EntryRow(cmd, plan))
      /\ request' = [request EXCEPT ![s] = Idle]
      /\ seen' = [seen EXCEPT ![s] = NothingRead]
      /\ UNCHANGED <<now, sale, subscribed>>
  BY DEF ApplyCommit, Finish, world
<1> HIDE DEF plan
<1>6. wallet' \in [User -> Balances]
  BY <1>1, <1>3, <1>5 DEF PlanOK, TypeOK
<1>7. rows \in Seq(Row) /\ Len(rows) \in Nat
  BY <1>1, <1>4 DEF TypeOK
<1>8. ledger' \in [User -> Seq(Row)]
  BY <1>1, <1>5, <1>7 DEF TypeOK
<1> HIDE DEF rows
<1>9. UnlockRows(cmd, Len(rows)) \subseteq
        [user: User, chapter: Chapter, coins: Nat, row: Nat]
  BY <1>1, <1>7 DEF UnlockRows, Item
<1>10. EarningRows(cmd, Len(rows)) \subseteq
         [writer: User, chapter: Chapter, gross: Nat, net: Int,
          user: User, row: Nat, kind: {"unlock", "tip"}]
  <2>1. ASSUME NEW i \in cmd.items, i.writer # NoWriter
        PROVE  /\ i.writer \in User /\ i.chapter \in Chapter /\ i.coins \in Nat
               /\ NetCoins(i.coins, FeePercent) \in Int
    <3>1. i.writer \in User /\ i.chapter \in Chapter /\ i.coins \in Nat
      BY <1>1, <2>1 DEF Item
    <3>2. FeePercent \in Int
      BY PolicyAssumption
    <3> DEFINE m == i.coins * FeePercent
    <3>3. m \in Int BY <3>1, <3>2
    <3> HIDE DEF m
    <3>4. m \div 100 \in Int BY <3>3
    <3> QED BY <3>1, <3>2, <3>4 DEF NetCoins, m
  <2> QED BY <1>1, <1>7, <2>1 DEF EarningRows
<1>11. purchases' \in [Purchase -> PurchaseRows \cup {NoPurchase}]
  <2>1. CASE cmd.child # "purchase"
    BY <1>5, <2>1 DEF TypeOK
  <2>2. CASE cmd.child = "purchase"
    <3>1. PurchaseError(cmd) = NoError
      BY <2>2 DEF ApplyCommit, Passed, checkChildPreconditions
    <3>2. cmd.ref.id \in Purchase /\ purchases[cmd.ref.id].status = "pending"
      BY <3>1 DEF PurchaseError
    <3>3. purchases[cmd.ref.id] \in PurchaseRows
      BY <3>2 DEF TypeOK, NoPurchase
    <3>4. [purchases[cmd.ref.id] EXCEPT !.status = "succeeded"] \in PurchaseRows
      BY <3>3 DEF PurchaseRows
    <3> QED BY <1>5, <2>2, <3>2, <3>4 DEF TypeOK
  <2> QED BY <2>1, <2>2
<1>12. reply' \in [user: User, ref: Refs, row: Row]
  BY <1>1, <1>4, <1>5 DEF Receipt, Command, plan
<1>13. request' \in [Slot -> Command \cup {Idle}] /\ seen' \in [Slot -> SaleRows]
  BY <1>5, NothingReadType DEF TypeOK
<1> QED BY <1>5, <1>6, <1>8, <1>9, <1>10, <1>11, <1>12, <1>13 DEF TypeOK

THEOREM TypeNext == TypeOK /\ [Next]_vars => TypeOK'
<1> SUFFICES ASSUME TypeOK, [Next]_vars PROVE TypeOK'
  OBVIOUS
<1>1. CASE UNCHANGED vars
  BY <1>1 DEF TypeOK, vars
<1>2. CASE ReaderSteps
  <2>1. ASSUME NEW s \in Slot, Submits(s) PROVE TypeOK'
    BY <2>1 DEF Submits, Submit, TypeOK, money, world, NoReply
  <2>2. ASSUME NEW s \in Slot, ApplyCommit(s) PROVE TypeOK'
    BY <2>2, CommitType
  <2>3. ASSUME NEW s \in Slot, ApplyReplay(s) PROVE TypeOK'
    <3>1. request[s] \in Command
      BY <2>3, IdleIsNoCommand DEF ApplyReplay
    <3>2. StoredRow(request[s]) \in Row
      <4>1. RowsWithKey(request[s].user, request[s].key) # {}
        BY <2>3 DEF ApplyReplay, KeyUsed
      <4>2. ledger[request[s].user] \in Seq(Row)
        BY <3>1 DEF TypeOK, Command
      <4> QED BY <4>1, <4>2 DEF StoredRow, RowsWithKey
    <3>3. reply' \in [user: User, ref: Refs, row: Row]
      BY <2>3, <3>1, <3>2 DEF ApplyReplay, Receipt, Command
    <3> QED BY <2>3, <3>3, NothingReadType DEF ApplyReplay, Finish, TypeOK, money, world
  <2>4. ASSUME NEW s \in Slot, ApplyRefused(s) \/ Abandon(s) PROVE TypeOK'
    BY <2>4, NothingReadType
       DEF ApplyRefused, Abandon, Finish, TypeOK, money, world, NoReply
  <2>6. ASSUME NEW s \in Slot, CheckBundle(s) PROVE TypeOK'
    <3> DEFINE C == {i.chapter : i \in request[s].items}
    <3>1. request[s] \in Command
      BY <2>6, IdleIsNoCommand DEF CheckBundle
    <3>2. C \in SUBSET Chapter
      BY <3>1 DEF Command, Item
    <3> HIDE DEF C
    <3>3. [c \in C |-> sale[c]] \in [C -> SaleRow]
      BY <3>2 DEF TypeOK
    <3>4. [c \in C |-> sale[c]] \in SaleRows
      BY <3>2, <3>3 DEF SaleRows
    <3>5. seen' \in [Slot -> SaleRows]
      BY <2>6, <3>4 DEF CheckBundle, TypeOK, C
    <3> QED BY <2>6, <3>5 DEF CheckBundle, TypeOK, money, world, NoReply
  <2>5. ASSUME NEW u \in User, NEW a \in Arc, NEW k \in ClientKey, ReplayByKey(u, a, k)
        PROVE  TypeOK'
    <3> DEFINE key == namespaced("arc_unlock", k)
               i == CHOOSE i \in RowsWithKey(u, key) : TRUE
    <3>1. i \in RowsWithKey(u, key)
      BY <2>5 DEF ReplayByKey
    <3>2. ledger[u][i] \in Row
      BY <3>1 DEF RowsWithKey, TypeOK
    <3>3. Ref("arc_bundle", a) \in Refs
      BY ArcAssumption DEF Ref, Refs, RefTypes
    <3>4. reply' = [user |-> u, ref |-> Ref("arc_bundle", a), row |-> ledger[u][i]]
      BY <2>5 DEF ReplayByKey
    <3> HIDE DEF i
    <3>5. reply' \in [user: User, ref: Refs, row: Row]
      BY <3>2, <3>3, <3>4
    <3> QED BY <2>5, <3>5 DEF ReplayByKey, TypeOK, money, world
  <2> QED BY <1>2, <2>1, <2>2, <2>3, <2>4, <2>5, <2>6 DEF ReaderSteps
<1>3. CASE PurchaseSteps
  <2>1. purchases' \in [Purchase -> PurchaseRows \cup {NoPurchase}]
    <3>1. ASSUME NEW u \in User, NEW p \in Pack, NEW k \in ClientKey,
                 CreatePurchase(u, p, k)
          PROVE  purchases' \in [Purchase -> PurchaseRows \cup {NoPurchase}]
      BY <3>1 DEF CreatePurchase, UnusedPurchases, PurchaseRows, TypeOK
    <3>2. ASSUME NEW u \in User, NEW p \in Purchase, FailPurchase(u, p)
          PROVE  purchases' \in [Purchase -> PurchaseRows \cup {NoPurchase}]
      <4>1. purchases[p] \in PurchaseRows
        BY <3>2 DEF FailPurchase, TypeOK, NoPurchase
      <4>2. [purchases[p] EXCEPT !.status = "failed"] \in PurchaseRows
        BY <4>1 DEF PurchaseRows
      <4> QED BY <3>2, <4>2 DEF FailPurchase, TypeOK
    <3> QED BY <1>3, <3>1, <3>2 DEF PurchaseSteps
  <2>2. UNCHANGED <<money, world, request, seen>> /\ reply' = NoReply
    BY <1>3 DEF PurchaseSteps, CreatePurchase, FailPurchase
  <2> QED BY <2>1, <2>2 DEF TypeOK, money, world
<1>4. CASE WorldSteps
  <2> DEFINE Sales == [Chapter -> SaleRow]
  <2>1. \E ns \in Sales, nb \in [User -> BOOLEAN], nn \in 0 .. MaxTime : World(ns, nb, nn)
    <3>1. now \in 0 .. MaxTime /\ sale \in Sales /\ subscribed \in [User -> BOOLEAN]
      BY DEF TypeOK
    <3>2. ASSUME NEW c \in Chapter, NEW p \in Price, RepriceChapter(c, p)
          PROVE  [sale EXCEPT ![c].price = p] \in Sales
      BY <3>1, MoneyAssumption DEF SaleRow
    <3>3. ASSUME NEW c \in Chapter
          PROVE  /\ [sale EXCEPT ![c] = [price |-> @.price, published |-> TRUE,
                                         publicAt |-> now + EarlyAccess]] \in Sales
                 /\ [sale EXCEPT ![c] = [price |-> @.price, published |-> FALSE,
                                         publicAt |-> 0]] \in Sales
      BY <3>1, BoundAssumption, PolicyAssumption DEF SaleRow
    <3>4. ASSUME NEW u \in User, NEW active \in BOOLEAN
          PROVE  [subscribed EXCEPT ![u] = active] \in [User -> BOOLEAN]
      BY <3>1
    <3>5. now < MaxTime => now + 1 \in 0 .. MaxTime
      BY <3>1, BoundAssumption
    <3> HIDE DEF Sales
    <3> QED BY <1>4, <3>1, <3>2, <3>3, <3>4, <3>5
            DEF WorldSteps, RepriceChapter, PublishChapter, UnpublishChapter,
                SetSubscription, Tick
  <2> QED BY <2>1 DEF World, TypeOK, money, NoReply
<1> QED BY <1>1, <1>2, <1>3, <1>4, NextShapes

(* No interleaving of requests, write-offs and corrections takes a wallet  *)
(* outside its type: no balance is ever negative (Apply's lock and the     *)
(* planners' checks suffice; the CHECKs of the table never fire).          *)
THEOREM TypeCorrect == Spec => []TypeOK
BY TypeInit, TypeNext, PTL DEF Spec

-----------------------------------------------------------------------------
(***************************************************************************)
(* The wallet's safety invariants, for every value of its constants.       *)
(*                                                                         *)
(* Only ApplyCommit writes money.  CommitWrites says what it appends to    *)
(* the ledger; CommandsOK says what is known of a command in flight; from  *)
(* these two each invariant follows on its own.                            *)
(***************************************************************************)

(* Every command in flight is coherent.                                    *)
CommandsOK == \A s \in Slot : request[s] # Idle => Coherent(request[s])

(* Steps that leave money alone and at most empty slots.                   *)
NoMoneyMoves ==
    /\ UNCHANGED money
    /\ \A s \in Slot : request'[s] \in {request[s], Idle}

LEMMA OtherSteps ==
    ASSUME TypeOK, [Next]_vars
    PROVE  \/ \E s \in Slot : ApplyCommit(s)
           \/ \E s \in Slot : Submits(s)
           \/ NoMoneyMoves /\ UNCHANGED purchases
           \/ NoMoneyMoves /\ PurchaseSteps
<1>1. CASE UNCHANGED vars
  BY <1>1 DEF NoMoneyMoves, vars, money
<1>2. CASE ReaderSteps
  BY <1>2 DEF ReaderSteps, NoMoneyMoves, ApplyReplay, ApplyRefused, Abandon, Finish,
              CheckBundle, ReplayByKey, TypeOK, world
<1>3. CASE PurchaseSteps
  BY <1>3 DEF PurchaseSteps, CreatePurchase, FailPurchase, NoMoneyMoves
<1>4. CASE WorldSteps
  BY <1>4 DEF WorldSteps, RepriceChapter, PublishChapter, UnpublishChapter,
              SetSubscription, Tick, World, NoMoneyMoves
<1> QED BY <1>1, <1>2, <1>3, <1>4, NextShapes

LEMMA CommandsInit == Init => CommandsOK
BY DEF Init, CommandsOK

LEMMA CommandsNext == TypeOK /\ CommandsOK /\ [Next]_vars => CommandsOK'
<1> SUFFICES ASSUME TypeOK, CommandsOK, [Next]_vars,
                    NEW s \in Slot, request'[s] # Idle
             PROVE  Coherent(request'[s])
  BY DEF CommandsOK, Coherent
<1>1. CASE request'[s] = request[s]
  BY <1>1 DEF CommandsOK
<1>2. CASE request'[s] # request[s]
  <2>1. ASSUME NEW r \in Slot, ApplyCommit(r) PROVE FALSE
    BY <2>1, <1>2 DEF ApplyCommit, Finish, TypeOK
  <2>2. ASSUME NEW r \in Slot, Submits(r) PROVE Coherent(request'[s])
    BY <2>2, <1>2 DEF Submits, Submit, TypeOK
  <2> QED BY <1>2, <2>1, <2>2, OtherSteps DEF NoMoneyMoves
<1> QED BY <1>1, <1>2

LEMMA TwoMore ==
    ASSUME NEW S, NEW q \in Seq(S), NEW x \in S, NEW e \in S
    PROVE  LET r == q \o (<< x >> \o << e >>)
           IN  /\ Len(r) = Len(q) + 2 /\ DOMAIN r = 1 .. Len(q) + 2
               /\ r[Len(q) + 1] = x /\ r[Len(q) + 2] = e
               /\ \A i \in 1 .. Len(q) : r[i] = q[i]
<1> DEFINE t == << x >> \o << e >>
<1>1. << x >> \in Seq(S) /\ << e >> \in Seq(S)
  OBVIOUS
<1>2. t \in Seq(S) /\ Len(t) = 2 /\ t[1] = x /\ t[2] = e
  BY <1>1
<1> HIDE DEF t
<1>3. Len(q) \in Nat
  OBVIOUS
<1> QED BY <1>2, <1>3 DEF t

(* What a commit of cmd under plan writes: it appends the entry, after at  *)
(* most one write-off row, and takes a ledger of n rows to one of m.       *)
Writes(cmd, plan, n, m) ==
    LET u == cmd.user
    IN  /\ u \in User
        /\ PlanOK(wallet[u], plan)
        /\ n = Len(ledger[u]) /\ m = Len(ledger'[u])
        /\ m = IF plan.lapsed = 0 THEN n + 1 ELSE n + 2
        /\ DOMAIN ledger[u] = 1 .. n /\ DOMAIN ledger'[u] = 1 .. m
        /\ \A i \in 1 .. n : ledger'[u][i] = ledger[u][i]
        /\ ledger'[u][m] = EntryRow(cmd, plan)
        /\ plan.lapsed # 0 =>
              ledger'[u][n + 1] = LedgerRow(cmd, "bonus_expire", 0, -plan.lapsed,
                                            wallet[u].paid, 0, NoKey)
        /\ wallet'[u] = plan.result
        /\ unlocks' = unlocks \cup UnlockRows(cmd, m)
        /\ earnings' = earnings \cup EarningRows(cmd, m)
        /\ \A v \in User \ {u} : ledger'[v] = ledger[v] /\ wallet'[v] = wallet[v]

LEMMA CommitWrites ==
    ASSUME TypeOK, NEW s \in Slot, ApplyCommit(s)
    PROVE  /\ request[s] \in Command
           /\ Len(ledger[request[s].user]) \in Nat
           /\ Writes(request[s], planFor(request[s]), Len(ledger[request[s].user]),
                     Len(ledger'[request[s].user]))
<1> DEFINE cmd  == request[s]
           u    == cmd.user
           plan == planFor(cmd)
           n    == Len(ledger[u])
           rows == ledger[u] \o NewRows(cmd, plan)
<1>1. cmd \in Command /\ u \in User
  BY IdleIsNoCommand DEF ApplyCommit, Command
<1>2. plan.err = NoError
  BY DEF ApplyCommit, Payable
<1>3. PlanOK(wallet[u], plan)
  BY <1>1, <1>2, PlanForOK
<1>4. /\ ExpiryRows(cmd, plan) \in Seq(Row) /\ EntryRow(cmd, plan) \in Row
      /\ ledger[u] \in Seq(Row)
  BY <1>1, <1>2, RowTypes DEF TypeOK
<1>5. /\ wallet' = [wallet EXCEPT ![u] = plan.result]
      /\ ledger' = [ledger EXCEPT ![u] = rows]
      /\ unlocks' = unlocks \cup UnlockRows(cmd, Len(rows))
      /\ earnings' = earnings \cup EarningRows(cmd, Len(rows))
  BY DEF ApplyCommit
<1>6. ledger'[u] = rows /\ wallet'[u] = plan.result
      /\ \A v \in User \ {u} : ledger'[v] = ledger[v] /\ wallet'[v] = wallet[v]
  BY <1>1, <1>5 DEF TypeOK
<1> HIDE DEF plan
<1>7. n \in Nat /\ DOMAIN ledger[u] = 1 .. n
  BY <1>4
<1>8. CASE plan.lapsed = 0
  <2>1. NewRows(cmd, plan) = << EntryRow(cmd, plan) >>
    BY <1>8, <1>4 DEF NewRows, ExpiryRows
  <2>2. /\ Len(rows) = n + 1 /\ DOMAIN rows = 1 .. n + 1
        /\ rows[n + 1] = EntryRow(cmd, plan)
        /\ \A i \in 1 .. n : rows[i] = ledger[u][i]
    BY <2>1, <1>4, <1>7
  <2> HIDE DEF rows
  <2> QED BY <1>1, <1>3, <1>5, <1>6, <1>7, <1>8, <2>2 DEF plan, Writes
<1>9. CASE plan.lapsed # 0
  <2> DEFINE x == LedgerRow(cmd, "bonus_expire", 0, -plan.lapsed,
                            wallet[u].paid, 0, NoKey)
  <2>1. ExpiryRows(cmd, plan) = << x >> /\ x \in Row
    <3>1. ExpiryRows(cmd, plan) = << x >> BY <1>9 DEF ExpiryRows
    <3> QED BY <3>1, <1>4
  <2>3. /\ Len(rows) = n + 2 /\ DOMAIN rows = 1 .. n + 2
        /\ rows[n + 2] = EntryRow(cmd, plan)
        /\ rows[n + 1] = x
        /\ \A i \in 1 .. n : rows[i] = ledger[u][i]
    <3> DEFINE e == EntryRow(cmd, plan)
    <3>1. rows = ledger[u] \o (<< x >> \o << e >>)
      BY <2>1 DEF NewRows
    <3>2. x \in Row /\ e \in Row
      BY <2>1, <1>4
    <3> HIDE DEF x, e, rows
    <3>3. QED BY <3>1, <3>2, <1>4, TwoMore DEF e
  <2> HIDE DEF rows
  <2> QED BY <1>1, <1>3, <1>5, <1>6, <1>7, <1>9, <2>3 DEF plan, Writes
<1> QED BY <1>8, <1>9

(* A bundle that holds its wallet row is still what its check found: its   *)
(* key is unused, its chapters are not owned, and its list prices are those*)
(* that the check read.  This takes the lock: what it says of the reader   *)
(* is stable because nobody else applies a command of that reader.         *)
Checked(s) ==
    LET cmd == request[s]
    IN  /\ cmd # Idle /\ cmd.child = "arc" /\ ~KeyUsed(cmd)
        /\ cmd.items # {}
        /\ DOMAIN seen[s] = {i.chapter : i \in cmd.items}
        /\ \A i \in cmd.items : /\ i.chapter \notin Owned(cmd.user)
                                /\ seen[s][i.chapter].published
                                /\ seen[s][i.chapter].price = i.listPrice

HoldersOK ==
    \A s \in Slot : Holds(s) => Checked(s) /\ WalletFree(s)

LEMMA HoldersInit == Init => HoldersOK
BY DEF Init, HoldersOK, Holds

(* What a commit does to the ledger and the unlocks of the other readers.  *)
LEMMA OthersUntouched ==
    ASSUME TypeOK, NEW s \in Slot, ApplyCommit(s), NEW v \in User, v # request[s].user
    PROVE  /\ ledger'[v] = ledger[v]
           /\ {x \in unlocks' : x.user = v} = {x \in unlocks : x.user = v}
<1>1. Writes(request[s], planFor(request[s]), Len(ledger[request[s].user]),
             Len(ledger'[request[s].user]))
  BY CommitWrites
<1>2. PICK m, new : /\ new = UnlockRows(request[s], m)
                    /\ unlocks' = unlocks \cup new
  BY <1>1 DEF Writes
<1>3. \A x \in new : x.user = request[s].user
  BY <1>2 DEF UnlockRows
<1> QED BY <1>1, <1>2, <1>3 DEF Writes

LEMMA HoldersNext == TypeOK /\ HoldersOK /\ [Next]_vars => HoldersOK'
<1> SUFFICES ASSUME TypeOK, HoldersOK, [Next]_vars PROVE HoldersOK'
  OBVIOUS
<1>1. ASSUME UNCHANGED money,
             \A t \in Slot : \/ seen'[t] = seen[t] /\ request'[t] = request[t]
                             \/ ~Holds(t)'
      PROVE  HoldersOK'
  BY <1>1 DEF HoldersOK, Holds, Checked, WalletFree, KeyUsed, RowsWithKey, Owned, money
<1>2. ASSUME NEW s \in Slot, Submits(s) PROVE HoldersOK'
  <2>1. ~Holds(s)
    BY <1>2 DEF HoldersOK, Checked, Submits, Submit
  <2> QED BY <1>1, <1>2, <2>1 DEF Submits, Submit, TypeOK, Holds
<1>3. ASSUME NEW s \in Slot, ApplyReplay(s) \/ ApplyRefused(s) \/ Abandon(s)
      PROVE  HoldersOK'
  BY <1>1, <1>3 DEF ApplyReplay, ApplyRefused, Abandon, Finish, TypeOK, Holds
<1>4. ASSUME NEW s \in Slot, CheckBundle(s) PROVE HoldersOK'
  <2> DEFINE cmd == request[s]
             read == [c \in {i.chapter : i \in cmd.items} |-> sale[c]]
  <2>1. /\ cmd # Idle /\ cmd.child = "arc" /\ WalletFree(s) /\ ~KeyUsed(cmd)
        /\ ArcError(cmd) = NoError
        /\ seen'[s] = read
        /\ \A t \in Slot \ {s} : seen'[t] = seen[t]
        /\ UNCHANGED <<money, request>>
    BY <1>4 DEF CheckBundle, TypeOK, checkChildPreconditions
  <2>2. /\ cmd.items # {}
        /\ \A i \in cmd.items : /\ i.chapter \notin Owned(cmd.user)
                                /\ read[i.chapter].published
                                /\ read[i.chapter].price = i.listPrice
    BY <2>1 DEF ArcError
  <2>3. DOMAIN seen'[s] = {i.chapter : i \in cmd.items}
    BY <2>1
  <2> HIDE DEF read
  <2>4. Checked(s)'
    BY <2>1, <2>2, <2>3 DEF Checked, KeyUsed, RowsWithKey, Owned, money
  <2>5. WalletFree(s)'
    BY <2>1 DEF WalletFree, Holds
  <2>6. ASSUME NEW t \in Slot \ {s}, Holds(t)' PROVE Checked(t)' /\ WalletFree(t)'
    <3>1. Checked(t) /\ WalletFree(t) /\ request[t].user # cmd.user
      BY <2>1, <2>6 DEF HoldersOK, Holds, WalletFree
    <3> QED BY <2>1, <2>6, <3>1
            DEF Checked, WalletFree, Holds, KeyUsed, RowsWithKey, Owned, money
  <2> QED BY <2>4, <2>5, <2>6 DEF HoldersOK
<1>5. ASSUME NEW s \in Slot, ApplyCommit(s) PROVE HoldersOK'
  <2>1. /\ WalletFree(s) /\ ~Holds(s)'
        /\ \A t \in Slot \ {s} : request'[t] = request[t] /\ seen'[t] = seen[t]
    BY <1>5 DEF ApplyCommit, Finish, Holds, TypeOK
  <2>2. ASSUME NEW t \in Slot, Holds(t)' PROVE Checked(t)' /\ WalletFree(t)'
    <3>1. t # s /\ Holds(t) /\ Checked(t) /\ WalletFree(t)
      BY <2>1, <2>2 DEF Holds, HoldersOK
    <3>2. request[t].user \in User /\ request[t].user # request[s].user
      BY <2>1, <3>1 DEF WalletFree, Checked, TypeOK, Command
    <3>3. /\ ledger'[request[t].user] = ledger[request[t].user]
          /\ {x \in unlocks' : x.user = request[t].user}
               = {x \in unlocks : x.user = request[t].user}
      BY <1>5, <3>2, OthersUntouched
    <3>4. Checked(t)'
      BY <2>1, <3>1, <3>3 DEF Checked, KeyUsed, RowsWithKey, Owned
    <3>5. WalletFree(t)'
      BY <2>1, <3>1 DEF WalletFree, Holds
    <3> QED BY <3>4, <3>5
  <2> QED BY <2>2 DEF HoldersOK
<1>6. ASSUME NEW u \in User, NEW a \in Arc, NEW k \in ClientKey, ReplayByKey(u, a, k)
      PROVE  HoldersOK'
  BY <1>1, <1>6 DEF ReplayByKey
<1>7. CASE PurchaseSteps
  BY <1>1, <1>7 DEF PurchaseSteps, CreatePurchase, FailPurchase
<1>8. CASE WorldSteps
  BY <1>1, <1>8 DEF WorldSteps, RepriceChapter, PublishChapter, UnpublishChapter,
                    SetSubscription, Tick, World
<1>9. CASE UNCHANGED vars
  BY <1>1, <1>9 DEF vars, money
<1> QED BY <1>2, <1>3, <1>4, <1>5, <1>6, <1>7, <1>8, <1>9, NextShapes DEF ReaderSteps

(* Everything that is known of a reachable state before money is looked at.*)
Known == TypeOK /\ CommandsOK /\ HoldersOK

(* Every reachable state is well typed, every command in flight is one that*)
(* a service really builds (kind, target, key and child rows agree), and a *)
(* bundle that was checked is still what its check found.                  *)
THEOREM CommandsCorrect == Spec => []Known
<1>1. Init => Known
  BY TypeInit, CommandsInit, HoldersInit DEF Known
<1>2. Known /\ [Next]_vars => Known'
  BY TypeNext, CommandsNext, HoldersNext DEF Known
<1> QED BY <1>1, <1>2, PTL DEF Spec

(* What the preconditions of a committed command amount to.                *)
Cleared(cmd) ==
    /\ cmd.child = "unlock" => UnlockError(cmd) = NoError
    /\ cmd.child = "purchase" => PurchaseError(cmd) = NoError
    /\ cmd.child = "arc" => \E s \in Slot : request[s] = cmd /\ Checked(s)

(* A step leaves money alone or commits one command.                       *)
Commits(cmd, plan, n, m) ==
    /\ cmd \in Command /\ Coherent(cmd) /\ Cleared(cmd) /\ Payable(cmd) /\ ~KeyUsed(cmd)
    /\ plan = planFor(cmd)
    /\ n \in Nat /\ m \in Nat
    /\ Writes(cmd, plan, n, m)
    /\ purchases' = IF cmd.child = "purchase"
                    THEN [purchases EXCEPT ![cmd.ref.id].status = "succeeded"]
                    ELSE purchases

LEMMA MoneySteps ==
    ASSUME Known, [Next]_vars
    PROVE  \/ UNCHANGED money /\ (UNCHANGED purchases \/ PurchaseSteps)
           \/ \E cmd, plan, n, m : Commits(cmd, plan, n, m)
<1>1. ASSUME NEW s \in Slot, ApplyCommit(s)
      PROVE  Commits(request[s], planFor(request[s]), Len(ledger[request[s].user]),
                     Len(ledger'[request[s].user]))
  <2>1. /\ Writes(request[s], planFor(request[s]), Len(ledger[request[s].user]),
                  Len(ledger'[request[s].user]))
        /\ request[s] \in Command
        /\ Len(ledger[request[s].user]) \in Nat
    BY <1>1, CommitWrites DEF Known
  <2>2. Len(ledger'[request[s].user]) \in Nat
    BY <2>1 DEF Writes
  <2>3. Cleared(request[s])
    BY <1>1 DEF ApplyCommit, Passed, Cleared, checkChildPreconditions, Known, HoldersOK
  <2> QED BY <1>1, <2>1, <2>2, <2>3 DEF Commits, ApplyCommit, Known, CommandsOK
<1>2. \/ \E s \in Slot : ApplyCommit(s)
      \/ UNCHANGED money /\ (UNCHANGED purchases \/ PurchaseSteps)
  BY OtherSteps DEF Submits, Submit, NoMoneyMoves, Known
<1> QED BY <1>1, <1>2

LEMMA OpeningShape ==
    ASSUME Init, NEW u \in User
    PROVE  \/ /\ ledger[u] = << >>
              /\ wallet[u].paid = 0 /\ wallet[u].bonus = 0
           \/ /\ Len(ledger[u]) = 1 /\ DOMAIN ledger[u] = {1}
              /\ ledger[u][1].kind = "adjust"
              /\ ledger[u][1].delta = wallet[u].paid
              /\ ledger[u][1].bonusDelta = wallet[u].bonus
              /\ ledger[u][1].paidAfter = wallet[u].paid
              /\ ledger[u][1].bonusAfter = wallet[u].bonus
              /\ wallet[u].paid \in Nat /\ wallet[u].bonus \in Nat
<1>1. Opening[u].coins \in Nat /\ Opening[u].bonus \in Nat
  BY MoneyAssumption
<1> QED BY <1>1 DEF Init, OpeningRows, Bal

-----------------------------------------------------------------------------
(* The ledger is a running account.                                        *)

LEMMA RunningInit == Init => RunningTotal
<1> SUFFICES ASSUME Init, NEW u \in User PROVE Explains(ledger[u], wallet[u])
  BY DEF RunningTotal
<1> QED BY OpeningShape DEF Explains, PaidBefore, BonusBefore

LEMMA RunningNext == Known /\ RunningTotal /\ [Next]_vars => RunningTotal'
<1> SUFFICES ASSUME Known, RunningTotal, [Next]_vars PROVE RunningTotal'
  OBVIOUS
<1>1. CASE UNCHANGED money
  BY <1>1 DEF RunningTotal, money
<1>2. ASSUME NEW cmd, NEW plan, NEW n, NEW m, Commits(cmd, plan, n, m)
      PROVE  RunningTotal'
  <2> DEFINE u == cmd.user
             e == EntryRow(cmd, plan)
             w == LedgerRow(cmd, "bonus_expire", 0, -plan.lapsed, wallet[u].paid, 0, NoKey)
             l == ledger[u]
             k == ledger'[u]
  <2>1. /\ PlanOK(wallet[u], plan) /\ u \in User
        /\ n = Len(l) /\ m = Len(k) /\ n \in Nat
        /\ m = IF plan.lapsed = 0 THEN n + 1 ELSE n + 2
        /\ \A i \in 1 .. n : k[i] = l[i]
        /\ k[m] = e
        /\ plan.lapsed # 0 => k[n + 1] = w
        /\ wallet'[u] = plan.result
        /\ \A v \in User \ {u} : ledger'[v] = ledger[v] /\ wallet'[v] = wallet[v]
    BY <1>2 DEF Commits, Writes
  <2>2. /\ e.delta = plan.delta /\ e.bonusDelta = plan.bonusDelta
        /\ e.paidAfter = plan.result.paid /\ e.bonusAfter = plan.result.bonus
        /\ w.delta = 0 /\ w.bonusDelta = -plan.lapsed
        /\ w.paidAfter = wallet[u].paid /\ w.bonusAfter = 0
    BY DEF EntryRow, LedgerRow
  <2>3. wallet[u].paid \in Nat /\ wallet[u].bonus \in Nat
    BY <2>1 DEF Known, TypeOK, Balances
  <2>4. Explains(l, wallet[u])
    BY <2>1 DEF RunningTotal
  <2>5. Explains(k, plan.result)
    <3> HIDE DEF e, w, l, k, u
    <3>1. ASSUME NEW i \in 1 .. n
          PROVE  /\ k[i].paidAfter = PaidBefore(k, i) + k[i].delta
                 /\ k[i].bonusAfter = BonusBefore(k, i) + k[i].bonusDelta
      BY <2>1, <2>4 DEF Explains, PaidBefore, BonusBefore
    <3>2. PaidBefore(k, n + 1) = wallet[u].paid /\ BonusBefore(k, n + 1) = wallet[u].bonus
      BY <2>1, <2>4 DEF Explains, PaidBefore, BonusBefore
    <3>3. CASE plan.lapsed = 0
      BY <2>1, <2>2, <2>3, <3>1, <3>2, <3>3 DEF Explains, PaidBefore, BonusBefore, PlanOK
    <3>4. CASE plan.lapsed # 0
      <4>1. m = n + 2 /\ k[n + 1] = w /\ plan.lapsed = wallet[u].bonus
        BY <2>1, <3>4 DEF PlanOK
      <4>2. /\ w.paidAfter = PaidBefore(k, n + 1) + w.delta
            /\ w.bonusAfter = BonusBefore(k, n + 1) + w.bonusDelta
        BY <2>2, <2>3, <3>2, <4>1
      <4>3. PaidBefore(k, n + 2) = wallet[u].paid /\ BonusBefore(k, n + 2) = 0
        BY <2>1, <2>2, <4>1 DEF PaidBefore, BonusBefore
      <4>4. /\ e.paidAfter = PaidBefore(k, n + 2) + e.delta
            /\ e.bonusAfter = BonusBefore(k, n + 2) + e.bonusDelta
        BY <2>1, <2>2, <2>3, <4>1, <4>3 DEF PlanOK
      <4>5. /\ plan.result.paid = PaidBefore(k, m + 1)
            /\ plan.result.bonus = BonusBefore(k, m + 1)
        BY <2>1, <2>2 DEF PaidBefore, BonusBefore
      <4>6. \A i \in 1 .. m : i \in 1 .. n \/ i = n + 1 \/ i = n + 2
        BY <2>1, <4>1
      <4> QED BY <2>1, <3>1, <4>1, <4>2, <4>4, <4>5, <4>6 DEF Explains
    <3> QED BY <3>3, <3>4
  <2> QED BY <2>1, <2>5 DEF RunningTotal
<1> QED BY <1>1, <1>2, MoneySteps

(* The ledger explains every balance row by row, for any number of         *)
(* readers, prices, packs and requests in flight.                          *)
THEOREM RunningTotalCorrect == Spec => []RunningTotal
<1>1. Init => RunningTotal
  BY RunningInit
<1> QED BY <1>1, RunningNext, CommandsCorrect, PTL DEF Spec

-----------------------------------------------------------------------------
(* One row per key.                                                        *)

LEMMA KeyNext == Known /\ OneRowPerKey /\ [Next]_vars => OneRowPerKey'
<1> SUFFICES ASSUME Known, OneRowPerKey, [Next]_vars PROVE OneRowPerKey'
  OBVIOUS
<1>1. CASE UNCHANGED money
  BY <1>1 DEF OneRowPerKey, money
<1>2. ASSUME NEW cmd, NEW plan, NEW n, NEW m, Commits(cmd, plan, n, m)
      PROVE  OneRowPerKey'
  <2>1. /\ cmd.user \in User /\ n \in Nat
        /\ m \in {n + 1, n + 2}
        /\ DOMAIN ledger[cmd.user] = 1 .. n /\ DOMAIN ledger'[cmd.user] = 1 .. m
        /\ \A i \in 1 .. n : ledger'[cmd.user][i] = ledger[cmd.user][i]
        /\ ledger'[cmd.user][m].key = cmd.key
        /\ m = n + 2 => ledger'[cmd.user][n + 1].key = NoKey
        /\ \A v \in User \ {cmd.user} : ledger'[v] = ledger[v]
    BY <1>2 DEF Commits, Writes, EntryRow, LedgerRow
  <2>2. \A i \in 1 .. n : ledger[cmd.user][i].key # cmd.key
    BY <1>2, <2>1 DEF Commits, KeyUsed, RowsWithKey
  <2>3. ASSUME NEW u \in User, NEW i \in DOMAIN ledger'[u], NEW j \in DOMAIN ledger'[u],
               ledger'[u][i].key = ledger'[u][j].key, ledger'[u][i].key # NoKey
        PROVE  i = j
    <3>1. CASE u = cmd.user
      BY <2>1, <2>2, <2>3, <3>1 DEF OneRowPerKey
    <3>2. CASE u # cmd.user
      BY <2>1, <2>3, <3>2 DEF OneRowPerKey
    <3> QED BY <3>1, <3>2
  <2> QED BY <2>3 DEF OneRowPerKey
<1> QED BY <1>1, <1>2, MoneySteps

(* However many retries and duplicates are in flight, a key has one row.   *)
THEOREM OneRowPerKeyCorrect == Spec => []OneRowPerKey
<1>1. Init => OneRowPerKey
  BY OpeningShape DEF OneRowPerKey
<1> QED BY <1>1, KeyNext, CommandsCorrect, PTL DEF Spec

-----------------------------------------------------------------------------
(* One debit per chapter.                                                  *)

LEMMA UnlockWrites ==
    ASSUME Known, NEW cmd, NEW plan, NEW n, NEW m, Commits(cmd, plan, n, m)
    PROVE  LET new == UnlockRows(cmd, m)
           IN  /\ \A x \in new : /\ x.user = cmd.user /\ x.row = m
                                /\ x.chapter \notin Owned(cmd.user)
                                /\ cmd.kind = "spend_unlock"
               /\ \A x, y \in new : x.chapter = y.chapter => x = y
               /\ cmd.kind = "spend_unlock" /\ cmd.ref.type # "arc_bundle" =>
                    [user |-> cmd.user, chapter |-> cmd.ref.id, row |-> m,
                     coins |-> -(plan.delta + plan.bonusDelta)] \in new
<1>1. /\ Coherent(cmd) /\ cmd \in Command /\ plan = planFor(cmd)
      /\ Cleared(cmd) /\ plan.err = NoError
  BY DEF Commits, Payable
<1>2. ASSUME NEW x \in UnlockRows(cmd, m)
      PROVE  /\ x.user = cmd.user /\ x.row = m
             /\ x.chapter \notin Owned(cmd.user)
             /\ cmd.kind = "spend_unlock"
  <2>1. cmd.child \in {"unlock", "arc"}
    BY DEF UnlockRows
  <2>2. PICK i \in cmd.items : x = [user |-> cmd.user, chapter |-> i.chapter,
                                   coins |-> i.coins, row |-> m]
    BY <2>1 DEF UnlockRows
  <2>3. \A j \in cmd.items : j.chapter \notin Owned(cmd.user)
    BY <1>1, <2>1 DEF Cleared, Checked, UnlockError
  <2> QED BY <1>1, <2>1, <2>2, <2>3 DEF Coherent
<1>3. \A x, y \in UnlockRows(cmd, m) : x.chapter = y.chapter => x = y
  BY <1>1 DEF UnlockRows, Coherent
<1>4. ASSUME cmd.kind = "spend_unlock", cmd.ref.type # "arc_bundle"
      PROVE  [user |-> cmd.user, chapter |-> cmd.ref.id, row |-> m,
              coins |-> -(plan.delta + plan.bonusDelta)] \in UnlockRows(cmd, m)
  <2>1. cmd.child = "unlock"
    BY <1>1, <1>4 DEF Coherent
  <2>2. PICK i \in Item : cmd.items = {i} /\ i.chapter = cmd.ref.id /\ i.coins = cmd.coins
    BY <1>1, <2>1 DEF Coherent
  <2>3. plan.delta + plan.bonusDelta = -cmd.coins /\ cmd.coins \in Int
    <3>1. plan = PlanSpend(wallet[cmd.user], cmd.coins, cmd.at)
      BY <1>1, <1>4 DEF planFor
    <3> QED BY <1>1, <3>1, SpendPlan DEF Known, TypeOK, Command
  <2>4. plan.delta \in Int /\ plan.bonusDelta \in Int
    BY DEF Commits, Writes, PlanOK
  <2>5. -(plan.delta + plan.bonusDelta) = i.coins
    BY <2>2, <2>3, <2>4
  <2> QED BY <2>1, <2>2, <2>5 DEF UnlockRows
<1> QED BY <1>2, <1>3, <1>4

LEMMA DebitNext == Known /\ OneDebitPerChapter /\ [Next]_vars => OneDebitPerChapter'
<1> SUFFICES ASSUME Known, OneDebitPerChapter, [Next]_vars PROVE OneDebitPerChapter'
  OBVIOUS
<1>1. CASE UNCHANGED money
  BY <1>1 DEF OneDebitPerChapter, money
<1>2. ASSUME NEW cmd, NEW plan, NEW n, NEW m, Commits(cmd, plan, n, m)
      PROVE  OneDebitPerChapter'
  <2> DEFINE u   == cmd.user
             new == UnlockRows(cmd, m)
  <2>1. /\ u \in User /\ n \in Nat /\ m \in {n + 1, n + 2}
        /\ DOMAIN ledger[u] = 1 .. n /\ DOMAIN ledger'[u] = 1 .. m
        /\ \A i \in 1 .. n : ledger'[u][i] = ledger[u][i]
        /\ ledger'[u][m].kind = cmd.kind /\ ledger'[u][m].ref = cmd.ref
        /\ ledger'[u][m].delta = plan.delta
        /\ ledger'[u][m].bonusDelta = plan.bonusDelta
        /\ m = n + 2 => ledger'[u][n + 1].kind = "bonus_expire"
        /\ unlocks' = unlocks \cup new
        /\ \A v \in User \ {u} : ledger'[v] = ledger[v]
    BY <1>2 DEF Commits, Writes, EntryRow, LedgerRow
  <2>2. /\ \A x \in new : /\ x.user = u /\ x.row = m /\ x.chapter \notin Owned(u)
                         /\ cmd.kind = "spend_unlock"
        /\ \A x, y \in new : x.chapter = y.chapter => x = y
        /\ cmd.kind = "spend_unlock" /\ cmd.ref.type # "arc_bundle" =>
             [user |-> u, chapter |-> cmd.ref.id, row |-> m,
              coins |-> -(plan.delta + plan.bonusDelta)] \in new
    BY <1>2, UnlockWrites
  <2> HIDE DEF new, u
  <2>3. ASSUME NEW x \in unlocks', NEW y \in unlocks',
               x.user = y.user, x.chapter = y.chapter
        PROVE  x = y
    <3>1. \A z \in unlocks : z.user = u => z.chapter \in Owned(u)
      BY DEF Owned
    <3> QED BY <2>1, <2>2, <2>3, <3>1 DEF OneDebitPerChapter
  <2>4. ASSUME NEW v \in User, NEW i \in DOMAIN ledger'[v],
               ledger'[v][i].kind = "spend_unlock",
               ledger'[v][i].ref.type # "arc_bundle"
        PROVE  [user |-> v, chapter |-> ledger'[v][i].ref.id, row |-> i,
                coins |-> -(ledger'[v][i].delta + ledger'[v][i].bonusDelta)] \in unlocks'
    <3>1. CASE v = u /\ i = m
      BY <2>1, <2>2, <2>4, <3>1
    <3>2. CASE v # u \/ i # m
      <4>1. i \in DOMAIN ledger[v] /\ ledger'[v][i] = ledger[v][i]
        <5>1. CASE v = u
          <6>1. i \in 1 .. m /\ i # m /\ ledger'[u][i].kind = "spend_unlock"
            BY <2>1, <2>4, <3>2, <5>1
          <6>2. i \in 1 .. n
            BY <2>1, <6>1
          <6> QED BY <2>1, <5>1, <6>2
        <5> QED BY <2>1, <2>4, <5>1
      <4> QED BY <2>1, <2>4, <4>1 DEF OneDebitPerChapter
    <3> QED BY <3>1, <3>2
  <2>5. ASSUME NEW x \in unlocks'
        PROVE  /\ x.row \in DOMAIN ledger'[x.user]
               /\ ledger'[x.user][x.row].kind = "spend_unlock"
    <3>1. CASE x \in new
      <4>1. x.user = u /\ x.row = m /\ cmd.kind = "spend_unlock"
        BY <2>2, <3>1
      <4> QED BY <2>1, <4>1
    <3>2. CASE x \in unlocks
      <4>1. /\ x.user \in User /\ x.row \in DOMAIN ledger[x.user]
            /\ ledger[x.user][x.row].kind = "spend_unlock"
        BY <3>2 DEF OneDebitPerChapter, Known, TypeOK
      <4>2. CASE x.user = u
        BY <2>1, <4>1, <4>2
      <4>3. CASE x.user # u
        BY <2>1, <4>1, <4>3
      <4> QED BY <4>2, <4>3
    <3> QED BY <2>1, <3>1, <3>2
  <2> QED BY <2>3, <2>4, <2>5 DEF OneDebitPerChapter
<1> QED BY <1>1, <1>2, MoneySteps

(* Whatever unlocks, auto-unlocks and bundles race, a reader pays for a    *)
(* chapter once, and an unlock row and its debit name each other.          *)
THEOREM OneDebitPerChapterCorrect == Spec => []OneDebitPerChapter
<1>1. Init => OneDebitPerChapter
  <2> SUFFICES ASSUME Init PROVE OneDebitPerChapter
    OBVIOUS
  <2>1. unlocks = {}
    BY DEF Init
  <2>2. \A u \in User : \A i \in DOMAIN ledger[u] : ledger[u][i].kind = "adjust"
    BY OpeningShape
  <2> QED BY <2>1, <2>2 DEF OneDebitPerChapter
<1> QED BY <1>1, DebitNext, CommandsCorrect, PTL DEF Spec

-----------------------------------------------------------------------------
(* One credit per purchase.                                                *)

LEMMA CreditsGrow ==
    ASSUME Known, NEW cmd, NEW plan, NEW n, NEW m, Commits(cmd, plan, n, m), NEW p
    PROVE  CreditsOf(ledger', p) = CreditsOf(ledger, p) \cup
              IF cmd.kind = "topup" /\ cmd.ref = Ref("purchase", p)
              THEN {<<cmd.user, m>>} ELSE {}
<1>1. /\ cmd.user \in User /\ n \in Nat /\ m \in {n + 1, n + 2}
      /\ DOMAIN ledger[cmd.user] = 1 .. n /\ DOMAIN ledger'[cmd.user] = 1 .. m
      /\ \A i \in 1 .. n : ledger'[cmd.user][i] = ledger[cmd.user][i]
      /\ ledger'[cmd.user][m].kind = cmd.kind /\ ledger'[cmd.user][m].ref = cmd.ref
      /\ m = n + 2 => ledger'[cmd.user][n + 1].kind = "bonus_expire"
      /\ \A v \in User \ {cmd.user} : ledger'[v] = ledger[v]
  BY DEF Commits, Writes, EntryRow, LedgerRow
<1> DEFINE Credit(l, u, i) == /\ i \in DOMAIN l[u]
                              /\ l[u][i].kind = "topup"
                              /\ l[u][i].ref = Ref("purchase", p)
           hit == cmd.kind = "topup" /\ cmd.ref = Ref("purchase", p)
<1>2. ASSUME NEW u \in User, NEW i
      PROVE  Credit(ledger', u, i)
               <=> Credit(ledger, u, i) \/ (hit /\ u = cmd.user /\ i = m)
  <2>1. CASE u # cmd.user
    BY <1>1, <2>1
  <2>2. CASE u = cmd.user /\ i \in 1 .. n
    BY <1>1, <2>2
  <2>3. CASE u = cmd.user /\ i = m
    BY <1>1, <2>3
  <2>4. CASE u = cmd.user /\ i \notin 1 .. n /\ i # m
    <3>1. i \in 1 .. m => i = n + 1 /\ m = n + 2
      BY <1>1, <2>4
    <3> QED BY <1>1, <2>4, <3>1
  <2> QED BY <2>1, <2>2, <2>3, <2>4
<1>3. \A l, x : x \in CreditsOf(l, p)
                 <=> \E u \in User : \E i \in DOMAIN l[u] : x = <<u, i>> /\ Credit(l, u, i)
  BY DEF CreditsOf
<1> HIDE DEF Credit, hit
<1>4. ASSUME NEW l, NEW u \in User, NEW i, Credit(l, u, i) PROVE i \in DOMAIN l[u]
  BY <1>4 DEF Credit
<1>5. ASSUME NEW x
      PROVE  x \in CreditsOf(ledger', p)
               <=> x \in CreditsOf(ledger, p) \/ (hit /\ x = <<cmd.user, m>>)
  <2>1. x \in CreditsOf(ledger', p) => x \in CreditsOf(ledger, p) \/ (hit /\ x = <<cmd.user, m>>)
    BY <1>2, <1>3, <1>4
  <2>2. x \in CreditsOf(ledger, p) \/ (hit /\ x = <<cmd.user, m>>) => x \in CreditsOf(ledger', p)
    BY <1>1, <1>2, <1>3, <1>4
  <2> QED BY <2>1, <2>2
<1>6. CASE hit
  BY <1>5, <1>6 DEF hit
<1>7. CASE ~hit
  BY <1>5, <1>7 DEF hit
<1> QED BY <1>6, <1>7

LEMMA PurchaseNext == Known /\ PurchaseCreditedOnce /\ [Next]_vars => PurchaseCreditedOnce'
<1> SUFFICES ASSUME Known, PurchaseCreditedOnce, [Next]_vars PROVE PurchaseCreditedOnce'
  OBVIOUS
<1>1. CASE UNCHANGED money /\ UNCHANGED purchases
  BY <1>1 DEF PurchaseCreditedOnce, money
<1>2. CASE UNCHANGED money /\ PurchaseSteps
  <2>1. ASSUME NEW p \in Purchase
        PROVE  purchases'[p] = purchases[p]
               \/ (purchases'[p].status # "succeeded" /\ purchases[p].status # "succeeded")
    BY <1>2 DEF PurchaseSteps, CreatePurchase, FailPurchase, UnusedPurchases, Known, TypeOK,
                PurchaseRows, NoPurchase
  <2> QED BY <1>2, <2>1 DEF PurchaseCreditedOnce, money
<1>3. ASSUME NEW cmd, NEW plan, NEW n, NEW m, Commits(cmd, plan, n, m), NEW p \in Purchase
      PROVE  IF purchases'[p].status = "succeeded"
             THEN \E i \in DOMAIN ledger'[purchases'[p].user] :
                     CreditsOf(ledger', p) = {<<purchases'[p].user, i>>}
             ELSE CreditsOf(ledger', p) = {}
  <2> DEFINE hit == cmd.kind = "topup" /\ cmd.ref = Ref("purchase", p)
  <2>1. CreditsOf(ledger', p)
          = CreditsOf(ledger, p) \cup IF hit THEN {<<cmd.user, m>>} ELSE {}
    BY <1>3, CreditsGrow
  <2>2. /\ cmd \in Command /\ Coherent(cmd) /\ n \in Nat /\ m \in {n + 1, n + 2}
        /\ cmd.user \in User
        /\ DOMAIN ledger[cmd.user] = 1 .. n /\ DOMAIN ledger'[cmd.user] = 1 .. m
        /\ \A v \in User \ {cmd.user} : ledger'[v] = ledger[v]
        /\ purchases' = IF cmd.child = "purchase"
                        THEN [purchases EXCEPT ![cmd.ref.id].status = "succeeded"]
                        ELSE purchases
        /\ cmd.child = "purchase" => PurchaseError(cmd) = NoError
    BY <1>3 DEF Commits, Writes, Cleared
  <2>3. hit <=> cmd.child = "purchase" /\ cmd.ref.id = p
    BY <2>2 DEF Coherent, Command, Refs, Ref
  <2>4. purchases \in [Purchase -> PurchaseRows \cup {NoPurchase}]
    BY DEF Known, TypeOK
  <2>5. CASE hit
    <3>1. purchases[p].user = cmd.user /\ purchases[p].status = "pending"
      BY <2>2, <2>3, <2>5 DEF PurchaseError, NoError
    <3>2. purchases'[p].status = "succeeded" /\ purchases'[p].user = cmd.user
      BY <2>2, <2>3, <2>4, <2>5, <3>1 DEF PurchaseRows, NoPurchase
    <3>3. CreditsOf(ledger, p) = {}
      BY <3>1 DEF PurchaseCreditedOnce
    <3>4. CreditsOf(ledger', p) = {<<cmd.user, m>>} /\ m \in DOMAIN ledger'[cmd.user]
      BY <2>1, <2>2, <2>5, <3>3
    <3> HIDE DEF hit
    <3> QED BY <3>2, <3>4
  <2>6. CASE ~hit
    <3>1. purchases'[p] = purchases[p]
      BY <2>2, <2>3, <2>4, <2>6
    <3>2. CreditsOf(ledger', p) = CreditsOf(ledger, p)
      BY <2>1, <2>6
    <3>3. CASE purchases[p].status = "succeeded"
      <4>1. purchases[p].user \in User
        BY <2>4, <3>3 DEF PurchaseRows, NoPurchase
      <4>2. DOMAIN ledger[purchases[p].user] \subseteq DOMAIN ledger'[purchases[p].user]
        BY <2>2, <4>1
      <4>3. PICK i \in DOMAIN ledger[purchases[p].user] :
                CreditsOf(ledger, p) = {<<purchases[p].user, i>>}
        BY <3>3 DEF PurchaseCreditedOnce
      <4> HIDE DEF hit
      <4> QED BY <3>1, <3>2, <3>3, <4>2, <4>3
    <3>4. CASE purchases[p].status # "succeeded"
      BY <3>1, <3>2, <3>4 DEF PurchaseCreditedOnce
    <3> QED BY <3>3, <3>4
  <2> QED BY <2>5, <2>6
<1>4. ASSUME NEW cmd, NEW plan, NEW n, NEW m, Commits(cmd, plan, n, m)
      PROVE  PurchaseCreditedOnce'
  BY <1>3, <1>4 DEF PurchaseCreditedOnce
<1> QED BY <1>1, <1>2, <1>4, MoneySteps

(* Whatever completions, retries and failures of a purchase race, it is    *)
(* credited once if it succeeded and not at all otherwise.                 *)
THEOREM PurchaseCreditedOnceCorrect == Spec => []PurchaseCreditedOnce
<1>1. Init => PurchaseCreditedOnce
  <2> SUFFICES ASSUME Init, NEW p \in Purchase
               PROVE  purchases[p].status # "succeeded" /\ CreditsOf(ledger, p) = {}
    BY DEF PurchaseCreditedOnce
  <2>1. \A u \in User : \A i \in DOMAIN ledger[u] : ledger[u][i].kind = "adjust"
    BY OpeningShape
  <2> QED BY <2>1 DEF Init, NoPurchase, CreditsOf
<1> QED BY <1>1, PurchaseNext, CommandsCorrect, PTL DEF Spec

-----------------------------------------------------------------------------
(* The ledger reconciles.                                                  *)

LEMMA SumOneMore ==
    ASSUME NEW n \in Nat, NEW f \in [1 .. n -> Int], NEW g \in [1 .. n + 1 -> Int],
           \A i \in 1 .. n : g[i] = f[i]
    PROVE  SumFunction(g) = SumFunction(f) + g[n + 1] /\ SumFunction(f) \in Int
<1>1. IsFiniteSet(1 .. n)
  BY FS_Interval
<1>2. 1 .. n + 1 = (1 .. n) \cup {n + 1} /\ n + 1 \notin 1 .. n
  OBVIOUS
<1>3. SumFunctionOnSet(g, (1 .. n) \cup {n + 1}) = g[n + 1] + SumFunctionOnSet(g, 1 .. n)
  BY <1>1, <1>2, SumAdd
<1>4. SumFunctionOnSet(g, 1 .. n) = SumFunctionOnSet(f, 1 .. n)
  BY <1>1, SumCongruence
<1>5. SumFunctionOnSet(f, 1 .. n) \in Int
  BY <1>1, SumIsInt
<1>6. g[n + 1] \in Int /\ DOMAIN f = 1 .. n /\ DOMAIN g = 1 .. n + 1
  OBVIOUS
<1>7. /\ SumFunction(f) = SumFunctionOnSet(f, 1 .. n)
      /\ SumFunction(g) = SumFunctionOnSet(g, (1 .. n) \cup {n + 1})
  BY <1>2, <1>6 DEF SumFunction
<1> QED BY <1>3, <1>4, <1>5, <1>6, <1>7

(* Appending one amount, or two, to a column of amounts.                   *)
LEMMA ColumnGrows ==
    ASSUME NEW n \in Nat, NEW m \in {n + 1, n + 2},
           NEW f \in [1 .. n -> Int], NEW g \in [1 .. m -> Int],
           \A i \in 1 .. n : g[i] = f[i]
    PROVE  SumFunction(g)
             = SumFunction(f) + g[m] + IF m = n + 2 THEN g[n + 1] ELSE 0
<1>1. CASE m = n + 1
  BY <1>1, SumOneMore
<1>2. CASE m = n + 2
  <2> DEFINE h == [i \in 1 .. n + 1 |-> g[i]]
  <2>1. h \in [1 .. n + 1 -> Int] /\ h[n + 1] = g[n + 1]
    BY <1>2
  <2>2. (\A i \in 1 .. n : h[i] = f[i]) /\ (\A i \in 1 .. n + 1 : g[i] = h[i])
    OBVIOUS
  <2> HIDE DEF h
  <2>3. SumFunction(h) = SumFunction(f) + h[n + 1] /\ SumFunction(f) \in Int
    BY <2>1, <2>2, SumOneMore
  <2>4. n + 1 \in Nat /\ (n + 1) + 1 = n + 2 /\ g \in [1 .. (n + 1) + 1 -> Int]
    BY <1>2
  <2>5. SumFunction(g) = SumFunction(h) + g[(n + 1) + 1]
    BY <2>1, <2>2, <2>4, SumOneMore
  <2>6. g[n + 1] \in Int /\ g[n + 2] \in Int
    BY <1>2
  <2> QED BY <1>2, <2>1, <2>3, <2>4, <2>5, <2>6
<1> QED BY <1>1, <1>2

Balanced(l, b) ==
    /\ SumFunction([i \in DOMAIN l |-> l[i].delta]) = b.paid
    /\ SumFunction([i \in DOMAIN l |-> l[i].bonusDelta]) = b.bonus

LEMMA ReconcilesInit == Init => Reconciles
<1> SUFFICES ASSUME Init, NEW u \in User PROVE Balanced(ledger[u], wallet[u])
  BY DEF Reconciles, Balanced
<1> DEFINE l == ledger[u]
           d == [i \in DOMAIN l |-> l[i].delta]
           b == [i \in DOMAIN l |-> l[i].bonusDelta]
<1>1. CASE l = << >> /\ wallet[u].paid = 0 /\ wallet[u].bonus = 0
  <2>1. DOMAIN d = {} /\ DOMAIN b = {}
    BY <1>1
  <2> HIDE DEF d, b
  <2>2. SumFunction(d) = 0 /\ SumFunction(b) = 0
    BY <2>1, SumEmpty DEF SumFunction
  <2> QED BY <1>1, <2>2 DEF Balanced, d, b
<1>2. CASE /\ DOMAIN l = {1}
           /\ l[1].delta = wallet[u].paid /\ l[1].bonusDelta = wallet[u].bonus
           /\ wallet[u].paid \in Nat /\ wallet[u].bonus \in Nat
  <2> DEFINE none == [i \in 1 .. 0 |-> 0]
  <2>1. /\ d \in [1 .. 0 + 1 -> Int] /\ b \in [1 .. 0 + 1 -> Int]
        /\ d[1] = wallet[u].paid /\ b[1] = wallet[u].bonus
    BY <1>2
  <2>2. none \in [1 .. 0 -> Int] /\ DOMAIN none = {}
    OBVIOUS
  <2> HIDE DEF d, b, none
  <2>3. SumFunction(none) = 0
    BY <2>2, SumEmpty DEF SumFunction
  <2>4. SumFunction(d) = SumFunction(none) + d[0 + 1]
    BY <2>1, <2>2, SumOneMore
  <2>5. SumFunction(b) = SumFunction(none) + b[0 + 1]
    BY <2>1, <2>2, SumOneMore
  <2> QED BY <1>2, <2>1, <2>3, <2>4, <2>5 DEF Balanced, d, b
<1> QED BY <1>1, <1>2, OpeningShape

LEMMA ReconcilesNext == Known /\ Reconciles /\ [Next]_vars => Reconciles'
<1> SUFFICES ASSUME Known, Reconciles, [Next]_vars PROVE Reconciles'
  OBVIOUS
<1>1. CASE UNCHANGED money
  BY <1>1 DEF Reconciles, money
<1>2. ASSUME NEW cmd, NEW plan, NEW n, NEW m, Commits(cmd, plan, n, m)
      PROVE  Reconciles'
  <2> DEFINE u == cmd.user
             l == ledger[u]
             k == ledger'[u]
             f == [i \in DOMAIN l |-> l[i].delta]
             g == [i \in DOMAIN k |-> k[i].delta]
             fb == [i \in DOMAIN l |-> l[i].bonusDelta]
             gb == [i \in DOMAIN k |-> k[i].bonusDelta]
  <2>1. /\ u \in User /\ n \in Nat /\ m \in {n + 1, n + 2}
        /\ PlanOK(wallet[u], plan)
        /\ m = IF plan.lapsed = 0 THEN n + 1 ELSE n + 2
        /\ DOMAIN l = 1 .. n /\ DOMAIN k = 1 .. m
        /\ \A i \in 1 .. n : k[i] = l[i]
        /\ k[m].delta = plan.delta /\ k[m].bonusDelta = plan.bonusDelta
        /\ plan.lapsed # 0 => k[n + 1].delta = 0 /\ k[n + 1].bonusDelta = -plan.lapsed
        /\ wallet'[u] = plan.result
        /\ \A v \in User \ {u} : ledger'[v] = ledger[v] /\ wallet'[v] = wallet[v]
    BY <1>2 DEF Commits, Writes, EntryRow, LedgerRow
  <2>2. l \in Seq(Row) /\ wallet[u].paid \in Nat /\ wallet[u].bonus \in Nat
    BY <2>1 DEF Known, TypeOK, Balances
  <2>3. \A i \in 1 .. n : l[i] \in Row
    BY <2>1, <2>2
  <2>4. \A i \in 1 .. n : l[i].delta \in Int /\ l[i].bonusDelta \in Int
    BY <2>3 DEF Row
  <2>5. SumFunction(f) = wallet[u].paid /\ SumFunction(fb) = wallet[u].bonus
    BY <2>1 DEF Reconciles
  <2> HIDE DEF l, k, u
  <2>6. \A i \in 1 .. m : i \in 1 .. n \/ i = m \/ (i = n + 1 /\ m = n + 2)
    BY <2>1
  <2>7. \A i \in 1 .. m : k[i].delta \in Int /\ k[i].bonusDelta \in Int
    BY <2>1, <2>2, <2>4, <2>6 DEF PlanOK
  <2>8. /\ f \in [1 .. n -> Int] /\ g \in [1 .. m -> Int]
        /\ fb \in [1 .. n -> Int] /\ gb \in [1 .. m -> Int]
        /\ \A i \in 1 .. n : g[i] = f[i] /\ gb[i] = fb[i]
        /\ g[m] = plan.delta /\ gb[m] = plan.bonusDelta
        /\ m = n + 2 => g[n + 1] = 0 /\ gb[n + 1] = -plan.lapsed
    BY <2>1, <2>4, <2>7
  <2> HIDE DEF f, g, fb, gb
  <2>9. /\ SumFunction(g)
             = SumFunction(f) + g[m] + IF m = n + 2 THEN g[n + 1] ELSE 0
        /\ SumFunction(gb)
             = SumFunction(fb) + gb[m] + IF m = n + 2 THEN gb[n + 1] ELSE 0
    BY <2>1, <2>8, ColumnGrows
  <2>10. SumFunction(g) = plan.result.paid /\ SumFunction(gb) = plan.result.bonus
    <3>1. /\ plan.lapsed \in {0, wallet[u].bonus}
          /\ plan.delta \in Int /\ plan.bonusDelta \in Int
          /\ plan.result.paid = wallet[u].paid + plan.delta
          /\ plan.result.bonus = wallet[u].bonus - plan.lapsed + plan.bonusDelta
      BY <2>1 DEF PlanOK
    <3>2. CASE plan.lapsed = 0
      <4>1. m # n + 2
        BY <2>1, <3>2
      <4>2. /\ SumFunction(g) = SumFunction(f) + g[m] + 0
            /\ SumFunction(gb) = SumFunction(fb) + gb[m] + 0
        BY <2>9, <4>1
      <4>3. g[m] = plan.delta /\ gb[m] = plan.bonusDelta
        BY <2>8
      <4> QED BY <2>2, <2>5, <3>1, <3>2, <4>2, <4>3
    <3>3. CASE plan.lapsed # 0
      <4>1. m = n + 2
        BY <2>1, <3>3
      <4>2. /\ SumFunction(g) = SumFunction(f) + g[m] + g[n + 1]
            /\ SumFunction(gb) = SumFunction(fb) + gb[m] + gb[n + 1]
        BY <2>9, <4>1
      <4>3. /\ g[m] = plan.delta /\ gb[m] = plan.bonusDelta
            /\ g[n + 1] = 0 /\ gb[n + 1] = -plan.lapsed
        BY <2>8, <4>1
      <4>4. plan.lapsed = wallet[u].bonus
        BY <3>1, <3>3
      <4> QED BY <2>2, <2>5, <3>1, <4>2, <4>3, <4>4
    <3> QED BY <3>2, <3>3
  <2>11. Balanced(k, plan.result)
    BY <2>10 DEF Balanced, g, gb
  <2>12. ASSUME NEW v \in User PROVE Balanced(ledger'[v], wallet'[v])
    <3>1. CASE v = u
      BY <2>1, <2>11, <3>1 DEF k
    <3>2. CASE v # u
      <4>1. Balanced(ledger[v], wallet[v])
        BY DEF Reconciles, Balanced
      <4> QED BY <2>1, <3>2, <4>1
    <3> QED BY <3>1, <3>2
  <2> QED BY <2>12 DEF Reconciles, Balanced
<1> QED BY <1>1, <1>2, MoneySteps

(* The reconcile job never finds a difference: the deltas of a ledger of   *)
(* any length add up to its wallet, for both kinds of coins.               *)
THEOREM ReconcilesCorrect == Spec => []Reconciles
<1>1. Init => Reconciles
  BY ReconcilesInit
<1> QED BY <1>1, ReconcilesNext, CommandsCorrect, PTL DEF Spec

-----------------------------------------------------------------------------
(* The child rows account for the money.                                   *)

(* What DebitAccounted says of row i of u's ledger, given the unlocks and  *)
(* the earnings that name it.                                              *)
RowAccounted(u, row, bought, earned) ==
    LET debit == -(row.delta + row.bonusDelta)
    IN  /\ row.kind = "spend_unlock" =>
              /\ SumFunction([x \in bought |-> x.coins]) = debit
              /\ \A x \in bought : TranslatorOf[x.chapter] \notin {NoWriter, u} =>
                    \E e \in earned : e.chapter = x.chapter
              /\ \A e \in earned : \E x \in bought :
                    x.chapter = e.chapter /\ x.coins = e.gross
              /\ \A e, f \in earned : e.chapter = f.chapter => e = f
        /\ row.kind = "tip" =>
              \E e \in earned : /\ earned = {e} /\ e.gross = debit
                                /\ e.chapter = row.ref.id
        /\ row.kind \notin {"spend_unlock", "tip"} => bought = {} /\ earned = {}
        /\ \A e \in earned : /\ e.writer = TranslatorOf[e.chapter] /\ e.writer # u
                              /\ e.net \in 0 .. e.gross

(* Every earning names a row of its reader's ledger.                       *)
EarningsFiled == \A e \in earnings : e.user \in User /\ e.row \in DOMAIN ledger[e.user]

Accounting == OneDebitPerChapter /\ DebitAccounted /\ EarningsFiled

(* The fee is never more than the coins.                                   *)
LEMMA NetIsPart ==
    ASSUME NEW gross \in Nat
    PROVE  NetCoins(gross, FeePercent) \in 0 .. gross
<1>1. FeePercent \in 0 .. 100
  BY PolicyAssumption
<1> DEFINE fee == gross * FeePercent
<1>2. fee \in Nat /\ fee <= gross * 100
  BY <1>1
<1>3. NetCoins(gross, FeePercent) \in {gross, 0, gross - fee \div 100}
  BY DEF NetCoins
<1> HIDE DEF fee
<1>4. fee \div 100 \in 0 .. gross
  BY <1>2
<1> QED BY <1>3, <1>4

(* The unlock rows of a command carry the coins of its items.              *)
LEMMA UnlockRowsSum ==
    ASSUME NEW cmd \in Command, Coherent(cmd), NEW m, cmd.child \in {"unlock", "arc"}
    PROVE  SumFunction([x \in UnlockRows(cmd, m) |-> x.coins])
             = SumFunction([i \in cmd.items |-> i.coins])
<1> DEFINE S == cmd.items
           new == UnlockRows(cmd, m)
           e == [i \in S |-> [user |-> cmd.user, chapter |-> i.chapter,
                              coins |-> i.coins, row |-> m]]
           f == [i \in S |-> i.coins]
           g == [x \in new |-> x.coins]
<1>1. new = {e[i] : i \in S}
  BY DEF UnlockRows
<1>2. \A i, j \in S : e[i] = e[j] => i = j
  BY DEF Coherent
<1>3. \A i \in S : f[i] \in Int /\ g[e[i]] = f[i]
  BY <1>1 DEF Command, Item
<1>4. IsFiniteSet(S)
  BY DEF Coherent
<1>5. DOMAIN f = S /\ DOMAIN g = new
  OBVIOUS
<1> HIDE DEF S, new, e, f, g
<1>6. SumFunctionOnSet(g, new) = SumFunctionOnSet(f, S)
  BY <1>1, <1>2, <1>3, <1>4, SumReindexed
<1> QED BY <1>5, <1>6 DEF SumFunction, S, new, f, g

LEMMA TipPlan ==
    ASSUME NEW b \in Balances, NEW amount \in Int, NEW t \in Nat,
           PlanSpendPaidOnly(b, amount, t).err = NoError
    PROVE  LET p == PlanSpendPaidOnly(b, amount, t)
           IN  p.delta = -amount /\ p.bonusDelta = 0
  BY DEF PlanSpendPaidOnly, Planned, Refused

(* A commit's own row is accounted for by the rows it writes with it.      *)
LEMMA EntryAccounted ==
    ASSUME Known, NEW cmd, NEW plan, NEW n, NEW m, Commits(cmd, plan, n, m)
    PROVE  RowAccounted(cmd.user, EntryRow(cmd, plan), UnlockRows(cmd, m),
                        EarningRows(cmd, m))
<1> DEFINE row == EntryRow(cmd, plan)
           bought == UnlockRows(cmd, m)
           earned == EarningRows(cmd, m)
<1>1. /\ Coherent(cmd) /\ cmd \in Command /\ plan = planFor(cmd)
      /\ plan.err = NoError /\ Allocated(cmd, plan)
  BY DEF Commits, Payable
<1>2. /\ wallet[cmd.user] \in Balances /\ cmd.coins \in Int /\ cmd.at \in Nat
      /\ cmd.child \in {"none", "unlock", "arc", "tip", "purchase"}
      /\ cmd.items \subseteq Item
  BY <1>1 DEF Known, TypeOK, Command
<1>3. plan.delta \in Int /\ plan.bonusDelta \in Int
  BY DEF Commits, Writes, PlanOK
<1>4. /\ row.kind = cmd.kind /\ row.delta = plan.delta
      /\ row.bonusDelta = plan.bonusDelta /\ row.ref = cmd.ref
  BY DEF EntryRow, LedgerRow
<1>5. ASSUME NEW e \in earned
      PROVE  \E i \in cmd.items :
                /\ e.writer = i.writer /\ e.chapter = i.chapter /\ e.gross = i.coins
                /\ e.net = NetCoins(i.coins, FeePercent)
                /\ i.writer # NoWriter
  BY DEF EarningRows
<1>6. \A e \in earned : /\ e.writer = TranslatorOf[e.chapter] /\ e.writer # cmd.user
                        /\ e.net \in 0 .. e.gross
  <2> TAKE e \in earned
  <2>1. PICK i \in cmd.items :
            /\ e.writer = i.writer /\ e.chapter = i.chapter /\ e.gross = i.coins
            /\ e.net = NetCoins(i.coins, FeePercent)
            /\ i.writer # NoWriter
    BY <1>5
  <2>2. i.coins \in Nat /\ i.writer = Credited(cmd.user, i.chapter)
    BY <1>1, <1>2 DEF Item, Coherent
  <2> QED BY <2>1, <2>2, NetIsPart DEF Credited
<1>7. CASE cmd.kind = "spend_unlock"
  <2>1. cmd.child \in {"unlock", "arc"}
    BY <1>1, <1>7 DEF Coherent
  <2>2. SumFunction([x \in bought |-> x.coins]) = SumFunction([i \in cmd.items |-> i.coins])
    BY <1>1, <2>1, UnlockRowsSum
  <2>3. SumFunction([i \in cmd.items |-> i.coins]) = -(plan.delta + plan.bonusDelta)
    <3>1. CASE cmd.child = "arc"
      BY <1>1, <3>1 DEF Allocated
    <3>2. CASE cmd.child = "unlock"
      <4>1. PICK i \in Item : cmd.items = {i} /\ i.coins = cmd.coins
        BY <1>1, <3>2 DEF Coherent
      <4>2. plan.delta + plan.bonusDelta = -cmd.coins
        <5>1. plan = PlanSpend(wallet[cmd.user], cmd.coins, cmd.at)
          BY <1>1, <1>7 DEF planFor
        <5> QED BY <1>1, <1>2, <5>1, SpendPlan
      <4> DEFINE f == [j \in cmd.items |-> j.coins]
      <4>3. DOMAIN f = {i} /\ f[i] = cmd.coins
        BY <4>1
      <4> HIDE DEF f
      <4>4. SumFunction(f) = cmd.coins
        BY <1>2, <4>3, SumSingle DEF SumFunction
      <4> QED BY <1>2, <1>3, <4>2, <4>4 DEF f
    <3> QED BY <2>1, <3>1, <3>2
  <2>4. ASSUME NEW e \in earned
        PROVE  \E x \in bought : x.chapter = e.chapter /\ x.coins = e.gross
    <3>1. PICK i \in cmd.items : e.chapter = i.chapter /\ e.gross = i.coins
      BY <1>5
    <3> DEFINE x == [user |-> cmd.user, chapter |-> i.chapter,
                     coins |-> i.coins, row |-> m]
    <3>2. x \in bought
      BY <2>1 DEF UnlockRows
    <3>3. x.chapter = e.chapter /\ x.coins = e.gross
      BY <3>1
    <3> HIDE DEF x
    <3> QED BY <3>2, <3>3
  <2>5. ASSUME NEW x \in bought, TranslatorOf[x.chapter] \notin {NoWriter, cmd.user}
        PROVE  \E e \in earned : e.chapter = x.chapter
    <3>1. PICK i \in cmd.items : x.chapter = i.chapter
      BY <2>1 DEF UnlockRows
    <3>2. i.writer # NoWriter
      BY <1>1, <2>5, <3>1 DEF Coherent, Credited
    <3> DEFINE e == [writer |-> i.writer, chapter |-> i.chapter, gross |-> i.coins,
                     net |-> NetCoins(i.coins, FeePercent), user |-> cmd.user, row |-> m,
                     kind |-> IF cmd.child = "tip" THEN "tip" ELSE "unlock"]
    <3>3. e \in earned
      BY <3>2 DEF EarningRows
    <3>4. e.chapter = x.chapter
      BY <3>1
    <3> HIDE DEF e
    <3> QED BY <3>3, <3>4
  <2>6. \A e, f \in earned : e.chapter = f.chapter => e = f
    <3>1. \A i, j \in cmd.items : i.chapter = j.chapter => i = j
      BY <1>1 DEF Coherent
    <3> QED BY <3>1 DEF EarningRows
  <2> HIDE DEF row, bought, earned
  <2> QED BY <1>4, <1>6, <1>7, <2>2, <2>3, <2>4, <2>5, <2>6
          DEF RowAccounted, row, bought, earned
<1>8. CASE cmd.kind = "tip"
  <2>1. PICK i \in Item : /\ cmd.items = {i} /\ i.coins = cmd.coins
                          /\ i.chapter = cmd.ref.id /\ i.writer # NoWriter
    BY <1>1, <1>8 DEF Coherent
  <2>2. plan.delta = -cmd.coins /\ plan.bonusDelta = 0
    <3>1. plan = PlanSpendPaidOnly(wallet[cmd.user], cmd.coins, cmd.at)
      BY <1>1, <1>8 DEF planFor
    <3> QED BY <1>1, <1>2, <3>1, TipPlan
  <2>3. \E e : earned = {e} /\ e.gross = cmd.coins /\ e.chapter = cmd.ref.id
    <3>1. {x \in cmd.items : x.writer # NoWriter} = {i}
      BY <2>1
    <3> DEFINE e(j) == [writer |-> j.writer, chapter |-> j.chapter, gross |-> j.coins,
                        net |-> NetCoins(j.coins, FeePercent), user |-> cmd.user,
                        row |-> m, kind |-> IF cmd.child = "tip" THEN "tip" ELSE "unlock"]
    <3>2. earned = {e(j) : j \in {i}}
      BY <3>1 DEF EarningRows
    <3>3. e(i).gross = cmd.coins /\ e(i).chapter = cmd.ref.id
      BY <2>1
    <3> HIDE DEF e, earned
    <3> QED BY <3>2, <3>3
  <2> HIDE DEF row, bought, earned
  <2>4. -(row.delta + row.bonusDelta) = cmd.coins
    BY <1>2, <1>4, <2>2
  <2> QED BY <1>4, <1>6, <1>8, <2>3, <2>4 DEF RowAccounted, row, bought, earned
<1>9. CASE cmd.kind \notin {"spend_unlock", "tip"}
  <2>1. cmd.child \in {"none", "purchase"} /\ cmd.items = {}
    BY <1>1, <1>2, <1>9 DEF Coherent
  <2>2. bought = {} /\ earned = {}
    BY <2>1 DEF UnlockRows, EarningRows
  <2> HIDE DEF row, bought, earned
  <2> QED BY <1>4, <1>6, <1>9, <2>2 DEF RowAccounted, row, bought, earned
<1> QED BY <1>7, <1>8, <1>9

(* The rows that a commit writes name its own ledger row.                  *)
LEMMA EarningWrites ==
    ASSUME NEW cmd, NEW m
    PROVE  \A e \in EarningRows(cmd, m) : e.user = cmd.user /\ e.row = m
  BY DEF EarningRows

LEMMA AccountingNext == Known /\ Accounting /\ [Next]_vars => Accounting'
<1> SUFFICES ASSUME Known, Accounting, [Next]_vars PROVE Accounting'
  OBVIOUS
<1>a. OneDebitPerChapter'
  BY DebitNext DEF Accounting
<1>1. CASE UNCHANGED money
  BY <1>1, <1>a DEF Accounting, DebitAccounted, EarningsFiled, money
<1>2. ASSUME NEW cmd, NEW plan, NEW n, NEW m, Commits(cmd, plan, n, m)
      PROVE  Accounting'
  <2>1. /\ cmd.user \in User /\ n \in Nat /\ m \in {n + 1, n + 2}
        /\ DOMAIN ledger[cmd.user] = 1 .. n /\ DOMAIN ledger'[cmd.user] = 1 .. m
        /\ \A i \in 1 .. n : ledger'[cmd.user][i] = ledger[cmd.user][i]
        /\ ledger'[cmd.user][m] = EntryRow(cmd, plan)
        /\ m = n + 2 => ledger'[cmd.user][n + 1].kind = "bonus_expire"
        /\ unlocks' = unlocks \cup UnlockRows(cmd, m)
        /\ earnings' = earnings \cup EarningRows(cmd, m)
        /\ \A v \in User \ {cmd.user} : ledger'[v] = ledger[v]
    BY <1>2 DEF Commits, Writes, LedgerRow
  <2>2. PICK u : u = cmd.user
    OBVIOUS
  <2>3. PICK new, paid : new = UnlockRows(cmd, m) /\ paid = EarningRows(cmd, m)
    OBVIOUS
  <2>a. \A x \in UnlockRows(cmd, m) : x.user = cmd.user /\ x.row = m
    BY DEF UnlockRows
  <2>4. /\ \A x \in new : x.user = u /\ x.row = m
        /\ \A e \in paid : e.user = u /\ e.row = m
    BY <2>2, <2>3, <2>a, EarningWrites
  <2>5. /\ \A x \in unlocks : x.row \in DOMAIN ledger[x.user]
        /\ \A e \in earnings : e.user \in User /\ e.row \in DOMAIN ledger[e.user]
    BY DEF Accounting, OneDebitPerChapter, EarningsFiled
  <2>b. ASSUME NEW v \in User, NEW i \in DOMAIN ledger[v]
        PROVE  RowAccounted(v, ledger[v][i], {x \in unlocks : x.user = v /\ x.row = i},
                            {e \in earnings : e.user = v /\ e.row = i})
    BY DEF Accounting, DebitAccounted, RowAccounted
  <2>6. EarningsFiled'
    <3> SUFFICES ASSUME NEW e \in earnings'
                 PROVE  e.user \in User /\ e.row \in DOMAIN ledger'[e.user]
      BY DEF EarningsFiled
    <3>1. CASE e \in paid
      BY <2>1, <2>2, <2>4, <3>1
    <3>2. CASE e \in earnings
      BY <2>1, <2>5, <3>2
    <3> QED BY <2>1, <2>3, <3>1, <3>2
  <2>7. ASSUME NEW v \in User, NEW i \in DOMAIN ledger'[v]
        PROVE  RowAccounted(v, ledger'[v][i], {x \in unlocks' : x.user = v /\ x.row = i},
                            {e \in earnings' : e.user = v /\ e.row = i})
    <3> DEFINE bought == {x \in unlocks : x.user = v /\ x.row = i}
               earned == {e \in earnings : e.user = v /\ e.row = i}
               boughtNow == {x \in unlocks' : x.user = v /\ x.row = i}
               earnedNow == {e \in earnings' : e.user = v /\ e.row = i}
    <3>1. CASE v = u /\ i = m
      <4>1. i \notin DOMAIN ledger[v]
        BY <2>1, <2>2, <3>1
      <4>2. bought = {} /\ earned = {}
        BY <2>5, <4>1
      <4>3. boughtNow = new /\ earnedNow = paid
        BY <2>1, <2>3, <2>4, <3>1, <4>2
      <4>4. RowAccounted(u, ledger'[u][m], new, paid)
        BY <1>2, <2>1, <2>2, <2>3, EntryAccounted
      <4> QED BY <3>1, <4>3, <4>4
    <3>2. CASE ~(v = u /\ i = m)
      <4>1. boughtNow = bought /\ earnedNow = earned
        BY <2>1, <2>3, <2>4, <3>2
      <4>2. CASE i \in DOMAIN ledger[v]
        <5>1. ledger'[v][i] = ledger[v][i]
          BY <2>1, <2>2, <4>2
        <5>2. RowAccounted(v, ledger[v][i], bought, earned)
          BY <2>b, <4>2
        <5> QED BY <4>1, <5>1, <5>2
      <4>3. CASE i \notin DOMAIN ledger[v]
        <5>1. v = u /\ i = n + 1 /\ m = n + 2
          BY <2>1, <2>2, <3>2, <4>3
        <5>2. ledger'[v][i].kind = "bonus_expire"
          BY <2>1, <2>2, <5>1
        <5>3. bought = {} /\ earned = {}
          BY <2>5, <4>3
        <5> HIDE DEF bought, earned
        <5>4. RowAccounted(v, ledger'[v][i], bought, earned)
          BY <5>2, <5>3 DEF RowAccounted
        <5> QED BY <4>1, <5>4
      <4> QED BY <4>2, <4>3
    <3> QED BY <3>1, <3>2
  <2>8. DebitAccounted'
    BY <2>7 DEF DebitAccounted, RowAccounted
  <2> QED BY <1>a, <2>6, <2>8 DEF Accounting
<1> QED BY <1>1, <1>2, MoneySteps

LEMMA AccountingInit == Init => Accounting
<1> SUFFICES ASSUME Init PROVE Accounting
  OBVIOUS
<1>1. unlocks = {} /\ earnings = {}
  BY DEF Init
<1>2. \A u \in User : \A i \in DOMAIN ledger[u] : ledger[u][i].kind = "adjust"
  BY OpeningShape
<1> QED BY <1>1, <1>2 DEF Accounting, OneDebitPerChapter, DebitAccounted, EarningsFiled

(* Rows of the key that bundles use are rows of bundles.                   *)
BundleRows ==
    \A u \in User : \A i \in DOMAIN ledger[u] :
        ledger[u][i].key.op = "arc_unlock" => ledger[u][i].ref.type = "arc_bundle"

LEMMA BundleRowsInit == Init => BundleRows
BY DEF Init, OpeningRows, BundleRows, namespaced

LEMMA BundleRowsNext == Known /\ BundleRows /\ [Next]_vars => BundleRows'
<1> SUFFICES ASSUME Known, BundleRows, [Next]_vars PROVE BundleRows'
  OBVIOUS
<1>1. CASE UNCHANGED money
  BY <1>1 DEF BundleRows, money
<1>2. ASSUME NEW cmd, NEW plan, NEW n, NEW m, Commits(cmd, plan, n, m)
      PROVE  BundleRows'
  <2>1. /\ cmd.user \in User /\ n \in Nat /\ m \in {n + 1, n + 2}
        /\ DOMAIN ledger[cmd.user] = 1 .. n /\ DOMAIN ledger'[cmd.user] = 1 .. m
        /\ \A i \in 1 .. n : ledger'[cmd.user][i] = ledger[cmd.user][i]
        /\ ledger'[cmd.user][m].key = cmd.key /\ ledger'[cmd.user][m].ref = cmd.ref
        /\ m = n + 2 => ledger'[cmd.user][n + 1].key = NoKey
        /\ \A v \in User \ {cmd.user} : ledger'[v] = ledger[v]
    BY <1>2 DEF Commits, Writes, EntryRow, LedgerRow
  <2>2. cmd.key.op = "arc_unlock" => cmd.ref.type = "arc_bundle"
    BY <1>2 DEF Commits, Coherent
  <2>3. NoKey.op # "arc_unlock"
    BY DEF NoKey, namespaced
  <2>4. ASSUME NEW u \in User, NEW i \in DOMAIN ledger'[u],
               ledger'[u][i].key.op = "arc_unlock"
        PROVE  ledger'[u][i].ref.type = "arc_bundle"
    <3>1. CASE u = cmd.user
      <4>1. i \in 1 .. n \/ i = m \/ (i = n + 1 /\ m = n + 2)
        BY <2>1, <3>1
      <4> QED BY <2>1, <2>2, <2>3, <2>4, <3>1, <4>1 DEF BundleRows
    <3>2. CASE u # cmd.user
      BY <2>1, <2>4, <3>2 DEF BundleRows
    <3> QED BY <3>1, <3>2
  <2> QED BY <2>4 DEF BundleRows
<1> QED BY <1>1, <1>2, MoneySteps

LEMMA ReceiptNext ==
    Known /\ BundleRows /\ ReceiptNamesOperation /\ [Next]_vars => ReceiptNamesOperation'
<1> SUFFICES ASSUME Known, BundleRows, ReceiptNamesOperation, [Next]_vars
             PROVE  ReceiptNamesOperation'
  OBVIOUS
<1>1. ASSUME NEW s \in Slot, ApplyReplay(s) PROVE ReceiptNamesOperation'
  BY <1>1 DEF ApplyReplay, Receipt, sameTarget, ReceiptNamesOperation
<1>2. ASSUME NEW s \in Slot, ApplyCommit(s) PROVE ReceiptNamesOperation'
  <2>1. PICK row : row = EntryRow(request[s], planFor(request[s]))
    OBVIOUS
  <2>2. row.ref = request[s].ref
    BY <2>1 DEF EntryRow, LedgerRow
  <2>3. reply' = Receipt(request[s], row)
    BY <1>2, <2>1 DEF ApplyCommit
  <2> QED BY <2>2, <2>3 DEF Receipt, ReceiptNamesOperation
<1>3. ASSUME NEW u \in User, NEW a \in Arc, NEW k \in ClientKey, ReplayByKey(u, a, k)
      PROVE  ReceiptNamesOperation'
  <2> DEFINE key == namespaced("arc_unlock", k)
  <2>1. PICK i : i = CHOOSE j \in RowsWithKey(u, key) : TRUE
    OBVIOUS
  <2>2. i \in RowsWithKey(u, key)
    BY <1>3, <2>1 DEF ReplayByKey
  <2>3. ledger[u][i].ref.type = "arc_bundle"
    BY <2>2 DEF RowsWithKey, BundleRows, namespaced
  <2>4. reply' = [user |-> u, ref |-> Ref("arc_bundle", a), row |-> ledger[u][i]]
    BY <1>3, <2>1 DEF ReplayByKey
  <2> QED BY <2>3, <2>4 DEF Ref, ReceiptNamesOperation
<1>4. CASE reply' = NoReply
  BY <1>4 DEF ReceiptNamesOperation
<1>5. CASE UNCHANGED vars
  BY <1>5 DEF vars, ReceiptNamesOperation
<1>6. ASSUME NEW s \in Slot, Submits(s) \/ ApplyRefused(s) \/ Abandon(s) \/ CheckBundle(s)
      PROVE  reply' = NoReply
  BY <1>6 DEF Submits, Submit, ApplyRefused, Abandon, CheckBundle
<1>7. CASE ReaderSteps
  BY <1>1, <1>2, <1>3, <1>4, <1>6, <1>7 DEF ReaderSteps
<1>8. PurchaseSteps \/ WorldSteps => reply' = NoReply
  BY DEF PurchaseSteps, CreatePurchase, FailPurchase, WorldSteps, RepriceChapter,
         PublishChapter, UnpublishChapter, SetSubscription, Tick, World
<1> QED BY <1>4, <1>5, <1>7, <1>8, NextShapes DEF Known

(* Every debit is explained by its child rows, the translators' credits    *)
(* neither missing nor doubled, and a receipt is of the operation that was *)
(* asked for, and of its target unless that is an arc: for any number of   *)
(* readers, translators, arcs and requests in flight, and any fee.         *)
THEOREM ReceiptsTruthfulCorrect == Spec => []ReceiptsTruthful
<1>1. Init => ReceiptNamesOperation
  BY DEF Init, ReceiptNamesOperation
<1>2. Accounting /\ ReceiptNamesOperation => ReceiptsTruthful
  BY DEF Accounting, ReceiptsTruthful
<1> QED BY <1>1, <1>2, AccountingInit, AccountingNext, BundleRowsInit, BundleRowsNext,
           ReceiptNext, CommandsCorrect, PTL DEF Spec

-----------------------------------------------------------------------------
(* Bundles.                                                                *)

LEMMA BundleCommit ==
    ASSUME Known, NEW cmd, NEW plan, NEW n, NEW m, Commits(cmd, plan, n, m),
           cmd.ref.type = "arc_bundle"
    PROVE  LET bought == {x.chapter : x \in unlocks' \ unlocks}
           IN  /\ bought # {}
               /\ bought \cap Owned(cmd.user) = {}
               /\ \E s \in Slot : PaidAsSeen(s, cmd.user, bought,
                                            -(plan.delta + plan.bonusDelta))
<1> DEFINE bought == {x.chapter : x \in unlocks' \ unlocks}
<1>1. /\ Coherent(cmd) /\ cmd \in Command /\ plan = planFor(cmd)
      /\ Cleared(cmd) /\ plan.err = NoError
      /\ unlocks' = unlocks \cup UnlockRows(cmd, m)
  BY DEF Commits, Payable, Writes
<1>2. cmd.child = "arc" /\ cmd.kind = "spend_unlock"
  BY <1>1 DEF Coherent
<1>3. PICK p : PricedAt(cmd, p)
  BY <1>1, <1>2 DEF Coherent
<1>4. PICK s \in Slot : request[s] = cmd /\ Checked(s)
  BY <1>1, <1>2 DEF Cleared
<1>5. /\ cmd # Idle
      /\ DOMAIN seen[s] = {i.chapter : i \in cmd.items}
      /\ \A i \in cmd.items : /\ i.chapter \notin Owned(cmd.user)
                              /\ seen[s][i.chapter].published
                              /\ seen[s][i.chapter].price = i.listPrice
  BY <1>4 DEF Checked
<1>6. bought = {i.chapter : i \in cmd.items}
  <2>1. UnlockRows(cmd, m) = {[user |-> cmd.user, chapter |-> i.chapter,
                               coins |-> i.coins, row |-> m] : i \in cmd.items}
    BY <1>2 DEF UnlockRows
  <2>2. \A x \in UnlockRows(cmd, m) : x.user = cmd.user /\ x.chapter \notin Owned(cmd.user)
    <3> TAKE x \in UnlockRows(cmd, m)
    <3>1. PICK i \in cmd.items : x = [user |-> cmd.user, chapter |-> i.chapter,
                                     coins |-> i.coins, row |-> m]
      BY <2>1
    <3> QED BY <1>5, <3>1
  <2>3. \A x \in unlocks : x.user = cmd.user => x.chapter \in Owned(cmd.user)
    BY DEF Owned
  <2>4. unlocks' \ unlocks = UnlockRows(cmd, m)
    BY <1>1, <2>2, <2>3
  <2>5. \A i \in cmd.items : \E x \in UnlockRows(cmd, m) : x.chapter = i.chapter
    <3> TAKE i \in cmd.items
    <3>1. [user |-> cmd.user, chapter |-> i.chapter, coins |-> i.coins, row |-> m]
            \in UnlockRows(cmd, m)
      BY <2>1
    <3> QED BY <3>1
  <2>6. \A x \in UnlockRows(cmd, m) : \E i \in cmd.items : x.chapter = i.chapter
    BY <2>1
  <2> QED BY <2>4, <2>5, <2>6
<1>7. bought = DOMAIN p /\ bought # {}
  BY <1>3, <1>6 DEF PricedAt
<1>8. \A c \in bought : /\ c \notin Owned(cmd.user)
                        /\ seen[s][c].published /\ p[c] = seen[s][c].price
  <2> TAKE c \in bought
  <2>1. PICK i \in cmd.items : c = i.chapter
    BY <1>6
  <2> QED BY <1>3, <1>5, <2>1 DEF PricedAt
<1> HIDE DEF bought
<1>9. p = [c \in bought |-> seen[s][c].price]
  <2>1. p = [c \in bought |-> p[c]]
    BY <1>3, <1>7 DEF PricedAt
  <2> QED BY <1>8, <2>1
<1>10. -(plan.delta + plan.bonusDelta) = cmd.coins
  <2>1. plan = PlanSpend(wallet[cmd.user], cmd.coins, cmd.at)
    BY <1>1, <1>2 DEF planFor
  <2>2. plan.delta + plan.bonusDelta = -cmd.coins /\ cmd.coins \in Int
    BY <1>1, <2>1, SpendPlan DEF Known, TypeOK, Command
  <2>3. plan.delta \in Int /\ plan.bonusDelta \in Int
    BY DEF Commits, Writes, PlanOK
  <2> QED BY <2>2, <2>3
<1>11. cmd.coins = QuoteBundle(p, ArcBundleDiscountPercent).total
  BY <1>3 DEF PricedAt
<1>12. PaidAsSeen(s, cmd.user, bought, -(plan.delta + plan.bonusDelta))
  BY <1>4, <1>5, <1>6, <1>8, <1>9, <1>10, <1>11 DEF PaidAsSeen
<1> QED BY <1>7, <1>8, <1>12 DEF bought

(* However prices, ownership and publication change between the quote, the *)
(* check and the payment, a bundle is paid at prices that its chapters all *)
(* had at one moment when the wallet was locked, or not at all.            *)
THEOREM BundleAtCheckedPricesCorrect == Spec => BundleAtCheckedPrices
<1> DEFINE Fair == \A u \in User : \A i \in DOMAIN ledger'[u] \ DOMAIN ledger[u] :
              LET row    == ledger'[u][i]
                  bought == {x.chapter : x \in unlocks' \ unlocks}
              IN  row.kind = "spend_unlock" /\ row.ref.type = "arc_bundle" =>
                    /\ bought # {}
                    /\ bought \cap Owned(u) = {}
                    /\ \E s \in Slot :
                          PaidAsSeen(s, u, bought, -(row.delta + row.bonusDelta))
<1>1. Known /\ [Next]_vars => [Fair]_vars
  <2> SUFFICES ASSUME Known, [Next]_vars PROVE Fair
    OBVIOUS
  <2>1. CASE UNCHANGED money
    BY <2>1 DEF money
  <2>2. ASSUME NEW cmd, NEW plan, NEW n, NEW m, Commits(cmd, plan, n, m) PROVE Fair
    <3>1. /\ cmd.user \in User /\ n \in Nat /\ m \in {n + 1, n + 2}
          /\ DOMAIN ledger[cmd.user] = 1 .. n /\ DOMAIN ledger'[cmd.user] = 1 .. m
          /\ ledger'[cmd.user][m] = EntryRow(cmd, plan)
          /\ m = n + 2 => ledger'[cmd.user][n + 1].kind = "bonus_expire"
          /\ \A v \in User \ {cmd.user} : ledger'[v] = ledger[v]
      BY <2>2 DEF Commits, Writes, LedgerRow
    <3> SUFFICES ASSUME NEW u \in User, NEW i \in DOMAIN ledger'[u] \ DOMAIN ledger[u],
                        ledger'[u][i].kind = "spend_unlock",
                        ledger'[u][i].ref.type = "arc_bundle"
                 PROVE  LET row    == ledger'[u][i]
                            bought == {x.chapter : x \in unlocks' \ unlocks}
                        IN  /\ bought # {}
                            /\ bought \cap Owned(u) = {}
                            /\ \E s \in Slot :
                                  PaidAsSeen(s, u, bought,
                                             -(row.delta + row.bonusDelta))
      OBVIOUS
    <3>2. u = cmd.user /\ i = m
      BY <3>1
    <3>3. /\ ledger'[u][i].ref = cmd.ref
          /\ ledger'[u][i].delta = plan.delta
          /\ ledger'[u][i].bonusDelta = plan.bonusDelta
      BY <3>1, <3>2 DEF EntryRow, LedgerRow
    <3> QED BY <2>2, <3>2, <3>3, BundleCommit
  <2> QED BY <2>1, <2>2, MoneySteps
<1> QED BY <1>1, CommandsCorrect, PTL DEF Spec, BundleAtCheckedPrices

-----------------------------------------------------------------------------
(***************************************************************************)
(* The wallet implements the shop, for every value of the constants: its   *)
(* initial states are shop states, and every step is one whole operation   *)
(* of one reader or changes nothing that the shop speaks of.               *)
(***************************************************************************)
Coins == [u \in User |-> wallet[u].paid + wallet[u].bonus]
Bought == [u \in User |-> Owned(u)]
Done  == [u \in User |-> KeysOf(u)]

LEMMA ShopInitHolds == Init /\ TypeOK => AbstractShop!ShopInit
<1> SUFFICES ASSUME Init, TypeOK PROVE AbstractShop!ShopInit
  OBVIOUS
<1>1. Coins \in [User -> Nat]
  BY DEF TypeOK, Coins, Balances
<1>2. Bought = [u \in User |-> {}]
  BY DEF Init, Bought, Owned
<1>3. ASSUME NEW u \in User PROVE KeysOf(u) \subseteq Keys \ {NoKey}
  <2>1. \A i \in DOMAIN ledger[u] : ledger[u][i] \in Row
    BY DEF TypeOK
  <2> QED BY <2>1 DEF KeysOf, Row
<1>4. Done \in [User -> SUBSET (Keys \ {NoKey})]
  BY <1>3 DEF Done
<1> QED BY <1>1, <1>2, <1>4 DEF AbstractShop!ShopInit, Coins, Bought, Done

(* What the shop sees of a commit.                                         *)
LEMMA CommitSeen ==
    ASSUME Known, NEW cmd, NEW plan, NEW n, NEW m, Commits(cmd, plan, n, m)
    PROVE  /\ cmd.user \in User /\ cmd.key \in Keys \ {NoKey}
           /\ cmd.key \notin Done[cmd.user]
           /\ Done' = [Done EXCEPT ![cmd.user] = Done[cmd.user] \cup {cmd.key}]
           /\ Coins' = [Coins EXCEPT ![cmd.user] = plan.result.paid + plan.result.bonus]
           /\ plan.result.paid + plan.result.bonus \in Nat
           /\ Bought' = [Bought EXCEPT ![cmd.user] =
                           Bought[cmd.user] \cup {x.chapter : x \in UnlockRows(cmd, m)}]
<1>1. /\ cmd.user \in User /\ n \in Nat /\ m \in {n + 1, n + 2}
      /\ PlanOK(wallet[cmd.user], plan)
      /\ DOMAIN ledger[cmd.user] = 1 .. n /\ DOMAIN ledger'[cmd.user] = 1 .. m
      /\ \A i \in 1 .. n : ledger'[cmd.user][i] = ledger[cmd.user][i]
      /\ ledger'[cmd.user][m].key = cmd.key
      /\ m = n + 2 => ledger'[cmd.user][n + 1].key = NoKey
      /\ unlocks' = unlocks \cup UnlockRows(cmd, m)
      /\ wallet'[cmd.user] = plan.result
      /\ \A v \in User \ {cmd.user} : ledger'[v] = ledger[v] /\ wallet'[v] = wallet[v]
      /\ cmd \in Command /\ Coherent(cmd) /\ ~KeyUsed(cmd)
  BY DEF Commits, Writes, EntryRow, LedgerRow
<1>2. cmd.key \in Keys \ {NoKey}
  BY <1>1 DEF Command, Coherent
<1>3. cmd.key \notin Done[cmd.user]
  BY <1>1 DEF Done, KeysOf, KeyUsed, RowsWithKey
<1>4. Done' = [Done EXCEPT ![cmd.user] = Done[cmd.user] \cup {cmd.key}]
  <2> DEFINE K(l) == {l[i].key : i \in DOMAIN l} \ {NoKey}
             l    == ledger[cmd.user]
             k    == ledger'[cmd.user]
  <2>1. K(k) = K(l) \cup {cmd.key}
    <3>1. /\ DOMAIN l = 1 .. n /\ DOMAIN k = 1 .. m
          /\ \A i \in 1 .. n : k[i] = l[i]
          /\ k[m].key = cmd.key
          /\ m = n + 2 => k[n + 1].key = NoKey
      BY <1>1
    <3> HIDE DEF l, k
    <3>2. \A i \in 1 .. m : i \in 1 .. n \/ i = m \/ (i = n + 1 /\ m = n + 2)
      BY <1>1
    <3>3. m \in 1 .. m /\ \A i \in 1 .. n : i \in 1 .. m
      BY <1>1
    <3>4. ASSUME NEW x \in K(k) PROVE x \in K(l) \cup {cmd.key}
      <4>1. PICK i \in 1 .. m : x = k[i].key /\ x # NoKey
        BY <3>1
      <4> QED BY <3>1, <3>2, <4>1
    <3>5. ASSUME NEW x \in K(l) PROVE x \in K(k)
      <4>1. PICK i \in 1 .. n : x = l[i].key /\ x # NoKey
        BY <3>1
      <4> QED BY <3>1, <3>3, <4>1
    <3>6. cmd.key \in K(k)
      BY <1>2, <3>1, <3>3
    <3> HIDE DEF K
    <3> QED BY <3>4, <3>5, <3>6
  <2>2. /\ Done = [v \in User |-> K(ledger[v])]
        /\ Done' = [v \in User |-> K(ledger'[v])]
    BY DEF Done, KeysOf
  <2> HIDE DEF K
  <2> QED BY <1>1, <2>1, <2>2
<1>5. Coins' = [Coins EXCEPT ![cmd.user] = plan.result.paid + plan.result.bonus]
  BY <1>1 DEF Coins
<1>6. plan.result.paid + plan.result.bonus \in Nat
  BY <1>1 DEF PlanOK, Balances
<1>7. Bought' = [Bought EXCEPT ![cmd.user] =
                   Bought[cmd.user] \cup {x.chapter : x \in UnlockRows(cmd, m)}]
  <2> DEFINE O(rows, v) == {r.chapter : r \in {x \in rows : x.user = v}}
             new == UnlockRows(cmd, m)
  <2>1. \A x \in new : x.user = cmd.user
    BY DEF UnlockRows
  <2>2. /\ Bought = [v \in User |-> O(unlocks, v)]
        /\ Bought' = [v \in User |-> O(unlocks', v)]
    BY DEF Bought, Owned
  <2> HIDE DEF new
  <2>3. /\ O(unlocks', cmd.user) = O(unlocks, cmd.user) \cup {x.chapter : x \in new}
        /\ \A v \in User \ {cmd.user} : O(unlocks', v) = O(unlocks, v)
    BY <1>1, <2>1 DEF new
  <2> HIDE DEF O
  <2> QED BY <1>1, <2>2, <2>3 DEF new
<1> QED BY <1>1, <1>2, <1>3, <1>4, <1>5, <1>6, <1>7

(* A command that buys costs coins and brings chapters; no other does.     *)
LEMMA CommitBuys ==
    ASSUME Known, NEW cmd, NEW plan, NEW n, NEW m, Commits(cmd, plan, n, m)
    PROVE  LET new == {x.chapter : x \in UnlockRows(cmd, m)}
               b   == wallet[cmd.user]
           IN  /\ new \subseteq Chapter
               /\ cmd.key.op \in BuyOps =>
                    /\ plan.result.paid + plan.result.bonus < b.paid + b.bonus
                    /\ new # {} /\ new \cap Owned(cmd.user) = {}
               /\ cmd.key.op \notin BuyOps => new = {}
<1>1. /\ Coherent(cmd) /\ cmd \in Command /\ plan = planFor(cmd)
      /\ Cleared(cmd) /\ plan.err = NoError
      /\ PlanOK(wallet[cmd.user], plan)
  BY DEF Commits, Payable, Writes
<1>2. {x.chapter : x \in UnlockRows(cmd, m)} \subseteq Chapter
  BY <1>1 DEF UnlockRows, Command, Item
<1>3. ASSUME cmd.key.op \in BuyOps
      PROVE  plan.result.paid + plan.result.bonus
               < wallet[cmd.user].paid + wallet[cmd.user].bonus
  <2>1. plan = PlanSpend(wallet[cmd.user], cmd.coins, cmd.at)
    BY <1>1, <1>3 DEF planFor, Coherent
  <2>2. /\ wallet[cmd.user] \in Balances /\ cmd.coins \in Int /\ cmd.at \in Nat
    BY <1>1 DEF Known, TypeOK, Command
  <2>3. cmd.coins > 0 /\ plan.delta + plan.bonusDelta = -cmd.coins
    BY <1>1, <2>1, <2>2, SpendPlan
  <2> QED BY <1>1, <2>2, <2>3 DEF PlanOK, Balances
<1>4. ASSUME cmd.key.op \in BuyOps
      PROVE  cmd.items # {} /\ cmd.child \in {"unlock", "arc"}
  <2>1. cmd.child \in {"unlock", "arc"}
    BY <1>1, <1>4 DEF Coherent
  <2>2. CASE cmd.child = "unlock"
    BY <1>1, <2>2 DEF Coherent
  <2>3. CASE cmd.child = "arc"
    BY <1>1, <2>3 DEF Cleared, Checked
  <2> QED BY <2>1, <2>2, <2>3
<1>5. ASSUME cmd.key.op \in BuyOps
      PROVE  {x.chapter : x \in UnlockRows(cmd, m)} # {}
  <2>1. PICK i \in cmd.items : TRUE
    BY <1>4, <1>5
  <2>2. [user |-> cmd.user, chapter |-> i.chapter, coins |-> i.coins, row |-> m]
          \in UnlockRows(cmd, m)
    BY <1>4, <1>5 DEF UnlockRows
  <2> QED BY <2>2
<1>6. {x.chapter : x \in UnlockRows(cmd, m)} \cap Owned(cmd.user) = {}
  <2>1. \A x \in UnlockRows(cmd, m) : x.chapter \notin Owned(cmd.user)
    BY UnlockWrites
  <2> QED BY <2>1
<1>7. cmd.key.op \notin BuyOps => {x.chapter : x \in UnlockRows(cmd, m)} = {}
  BY <1>1 DEF Coherent, UnlockRows
<1> QED BY <1>2, <1>3, <1>5, <1>6, <1>7

LEMMA ShopStep ==
    ASSUME Known, [Next]_vars
    PROVE  [AbstractShop!ShopNext]_(AbstractShop!shopVars)
<1>1. CASE UNCHANGED money
  BY <1>1 DEF AbstractShop!shopVars, money, Owned, KeysOf
<1>2. ASSUME NEW cmd, NEW plan, NEW n, NEW m, Commits(cmd, plan, n, m)
      PROVE  AbstractShop!ShopNext
  <2> DEFINE u   == cmd.user
             k   == cmd.key
             c   == plan.result.paid + plan.result.bonus
             new == {x.chapter : x \in UnlockRows(cmd, m)}
  <2>1. /\ u \in User /\ k \in Keys \ {NoKey} /\ k \notin Done[u]
        /\ Done' = [Done EXCEPT ![u] = Done[u] \cup {k}]
        /\ Coins' = [Coins EXCEPT ![u] = c] /\ c \in Nat
        /\ Bought' = [Bought EXCEPT ![u] = Bought[u] \cup new]
    BY <1>2, CommitSeen
  <2>2. /\ new \subseteq Chapter
        /\ k.op \in BuyOps => c < Coins[u] /\ new # {} /\ new \cap Bought[u] = {}
        /\ k.op \notin BuyOps => new = {}
    BY <1>2, <2>1, CommitBuys DEF Coins, Bought
  <2>3. Bought[u] \subseteq Chapter
    BY <2>1 DEF Bought, Owned, Known, TypeOK
  <2> HIDE DEF u, k, c, new
  <2>4. DOMAIN Coins = User /\ DOMAIN Bought = User /\ DOMAIN Done = User
    BY DEF Coins, Bought, Done
  <2>5. Coins'[u] = c /\ Bought'[u] = Bought[u] \cup new /\ Done'[u] = Done[u] \cup {k}
    BY <2>1, <2>4
  <2>6. /\ k \in (Keys \ {NoKey}) \ Done[u]
        /\ Done' = [Done EXCEPT ![u] = Done[u] \cup {k}]
        /\ Coins' = [Coins EXCEPT ![u] = Coins'[u]]
        /\ Coins'[u] \in Nat
    BY <2>1, <2>5
  <2>7. k \in Done'[u] \ Done[u]
    BY <2>1, <2>5
  <2>8. CASE k.op \in BuyOps
    <3>1. k \in {x \in Keys : x.op \in {"unlock", "arc_unlock", "autounlock"}}
      BY <2>1, <2>8 DEF BuyOps
    <3>2. /\ Coins'[u] < Coins[u]
          /\ Bought' = [Bought EXCEPT ![u] = Bought'[u]]
          /\ Bought[u] \subseteq Bought'[u] /\ Bought'[u] # Bought[u]
          /\ Bought'[u] \subseteq Chapter
      BY <2>1, <2>2, <2>3, <2>5, <2>8
    <3> QED BY <2>1, <2>6, <2>7, <3>1, <3>2
            DEF AbstractShop!ShopNext, AbstractShop!Buy, AbstractShop!Once,
                AbstractShop!NewKeys, Coins, Bought, Done
  <2>9. CASE k.op \notin BuyOps
    <3>1. k \notin {x \in Keys : x.op \in {"unlock", "arc_unlock", "autounlock"}}
      BY <2>9 DEF BuyOps
    <3>2. Bought' = Bought
      <4>1. new = {}
        BY <2>2, <2>9
      <4>2. Bought = [v \in User |-> Bought[v]]
        BY DEF Bought
      <4> QED BY <2>1, <4>1, <4>2
    <3> QED BY <2>1, <2>6, <2>7, <3>1, <3>2
            DEF AbstractShop!ShopNext, AbstractShop!Move, AbstractShop!Once,
                AbstractShop!NewKeys, Coins, Bought, Done
  <2> QED BY <2>8, <2>9
<1> QED BY <1>1, <1>2, MoneySteps

(* Refinement: for any number of readers, chapters and requests in flight, *)
(* every behaviour of the two-step requests is a behaviour of the shop.    *)
THEOREM WalletImplements == Spec => ImplementsShop
<1>1. Init => AbstractShop!ShopInit
  BY TypeInit, ShopInitHolds
<1>2. Known /\ [Next]_vars => [AbstractShop!ShopNext]_(AbstractShop!shopVars)
  BY ShopStep
<1> QED BY <1>1, <1>2, CommandsCorrect, PTL DEF Spec, ImplementsShop, AbstractShop!ShopSpec
=============================================================================
