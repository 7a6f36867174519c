------------------------- MODULE PaperAccount_proofs -------------------------
(***************************************************************************)
(* Proofs about the paper account, for any orders, prices, policies and    *)
(* limits.  What a creator has counted may be old when it inserts, so the  *)
(* limits rest on the fills alone: Held is kept by every order that is     *)
(* filled, and nothing else opens a position.                              *)
(***************************************************************************)
EXTENDS PaperAccount, FiniteSetTheorems, WellFoundedInduction, TLAPS

----------------------------------------------------------------------------
(* The rows, and what is kept between any two statements.                   *)

Row(r) == "st" \in DOMAIN r /\ r.st \in {"none", "open", "closed"}
Rows(rows) == rows = [o \in Order |-> rows[o]] /\ \A o \in Order : Row(rows[o])
OrderRows == [Order -> [st : Status, age : 0..(Timeout + 1)]]
Places == {"idle", "eligible", "marked", "counted", "refused", "allowed", "done"}

AccountRow(r) == /\ r = [st |-> r.st, enabled |-> r.enabled, trading |-> r.trading,
                         balance |-> r.balance, free |-> r.free]
                 /\ r.enabled \in BOOLEAN
TickState(t) == /\ t = [pc |-> t.pc, bid |-> t.bid, serves |-> t.serves, stale |-> t.stale]
                /\ t.serves \in BOOLEAN
Creators == [Order -> [pc : Places, open : Nat]]
PaperTyped == /\ AccountRow(account) /\ TickState(ticker)
              /\ order \in OrderRows /\ Rows(pos) /\ creator \in Creators

(* A position exactly for the orders that were filled; the limits.          *)
Agree(orders, rows) == \A o \in Order : orders[o].st = "filled" <=> rows[o].st # "none"
Held(rows) == /\ Cardinality(OpenIn(rows)) <= MaxTotal
              /\ \A o \in OpenIn(rows) : Cardinality(SameSide(o, OpenIn(rows))) <= MaxSide

PaperInv ==
  /\ PaperTyped /\ Agree(order, pos) /\ Held(pos)
  /\ \A o \in Order : creator[o].pc # "done" => order[o].st = "none"
  /\ ~ account.enabled => Opens = {}
  /\ ticker.pc = "listed" /\ ticker.serves => account.enabled

LEMMA LimitsAreNumbers == MaxTotal \in Nat /\ MaxSide \in Nat /\ Timeout \in Nat
  BY PaperAssumption

LEMMA OpenAreFinite ==
  ASSUME NEW rows
  PROVE  IsFiniteSet(OpenIn(rows)) /\ Cardinality(OpenIn(rows)) \in Nat
<1>1. OpenIn(rows) \subseteq Order /\ IsFiniteSet(Order)
  BY PaperAssumption DEF OpenIn
<1>2. IsFiniteSet(OpenIn(rows))
  BY <1>1, FS_Subset
<1> QED
  BY <1>2, FS_CardinalityType

LEMMA SideIsFinite ==
  ASSUME NEW S, IsFiniteSet(S), NEW o
  PROVE  IsFiniteSet(SameSide(o, S)) /\ Cardinality(SameSide(o, S)) \in Nat
<1>1. SameSide(o, S) \subseteq S
  BY DEF SameSide
<1>2. IsFiniteSet(SameSide(o, S))
  BY <1>1, FS_Subset
<1> QED
  BY <1>2, FS_CardinalityType

(* Positions that are managed stay open or are closed.                      *)
Follows(rows, new) ==
  /\ Rows(new)
  /\ \A o \in Order : IF rows[o].st = "open" THEN new[o].st \in {"open", "closed"}
                                           ELSE new[o].st = rows[o].st

LEMMA FollowingKeeps ==
  ASSUME NEW rows, NEW new, Rows(rows), Follows(rows, new)
  PROVE  /\ OpenIn(new) \subseteq OpenIn(rows)
         /\ Held(rows) => Held(new)
         /\ \A orders : Agree(orders, rows) => Agree(orders, new)
<1>1. OpenIn(new) \subseteq OpenIn(rows)
  BY DEF OpenIn, Follows
<1>2. IsFiniteSet(OpenIn(rows)) /\ Cardinality(OpenIn(rows)) \in Nat /\ Cardinality(OpenIn(new)) \in Nat
  BY OpenAreFinite
<1>3. Cardinality(OpenIn(new)) <= Cardinality(OpenIn(rows))
  BY <1>1, <1>2, FS_Subset
<1>4. ASSUME Held(rows), NEW o \in OpenIn(new)
      PROVE  Cardinality(SameSide(o, OpenIn(new))) <= MaxSide
  <2>1. SameSide(o, OpenIn(new)) \subseteq SameSide(o, OpenIn(rows))
    BY <1>1 DEF SameSide
  <2>2. /\ IsFiniteSet(SameSide(o, OpenIn(rows)))
        /\ Cardinality(SameSide(o, OpenIn(rows))) \in Nat /\ Cardinality(SameSide(o, OpenIn(new))) \in Nat
    BY <1>2, OpenAreFinite, SideIsFinite
  <2>3. Cardinality(SameSide(o, OpenIn(new))) <= Cardinality(SameSide(o, OpenIn(rows)))
    BY <2>1, <2>2, FS_Subset
  <2>4. Cardinality(SameSide(o, OpenIn(rows))) <= MaxSide
    BY <1>1, <1>4 DEF Held
  <2> QED
    BY <2>2, <2>3, <2>4, LimitsAreNumbers
<1>5. Held(rows) => Held(new)
  BY <1>2, <1>3, <1>4, LimitsAreNumbers DEF Held
<1>6. \A orders : Agree(orders, rows) => Agree(orders, new)
  BY DEF Agree, Follows
<1> QED
  BY <1>1, <1>5, <1>6

LEMMA ManageKeepsRow ==
  ASSUME NEW r, "st" \in DOMAIN r, r.st = "open", NEW rates, NEW market
  PROVE  LET new == Manage(r, rates, Cfg, market).pos IN
         "st" \in DOMAIN new /\ new.st \in {"open", "closed"}
<1>1. ASSUME NEW p, "st" \in DOMAIN p, p.st = "open", NEW reason
      PROVE  LET new == Closed(p, rates, Cfg, reason).pos IN "st" \in DOMAIN new /\ new.st = "closed"
  BY <1>1 DEF Closed
<1>2. ASSUME NEW p, "st" \in DOMAIN p, p.st = "open", NEW act
      PROVE  LET new == Reduced(p, rates, Cfg, act).pos IN "st" \in DOMAIN new /\ new.st = "open"
  BY <1>2 DEF Reduced
<1>3. ASSUME NEW p, "st" \in DOMAIN p, p.st = "open", NEW act
      PROVE  LET new == Acted(p, rates, Cfg, act).pos IN
             "st" \in DOMAIN new /\ new.st \in {"open", "closed"}
  <2>1. CASE act.kind = "close"
    BY <1>1, <1>3, <2>1 DEF Acted
  <2>2. CASE act.kind # "close" /\ act.kind = "partial" /\ act.volume > 0
    BY <1>2, <1>3, <2>2 DEF Acted
  <2>3. CASE act.kind # "close" /\ ~(act.kind = "partial" /\ act.volume > 0)
    BY <1>3, <2>3 DEF Acted
  <2> QED
    BY <2>1, <2>2, <2>3
<1> DEFINE seen == [r EXCEPT !.fav = Best(r, MarkOf(r, rates))]
<1>4. "st" \in DOMAIN seen /\ seen.st = "open"
  OBVIOUS
<1> HIDE DEF seen
<1>5. CASE ReasonToClose(r, rates, Cfg) # ""
  BY <1>1, <1>5 DEF Manage
<1>6. CASE ReasonToClose(r, rates, Cfg) = ""
  BY <1>3, <1>4, <1>6 DEF Manage, seen
<1> QED
  BY <1>5, <1>6

LEMMA ManagedFollow ==
  ASSUME NEW rows, Rows(rows), NEW bid
  PROVE  Follows(rows, [o \in Order |-> Kept(Managed(rows, bid)[o].pos)])
<1> DEFINE new == [o \in Order |-> Kept(Managed(rows, bid)[o].pos)]
<1>1. ASSUME NEW o \in Order
      PROVE  /\ Row(new[o])
             /\ IF rows[o].st = "open" THEN new[o].st \in {"open", "closed"}
                                     ELSE new[o].st = rows[o].st
  <2>1. Row(rows[o])
    BY DEF Rows
  <2>2. CASE rows[o].st = "open"
    <3> DEFINE p == Manage(rows[o], [bid |-> bid, ask |-> bid + Spread], Cfg, Calm).pos
    <3>1. "st" \in DOMAIN p /\ p.st \in {"open", "closed"}
      BY <2>1, <2>2, ManageKeepsRow DEF Row
    <3>2. new[o] = Kept(p)
      BY <2>2 DEF Managed
    <3> HIDE DEF p, new
    <3>3. Row(new[o]) /\ new[o].st \in {"open", "closed"}
      BY <3>1, <3>2 DEF Kept, Row
    <3> QED
      BY <2>2, <3>3
  <2>3. CASE rows[o].st # "open"
    <3>1. new[o] = Kept(rows[o])
      BY <2>3 DEF Managed
    <3> HIDE DEF new
    <3> QED
      BY <2>1, <2>3, <3>1 DEF Kept, Row
  <2> QED
    BY <2>2, <2>3
<1>2. new = [o \in Order |-> new[o]]
  OBVIOUS
<1> HIDE DEF new
<1>3. Follows(rows, new)
  BY <1>1, <1>2 DEF Follows, Rows
<1> QED
  BY <1>3 DEF new

----------------------------------------------------------------------------
(* Least numbers.                                                           *)

LEMMA NumbersHaveLeast ==
  ASSUME NEW S \in SUBSET Nat, S # {}
  PROVE  \E x \in S : \A y \in S : x <= y
<1> DEFINE T == {0..s : s \in S}
<1>1. T \in SUBSET FiniteSubsetsOf(Nat) /\ T # {}
  <2>1. ASSUME NEW s \in S PROVE 0..s \in FiniteSubsetsOf(Nat)
    <3>1. 0..s \subseteq Nat /\ s \in Int
      OBVIOUS
    <3> QED
      BY <3>1, FS_Interval DEF FiniteSubsetsOf
  <2> QED
    BY <2>1
<1>2. PICK x \in T : \A y \in T : <<y, x>> \notin StrictSubsetOrdering(Nat)
  <2> HIDE DEF T
  <2> QED
    BY <1>1, FS_StrictSubsetOrderingWellFounded, WFMin
<1>3. PICK least \in S : x = 0..least
  BY <1>2
<1>4. ASSUME NEW y \in S, y < least PROVE FALSE
  <2>1. 0..y \in SUBSET Nat /\ 0..least \in SUBSET Nat /\ 0..y \subseteq 0..least
    BY <1>4
  <2>2. least \in 0..least /\ least \notin 0..y
    BY <1>4
  <2>3. <<0..y, 0..least>> \in StrictSubsetOrdering(Nat)
    BY <2>1, <2>2 DEF StrictSubsetOrdering
  <2> QED
    BY <1>2, <1>3, <2>3
<1>5. \A y \in S : y \in Int
  OBVIOUS
<1> QED
  BY <1>4, <1>5

----------------------------------------------------------------------------
(* Sums over a finite set, taken off one element after the other.           *)

AddsUp(s, f, S) ==
  s = [T \in SUBSET S |-> IF T = {} THEN 0
                          ELSE f[CHOOSE x \in T : TRUE] + s[T \ {CHOOSE x \in T : TRUE}]]

LEMMA SumIsDefined ==
  ASSUME NEW S, IsFiniteSet(S), NEW f
  PROVE  \E s : AddsUp(s, f, S)
<1> DEFINE first(T) == CHOOSE x \in T : TRUE
<1> DEFINE Level(n) == {T \in SUBSET S : Cardinality(T) <= n}
<1> DEFINE Adds(s, T) == IF T = {} THEN 0 ELSE f[first(T)] + s[T \ {first(T)}]
<1> DEFINE Missing == {n \in Nat : ~ \E s : s = [T \in Level(n) |-> Adds(s, T)]}
<1>1. \A T \in SUBSET S : /\ IsFiniteSet(T) /\ Cardinality(T) \in Nat
                          /\ Cardinality(T) = 0 <=> T = {}
                          /\ T # {} => /\ first(T) \in T /\ T \ {first(T)} \in SUBSET S
                                       /\ Cardinality(T \ {first(T)}) = Cardinality(T) - 1
  <2> SUFFICES ASSUME NEW T \in SUBSET S
               PROVE  /\ IsFiniteSet(T) /\ Cardinality(T) \in Nat
                      /\ Cardinality(T) = 0 <=> T = {}
                      /\ T # {} => /\ first(T) \in T /\ T \ {first(T)} \in SUBSET S
                                   /\ Cardinality(T \ {first(T)}) = Cardinality(T) - 1
    OBVIOUS
  <2>1. IsFiniteSet(T) /\ Cardinality(T) \in Nat
    BY FS_Subset, FS_CardinalityType
  <2>2. Cardinality(T) = 0 <=> T = {}
    BY <2>1, FS_EmptySet
  <2>3. T # {} => first(T) \in T
    OBVIOUS
  <2> HIDE DEF first
  <2>4. T # {} => Cardinality(T \ {first(T)}) = Cardinality(T) - 1
    BY <2>1, <2>3, FS_RemoveElement
  <2> QED
    BY <2>1, <2>2, <2>3, <2>4
<1> HIDE DEF first
<1>2. Missing = {}
  <2> SUFFICES ASSUME Missing # {} PROVE FALSE
    OBVIOUS
  <2>1. PICK n \in Missing : \A m \in Missing : n <= m
    <3>1. Missing \in SUBSET Nat
      OBVIOUS
    <3> HIDE DEF Missing
    <3> QED
      BY <3>1, NumbersHaveLeast
  <2>2. n \in Nat
    OBVIOUS
  <2>3. CASE n = 0
    <3> DEFINE g == [T \in Level(n) |-> 0]
    <3>1. \A T \in Level(n) : T = {}
      <4> SUFFICES ASSUME NEW T \in Level(n) PROVE T = {}
        OBVIOUS
      <4>1. T \in SUBSET S /\ Cardinality(T) <= 0
        BY <2>3
      <4>2. Cardinality(T) \in Nat /\ (Cardinality(T) = 0 => T = {})
        BY <1>1, <4>1
      <4> QED
        BY <4>1, <4>2
    <3>2. g = [T \in Level(n) |-> Adds(g, T)]
      BY <3>1
    <3> QED
      BY <3>2
  <2>4. CASE n # 0
    <3>1. n - 1 \in Nat /\ n - 1 \notin Missing
      <4> HIDE DEF Missing
      <4> QED
        BY <2>1, <2>2, <2>4
    <3>2. PICK s : s = [T \in Level(n - 1) |-> Adds(s, T)]
      BY <3>1
    <3> DEFINE g == [T \in Level(n) |-> Adds(s, T)]
    <3>3. ASSUME NEW T \in Level(n), T # {}
          PROVE  g[T \ {first(T)}] = s[T \ {first(T)}]
      <4> DEFINE rest == T \ {first(T)}
      <4>1. rest \in Level(n - 1) /\ rest \in Level(n)
        BY <1>1, <2>2, <3>3
      <4>2. s[rest] = Adds(s, rest) /\ g[rest] = Adds(s, rest)
        <5> HIDE DEF rest, Adds, Level
        <5> QED
          BY <3>2, <4>1
      <4> QED
        BY <4>2
    <3>4. \A T \in Level(n) : Adds(s, T) = Adds(g, T)
      <4> HIDE DEF g, Level
      <4> QED
        BY <3>3
    <3>5. g = [T \in Level(n) |-> Adds(g, T)]
      <4> DEFINE h == [T \in Level(n) |-> Adds(g, T)]
      <4>1. \A T \in Level(n) : g[T] = h[T]
        BY <3>4
      <4> QED
        BY <4>1
    <3> QED
      BY <3>5
  <2> QED
    BY <2>3, <2>4
<1>3. Cardinality(S) \in Nat
  BY <1>1
<1>4. \E s : s = [T \in Level(Cardinality(S)) |-> Adds(s, T)]
  BY <1>2, <1>3
<1>5. Level(Cardinality(S)) = SUBSET S
  BY FS_Subset
<1> QED
  BY <1>4, <1>5 DEF first, AddsUp

LEMMA SumTakesOff ==
  ASSUME NEW f, IsFiniteSet(DOMAIN f)
  PROVE  \E s : AddsUp(s, f, DOMAIN f) /\ SumFunction(f) = s[DOMAIN f]
<1> DEFINE s == CHOOSE s : AddsUp(s, f, DOMAIN f)
<1>1. SumFunction(f) = s[DOMAIN f]
  BY DEF SumFunction, SumFunctionOnSet, FoldFunctionOnSet, MapThenFoldSet, AddsUp
<1>2. \E t : AddsUp(t, f, DOMAIN f)
  BY SumIsDefined
<1>3. AddsUp(s, f, DOMAIN f)
  BY <1>2
<1> QED
  BY <1>1, <1>3

(* What holds of the empty set, and of a set when it holds without the       *)
(* element that is taken off, holds of every subset.                        *)
LEMMA EverySubset ==
  ASSUME NEW S, IsFiniteSet(S), NEW Good, {} \in Good,
         \A T \in SUBSET S : T # {} /\ T \ {CHOOSE x \in T : TRUE} \in Good => T \in Good
  PROVE  \A T \in SUBSET S : T \in Good
<1> DEFINE Bad == {T \in SUBSET S : T \notin Good}
<1> SUFFICES ASSUME Bad # {} PROVE FALSE
  OBVIOUS
<1>1. Bad \in SUBSET FiniteSubsetsOf(S)
  BY FS_Subset DEF FiniteSubsetsOf
<1>2. PICK T \in Bad : \A U \in Bad : <<U, T>> \notin StrictSubsetOrdering(S)
  <2> HIDE DEF Bad
  <2> QED
    BY <1>1, FS_StrictSubsetOrderingWellFounded, WFMin
<1> DEFINE x == CHOOSE x \in T : TRUE
<1>3. T \in SUBSET S /\ T \notin Good /\ T # {}
  OBVIOUS
<1>4. x \in T
  BY <1>3
<1>5. T \ {x} \notin Good
  BY <1>3
<1> HIDE DEF x
<1>6. T \ {x} \in Bad /\ <<T \ {x}, T>> \in StrictSubsetOrdering(S)
  BY <1>3, <1>4, <1>5 DEF StrictSubsetOrdering
<1> QED
  BY <1>2, <1>6

LEMMA SumIsNumber ==
  ASSUME NEW S, IsFiniteSet(S), NEW f \in [S -> Int]
  PROVE  SumFunction(f) \in Int
<1>1. PICK s : AddsUp(s, f, S) /\ SumFunction(f) = s[S]
  BY SumTakesOff
<1> DEFINE Good == {T \in SUBSET S : s[T] \in Int}
<1>2. {} \in Good
  BY <1>1 DEF AddsUp
<1>3. ASSUME NEW T \in SUBSET S, T # {}, T \ {CHOOSE x \in T : TRUE} \in Good PROVE T \in Good
  <2> DEFINE x == CHOOSE x \in T : TRUE
  <2>1. x \in S /\ s[T] = f[x] + s[T \ {x}]
    BY <1>1, <1>3 DEF AddsUp
  <2>2. s[T \ {x}] \in Int
    BY <1>3
  <2> HIDE DEF x
  <2> QED
    BY <2>1, <2>2
<1> HIDE DEF Good
<1>4. S \in Good
  BY <1>2, <1>3, EverySubset
<1> QED
  BY <1>1, <1>4 DEF Good

LEMMA SumsBalance ==
  ASSUME NEW S, IsFiniteSet(S), NEW f \in [S -> Int], NEW g \in [S -> Int],
         NEW h \in [S -> Int], NEW k \in [S -> Int], \A x \in S : f[x] = g[x] + h[x] - k[x]
  PROVE  SumFunction(f) = SumFunction(g) + SumFunction(h) - SumFunction(k)
<1>1. PICK s : AddsUp(s, f, S) /\ SumFunction(f) = s[S]
  BY SumTakesOff
<1>2. PICK t : AddsUp(t, g, S) /\ SumFunction(g) = t[S]
  BY SumTakesOff
<1>3. PICK u : AddsUp(u, h, S) /\ SumFunction(h) = u[S]
  BY SumTakesOff
<1>4. PICK v : AddsUp(v, k, S) /\ SumFunction(k) = v[S]
  BY SumTakesOff
<1> DEFINE Good == {T \in SUBSET S : /\ t[T] \in Int /\ u[T] \in Int /\ v[T] \in Int
                                     /\ s[T] = t[T] + u[T] - v[T]}
<1>5. {} \in Good
  BY <1>1, <1>2, <1>3, <1>4 DEF AddsUp
<1>6. ASSUME NEW T \in SUBSET S, T # {}, T \ {CHOOSE x \in T : TRUE} \in Good PROVE T \in Good
  <2> DEFINE x == CHOOSE x \in T : TRUE
  <2> DEFINE rest == T \ {x}
  <2>1. x \in S
    BY <1>6
  <2>2. s[T] = f[x] + s[rest]
    BY <1>1, <1>6 DEF AddsUp
  <2>3. t[T] = g[x] + t[rest]
    BY <1>2, <1>6 DEF AddsUp
  <2>4. u[T] = h[x] + u[rest]
    BY <1>3, <1>6 DEF AddsUp
  <2>5. v[T] = k[x] + v[rest]
    BY <1>4, <1>6 DEF AddsUp
  <2>6. /\ t[rest] \in Int /\ u[rest] \in Int /\ v[rest] \in Int
        /\ s[rest] = t[rest] + u[rest] - v[rest]
    BY <1>6
  <2> HIDE DEF rest, x
  <2>7. g[x] \in Int /\ h[x] \in Int /\ k[x] \in Int /\ f[x] = g[x] + h[x] - k[x]
    BY <2>1
  <2> QED
    BY <2>2, <2>3, <2>4, <2>5, <2>6, <2>7
<1> HIDE DEF Good
<1>7. S \in Good
  BY <1>5, <1>6, EverySubset
<1> QED
  BY <1>1, <1>2, <1>3, <1>4, <1>7 DEF Good

LEMMA SumOfOne ==
  ASSUME NEW S, IsFiniteSet(S), NEW f \in [S -> Int], NEW o, \A x \in S \ {o} : f[x] = 0
  PROVE  SumFunction(f) = IF o \in S THEN f[o] ELSE 0
<1>1. PICK s : AddsUp(s, f, S) /\ SumFunction(f) = s[S]
  BY SumTakesOff
<1> DEFINE Good == {T \in SUBSET S : s[T] = IF o \in T THEN f[o] ELSE 0}
<1>2. {} \in Good
  BY <1>1 DEF AddsUp
<1>3. ASSUME NEW T \in SUBSET S, T # {}, T \ {CHOOSE x \in T : TRUE} \in Good PROVE T \in Good
  <2> DEFINE x == CHOOSE x \in T : TRUE
  <2> DEFINE rest == T \ {x}
  <2>1. x \in T /\ x \in S /\ s[T] = f[x] + s[rest]
    BY <1>1, <1>3 DEF AddsUp
  <2>2. s[rest] = IF o \in rest THEN f[o] ELSE 0
    BY <1>3
  <2>3. o \in rest <=> o \in T /\ o # x
    OBVIOUS
  <2> HIDE DEF rest, x
  <2>4. f[x] \in Int /\ (x # o => f[x] = 0)
    BY <2>1
  <2> QED
    BY <2>1, <2>2, <2>3, <2>4
<1> HIDE DEF Good
<1>4. S \in Good
  BY <1>2, <1>3, EverySubset
<1> QED
  BY <1>1, <1>4 DEF Good

----------------------------------------------------------------------------
(* Money.  What an open row needs to be counted; the exits of a paper order *)
(* are one stop and one target, so it has no staged levels.                 *)

Priced(r) == r.st = "open" =>
  /\ {"st", "dir", "vol", "rem", "entry", "sl", "tp", "done", "why", "fee", "levels"} \subseteq DOMAIN r
  /\ r.vol \in Int /\ r.rem \in Int /\ r.entry \in Int /\ r.fee \in Int /\ r.levels = {}
FeeOf(r) == IF r.st = "open" THEN r.fee ELSE 0

LEMMA PolicyNumbers ==
  /\ Cfg.perLot \in Int /\ Cfg.slip \in Int /\ Cfg.minimum \in Int /\ Cfg.policy.signalShare \in Int
  /\ DOMAIN Cfg.policy.rules \subseteq Nat
  BY PolicyAssumption

LEMMA Signs == \A d : Sign(d) \in Int
  BY DEF Sign

LEMMA Products == \A a, b \in Int : a * b \in Int
  OBVIOUS

LEMMA GrossIsNumber ==
  ASSUME NEW r, r.entry \in Int, NEW price \in Int, NEW volume \in Int
  PROVE  Gross(r, price, volume) \in Int
<1> DEFINE move == Sign(r.dir) * (price - r.entry)
<1>1. move \in Int
  BY Signs, Products
<1> HIDE DEF move
<1>2. move * volume \in Int
  BY <1>1, Products
<1> QED
  BY <1>2 DEF Gross, move

LEMMA ActiveIsNumber == ASSUME NEW r, r.vol \in Int, r.rem \in Int PROVE Active(r) \in Int
  BY DEF Active

LEMMA ShareIsNumber == ASSUME NEW a \in Int, NEW b \in Int PROVE Share(a, b) \in Int
<1>1. a * b \in Int
  BY Products
<1> QED
  BY <1>1 DEF Share

(* A rule that ends the evaluation asks for a volume that is a number.      *)
LEMMA RuleExitVolume ==
  ASSUME NEW r, r.vol \in Int, r.rem \in Int, NEW k \in DOMAIN Cfg.policy.rules, NEW price, NEW market
  PROVE  RuleExit(Cfg.policy.rules[k], r, price, Cfg.policy, market, FALSE).volume \in Int
<1> DEFINE rule == Cfg.policy.rules[k]
<1> DEFINE due == {j \in DOMAIN rule.levels : /\ rule.levels[j].id \notin r.done
                                              /\ Reached(r, price, rule.levels[j].trigger)}
<1>1. Hold.volume = 0 /\ \A ids, reason : Close(ids, reason).volume = 0
  BY DEF Hold, Close
<1>2. \A v, ids, stop, reason : Partial(v, ids, stop, reason).volume = v
  BY DEF Partial
<1>3. CASE rule.kind = "partial_take_profit" /\ r.risk > 0 /\ due # {}
  <2>1. /\ DOMAIN rule.levels \subseteq Nat
        /\ \A j \in DOMAIN rule.levels : rule.levels[j].percent \in Int
    BY <1>3, PolicyAssumption
  <2>2. Min(due) \in due
    <3>1. due \in SUBSET Nat /\ due # {}
      BY <1>3, <2>1
    <3> HIDE DEF due
    <3> QED
      BY <3>1, NumbersHaveLeast DEF Min
  <2>3. rule.levels[Min(due)].percent \in Int
    BY <2>1, <2>2
  <2>4. Share(Active(r), rule.levels[Min(due)].percent) \in Int
    BY <2>3, ActiveIsNumber, ShareIsNumber
  <2>5. RuleExit(rule, r, price, Cfg.policy, market, FALSE)
          = Partial(Share(Active(r), rule.levels[Min(due)].percent), {rule.levels[Min(due)].id},
                    PartialStop(r, price, Cfg.policy, rule.levels[Min(due)].move), "partial_take_profit")
    <3> HIDE DEF rule
    <3> QED
      BY <1>3 DEF RuleExit
  <2> DEFINE exit == RuleExit(Cfg.policy.rules[k], r, price, Cfg.policy, market, FALSE)
  <2>6. exit.volume = Share(Active(r), rule.levels[Min(due)].percent)
    <3> DEFINE v == Share(Active(r), rule.levels[Min(due)].percent)
    <3> DEFINE ids == {rule.levels[Min(due)].id}
    <3> DEFINE stop == PartialStop(r, price, Cfg.policy, rule.levels[Min(due)].move)
    <3>1. exit = Partial(v, ids, stop, "partial_take_profit")
      BY <2>5
    <3> HIDE DEF exit, v, ids, stop
    <3>2. exit.volume = v
      BY <1>2, <3>1
    <3> QED
      BY <3>2 DEF v
  <2> HIDE DEF exit, due
  <2>7. exit.volume \in Int
    BY <2>4, <2>6
  <2> QED
    BY <2>7 DEF exit
<1>4. CASE ~ (rule.kind = "partial_take_profit" /\ r.risk > 0 /\ due # {})
  <2>1. \/ RuleExit(rule, r, price, Cfg.policy, market, FALSE) = Hold
        \/ RuleExit(rule, r, price, Cfg.policy, market, FALSE) = Close({}, "max_holding_bars")
    <3> HIDE DEF rule
    <3> QED
      BY <1>4 DEF RuleExit
  <2> DEFINE exit == RuleExit(Cfg.policy.rules[k], r, price, Cfg.policy, market, FALSE)
  <2>2. exit = Hold \/ exit = Close({}, "max_holding_bars")
    BY <2>1
  <2> HIDE DEF exit
  <2>3. exit.volume \in Int
    BY <1>1, <2>2
  <2> QED
    BY <2>3 DEF exit
<1> QED
  BY <1>3, <1>4

LEMMA EvaluateVolume ==
  ASSUME NEW r, r.vol \in Int, r.rem \in Int, r.levels = {}, NEW price, NEW market
  PROVE  Evaluate(r, price, Cfg.policy, market, FALSE).volume \in Int
<1> DEFINE rules == Cfg.policy.rules
<1> DEFINE used == {k \in DOMAIN rules : ~(Cfg.policy.multi /\ rules[k].kind \in Owned)}
<1> DEFINE exits == [k \in used |-> RuleExit(rules[k], r, price, Cfg.policy, market, FALSE)]
<1> DEFINE ending == {k \in used : exits[k] # Hold}
<1>1. Hold.volume = 0
  BY DEF Hold
<1>2. LevelExit(r, price) = Hold
  <2>1. Hit(r, price, "stop_loss") = {} /\ Hit(r, price, "take_profit") = {}
    BY DEF Hit
  <2> QED
    BY <2>1 DEF LevelExit
<1>3. RunnerExit(r, price, Cfg.policy) = Hold
  BY DEF RunnerExit
<1>4. SignalTargetExit(r, price, Cfg.policy).volume \in Int
  <2>1. Share(Active(r), Cfg.policy.signalShare) \in Int
    BY PolicyNumbers, ActiveIsNumber, ShareIsNumber
  <2> QED
    BY <1>1, <2>1 DEF SignalTargetExit, Partial
<1>5. \A stops : Tightest(r, stops, price).volume = 0
  BY <1>1 DEF Tightest, Hold
<1>6. ByRules(r, price, Cfg.policy, market, exits, used).volume \in Int
  <2>1. CASE ending # {}
    <3>1. ending \in SUBSET Nat
      BY PolicyNumbers
    <3>2. Min(ending) \in ending
      <4> HIDE DEF ending
      <4> QED
        BY <2>1, <3>1, NumbersHaveLeast DEF Min
    <3>3. exits[Min(ending)].volume \in Int
      <4>1. Min(ending) \in used /\ Min(ending) \in DOMAIN Cfg.policy.rules
        BY <3>2
      <4>2. exits[Min(ending)] = RuleExit(rules[Min(ending)], r, price, Cfg.policy, market, FALSE)
        BY <4>1
      <4> HIDE DEF exits, ending, used
      <4> QED
        BY <4>1, <4>2, RuleExitVolume
    <3>4. ByRules(r, price, Cfg.policy, market, exits, used) = exits[Min(ending)]
      <4> HIDE DEF exits, used
      <4> QED
        BY <2>1 DEF ByRules
    <3> QED
      BY <3>3, <3>4
  <2>2. CASE ending = {}
    <3> HIDE DEF exits, used
    <3> QED
      BY <1>5, <2>2 DEF ByRules
  <2> QED
    BY <2>1, <2>2
<1>7. Evaluate(r, price, Cfg.policy, market, FALSE)
        = FirstOf(Hold, Hold, SignalTargetExit(r, price, Cfg.policy),
                  ByRules(r, price, Cfg.policy, market, exits, used))
  BY <1>2, <1>3 DEF Evaluate
<1> HIDE DEF exits, used
<1> QED
  BY <1>4, <1>6, <1>7 DEF FirstOf

(* Whatever a quote does to a position: the cash it brings is the net of    *)
(* its trade row, and the opening commission when the position is over.     *)
PaysOut(r, m) ==
  /\ m.gain \in Int /\ NetOf(m.row) \in Int
  /\ "st" \in DOMAIN m.pos /\ Priced(m.pos) /\ FeeOf(m.pos) \in Int
  /\ m.gain = NetOf(m.row) + r.fee - FeeOf(m.pos)

LEMMA NetOfOne == NetOf({}) = 0 /\ \A x : NetOf({x}) = x.net
<1>1. NetOf({}) = 0
  BY DEF NetOf
<1>2. ASSUME NEW x PROVE NetOf({x}) = x.net
  <2>1. (CHOOSE y \in {x} : TRUE) = x
    OBVIOUS
  <2> QED
    BY <2>1 DEF NetOf
<1> QED
  BY <1>1, <1>2

LEMMA ClosedPays ==
  ASSUME NEW r, r.st = "open", Priced(r), NEW rates, MarkOf(r, rates) \in Int, NEW reason
  PROVE  PaysOut(r, Closed(r, rates, Cfg, reason))
<1> DEFINE volume == Active(r)
<1> DEFINE gross == Gross(r, ExitOf(r, rates, Cfg), volume)
<1> DEFINE fee == volume * Cfg.perLot
<1> DEFINE p == [r EXCEPT !.st = "closed", !.why = reason]
<1> DEFINE x == [volume |-> volume, net |-> gross - fee - r.fee, reason |-> reason, ids |-> {}]
<1> DEFINE m == Closed(r, rates, Cfg, reason)
<1>1. volume \in Int /\ r.entry \in Int /\ r.fee \in Int
  BY ActiveIsNumber DEF Priced
<1>2. gross \in Int
  <2>1. Sign(r.dir) * Cfg.slip \in Int
    BY Signs, Products, PolicyNumbers
  <2>2. ExitOf(r, rates, Cfg) \in Int
    BY <2>1 DEF ExitOf
  <2> HIDE DEF volume
  <2> QED
    BY <1>1, <2>2, GrossIsNumber
<1>3. fee \in Int
  <2> HIDE DEF volume
  <2> QED
    BY <1>1, Products, PolicyNumbers
<1>4. m = [pos |-> p, gain |-> gross - fee, row |-> {x}]
  BY DEF Closed
<1>5. "st" \in DOMAIN p /\ p.st = "closed"
  BY DEF Priced
<1>6. x.net = gross - fee - r.fee
  OBVIOUS
<1> HIDE DEF p, x, m, gross, fee, volume
<1>7. m.gain = gross - fee /\ m.row = {x} /\ m.pos = p
  BY <1>4
<1>8. NetOf(m.row) = gross - fee - r.fee
  BY <1>6, <1>7, NetOfOne
<1>9. FeeOf(m.pos) = 0 /\ Priced(m.pos) /\ "st" \in DOMAIN m.pos
  BY <1>5, <1>7 DEF FeeOf, Priced
<1>10. PaysOut(r, m)
  BY <1>1, <1>2, <1>3, <1>7, <1>8, <1>9 DEF PaysOut
<1> QED
  BY <1>10 DEF m

LEMMA ReducedPays ==
  ASSUME NEW r, r.st = "open", Priced(r), NEW rates, MarkOf(r, rates) \in Int,
         NEW act, act.volume \in Int
  PROVE  PaysOut(r, Reduced(r, rates, Cfg, act))
<1> DEFINE asked == AtMost(act.volume, Active(r))
<1> DEFINE volume == AtMost(NormalizeClosing(asked, Cfg.minimum, Active(r)), Active(r))
<1> DEFINE gain == Gross(r, MarkOf(r, rates), volume) - volume * Cfg.perLot
<1> DEFINE p == [r EXCEPT !.rem = Active(r) - volume, !.done = @ \cup act.ids,
                          !.sl = IF act.stop = 0 THEN @ ELSE act.stop,
                          !.tp = IF SignalTarget \in act.ids THEN 0 ELSE @]
<1> DEFINE x == [volume |-> volume, net |-> gain, reason |-> act.reason, ids |-> act.ids]
<1> DEFINE m == Reduced(r, rates, Cfg, act)
<1>1. Active(r) \in Int /\ r.entry \in Int /\ r.fee \in Int
  BY ActiveIsNumber DEF Priced
<1>2. volume \in Int
  <2>1. asked \in Int
    BY <1>1 DEF AtMost
  <2> HIDE DEF asked
  <2>2. NormalizeClosing(asked, Cfg.minimum, Active(r)) \in Int
    BY <1>1, <2>1 DEF NormalizeClosing, Step
  <2> QED
    BY <1>1, <2>2 DEF AtMost
<1>3. gain \in Int
  <2> HIDE DEF volume
  <2>1. Gross(r, MarkOf(r, rates), volume) \in Int
    BY <1>1, <1>2, GrossIsNumber
  <2>2. volume * Cfg.perLot \in Int
    BY <1>2, Products, PolicyNumbers
  <2> QED
    BY <2>1, <2>2
<1>4. m = [pos |-> p, gain |-> gain, row |-> {x}]
  BY DEF Reduced
<1>5. x.net = gain
  OBVIOUS
<1> HIDE DEF volume
<1>6. "st" \in DOMAIN p /\ p.st = "open" /\ Priced(p) /\ p.fee = r.fee
  BY <1>1, <1>2 DEF Priced
<1> HIDE DEF p, x, m, gain
<1>7. m.gain = gain /\ m.row = {x} /\ m.pos = p
  BY <1>4
<1>8. NetOf(m.row) = gain
  BY <1>5, <1>7, NetOfOne
<1>9. PaysOut(r, m)
  BY <1>1, <1>3, <1>6, <1>7, <1>8 DEF PaysOut, FeeOf
<1> QED
  BY <1>9 DEF m

LEMMA UntouchedPays ==
  ASSUME NEW r, NEW p, r.fee \in Int, "st" \in DOMAIN p, p.st = "open", Priced(p), p.fee = r.fee
  PROVE  PaysOut(r, [pos |-> p, gain |-> 0, row |-> {}])
  BY NetOfOne DEF PaysOut, FeeOf

LEMMA ManagePays ==
  ASSUME NEW r, r.st = "open", Priced(r), NEW rates, rates.bid \in Int, rates.ask \in Int, NEW market
  PROVE  PaysOut(r, Manage(r, rates, Cfg, market))
<1> DEFINE mark == MarkOf(r, rates)
<1> DEFINE seen == [r EXCEPT !.fav = Best(r, mark)]
<1> DEFINE act == Evaluate(seen, mark, Cfg.policy, market, FALSE)
<1>1. mark \in Int
  BY DEF MarkOf
<1>2. /\ "st" \in DOMAIN seen /\ seen.st = "open" /\ Priced(seen) /\ seen.fee = r.fee /\ r.fee \in Int
      /\ seen.vol \in Int /\ seen.rem \in Int /\ seen.levels = {}
  BY DEF Priced
<1>3. MarkOf(seen, rates) \in Int
  BY DEF MarkOf
<1> HIDE DEF seen
<1>4. act.volume \in Int
  BY <1>2, EvaluateVolume
<1>5. CASE ReasonToClose(r, rates, Cfg) # ""
  <2>1. Manage(r, rates, Cfg, market) = Closed(r, rates, Cfg, ReasonToClose(r, rates, Cfg))
    BY <1>5 DEF Manage
  <2>2. PaysOut(r, Closed(r, rates, Cfg, ReasonToClose(r, rates, Cfg)))
    BY <1>1, ClosedPays
  <2> QED
    BY <2>1, <2>2
<1>6. CASE ReasonToClose(r, rates, Cfg) = ""
  <2>1. Manage(r, rates, Cfg, market) = Acted(seen, rates, Cfg, act)
    BY <1>6 DEF Manage, seen
  <2> HIDE DEF act, mark
  <2>2. \A m : PaysOut(seen, m) => PaysOut(r, m)
    BY <1>2 DEF PaysOut
  <2>3. CASE act.kind = "close"
    <3>1. Acted(seen, rates, Cfg, act) = Closed(seen, rates, Cfg, act.reason)
      BY <2>3 DEF Acted
    <3>2. PaysOut(seen, Closed(seen, rates, Cfg, act.reason))
      BY <1>2, <1>3, ClosedPays
    <3> QED
      BY <2>1, <2>2, <3>1, <3>2
  <2>4. CASE act.kind = "partial" /\ act.volume > 0
    <3>1. Acted(seen, rates, Cfg, act) = Reduced(seen, rates, Cfg, act)
      BY <2>4 DEF Acted
    <3>2. PaysOut(seen, Reduced(seen, rates, Cfg, act))
      BY <1>2, <1>3, <1>4, ReducedPays
    <3> QED
      BY <2>1, <2>2, <3>1, <3>2
  <2>5. CASE act.kind # "close" /\ ~ (act.kind = "partial" /\ act.volume > 0)
    <3>1. PICK p : /\ Acted(seen, rates, Cfg, act) = [pos |-> p, gain |-> 0, row |-> {}]
                   /\ p = seen \/ p = [seen EXCEPT !.sl = act.stop]
      BY <2>5 DEF Acted
    <3>2. "st" \in DOMAIN p /\ p.st = "open" /\ Priced(p) /\ p.fee = r.fee
      BY <1>2, <3>1 DEF Priced
    <3>3. PaysOut(r, [pos |-> p, gain |-> 0, row |-> {}])
      BY <1>2, <3>2, UntouchedPays
    <3> QED
      BY <2>1, <3>1, <3>3
  <2> QED
    BY <2>3, <2>4, <2>5
<1> QED
  BY <1>5, <1>6

(* The whole book.                                                          *)
RowsPriced(rows) == \A o \in Order : Priced(rows[o])

LEMMA OrdersAreFinite == IsFiniteSet(Order)
  BY PaperAssumption

LEMMA FeesAreNumbers ==
  ASSUME NEW rows, RowsPriced(rows)
  PROVE  /\ Fees(rows) = SumFunction([o \in Order |-> FeeOf(rows[o])])
         /\ [o \in Order |-> FeeOf(rows[o])] \in [Order -> Int]
         /\ Fees(rows) \in Int
<1>1. \A o \in Order : FeeOf(rows[o]) \in Int
  BY DEF RowsPriced, Priced, FeeOf
<1>2. Fees(rows) = SumFunction([o \in Order |-> FeeOf(rows[o])])
  BY DEF Fees, FeeOf
<1> DEFINE f == [o \in Order |-> FeeOf(rows[o])]
<1>3. f \in [Order -> Int]
  BY <1>1
<1> HIDE DEF f
<1>4. SumFunction(f) \in Int
  BY <1>3, OrdersAreFinite, SumIsNumber
<1> QED
  BY <1>2, <1>3, <1>4 DEF f

LEMMA SameFees ==
  ASSUME NEW rows, NEW new, \A o \in Order : FeeOf(new[o]) = FeeOf(rows[o])
  PROVE  Fees(new) = Fees(rows)
<1>1. [o \in Order |-> FeeOf(new[o])] = [o \in Order |-> FeeOf(rows[o])]
  OBVIOUS
<1> QED
  BY <1>1 DEF Fees, FeeOf

LEMMA RowPays ==
  ASSUME NEW rows, NEW o \in Order, Priced(rows[o]), NEW bid \in Int
  PROVE  LET m == Managed(rows, bid)[o] IN
         /\ m.gain \in Int /\ NetOf(m.row) \in Int
         /\ FeeOf(rows[o]) \in Int /\ FeeOf(Kept(m.pos)) \in Int /\ Priced(Kept(m.pos))
         /\ m.gain = NetOf(m.row) + FeeOf(rows[o]) - FeeOf(Kept(m.pos))
<1> DEFINE m == Managed(rows, bid)[o]
<1>1. CASE rows[o].st = "open"
  <2> DEFINE rates == [bid |-> bid, ask |-> bid + Spread]
  <2>1. m = Manage(rows[o], rates, Cfg, Calm)
    BY <1>1 DEF Managed
  <2>2. rates.bid \in Int /\ rates.ask \in Int
    BY PaperAssumption
  <2> HIDE DEF rates
  <2>3. PaysOut(rows[o], Manage(rows[o], rates, Cfg, Calm))
    BY <1>1, <2>2, ManagePays
  <2>4. PaysOut(rows[o], m)
    BY <2>1, <2>3
  <2> HIDE DEF m
  <2>5. FeeOf(rows[o]) = rows[o].fee /\ rows[o].fee \in Int
    BY <1>1 DEF FeeOf, Priced
  <2>6. FeeOf(Kept(m.pos)) = FeeOf(m.pos) /\ Priced(Kept(m.pos))
    BY <2>4 DEF PaysOut, FeeOf, Kept, Priced
  <2> QED
    BY <2>4, <2>5, <2>6 DEF PaysOut, m
<1>2. CASE rows[o].st # "open"
  <2>1. m.pos = rows[o] /\ m.gain = 0 /\ m.row = {}
    BY <1>2 DEF Managed
  <2> HIDE DEF m
  <2>2. FeeOf(rows[o]) = 0 /\ FeeOf(Kept(m.pos)) = 0 /\ Priced(Kept(m.pos))
    BY <1>2, <2>1 DEF FeeOf, Kept, Priced
  <2> QED
    BY <2>1, <2>2, NetOfOne DEF m
<1> QED
  BY <1>1, <1>2

LEMMA BookPays ==
  ASSUME NEW rows, RowsPriced(rows), NEW bid \in Int
  PROVE  LET outcome == Managed(rows, bid)
             after == [o \in Order |-> Kept(outcome[o].pos)]
         IN  /\ RowsPriced(after) /\ Fees(after) \in Int
             /\ Gains(outcome) \in Int /\ Nets(outcome) \in Int
             /\ Gains(outcome) = Nets(outcome) + Fees(rows) - Fees(after)
<1> DEFINE outcome == Managed(rows, bid)
<1> DEFINE after == [o \in Order |-> Kept(outcome[o].pos)]
<1> DEFINE gains == [o \in Order |-> outcome[o].gain]
<1> DEFINE nets == [o \in Order |-> NetOf(outcome[o].row)]
<1> DEFINE before == [o \in Order |-> FeeOf(rows[o])]
<1> DEFINE left == [o \in Order |-> FeeOf(after[o])]
<1>1. \A o \in Order :
        LET m == outcome[o] IN
        /\ m.gain \in Int /\ NetOf(m.row) \in Int
        /\ FeeOf(rows[o]) \in Int /\ FeeOf(Kept(m.pos)) \in Int /\ Priced(Kept(m.pos))
        /\ m.gain = NetOf(m.row) + FeeOf(rows[o]) - FeeOf(Kept(m.pos))
  BY RowPays DEF RowsPriced
<1> HIDE DEF outcome
<1>2. RowsPriced(after)
  BY <1>1 DEF RowsPriced
<1>3. /\ gains \in [Order -> Int] /\ nets \in [Order -> Int]
      /\ before \in [Order -> Int] /\ left \in [Order -> Int]
  BY <1>1
<1>4. \A o \in Order : gains[o] = nets[o] + before[o] - left[o]
  BY <1>1
<1>5. Fees(rows) = SumFunction(before)
  BY DEF Fees, FeeOf
<1> HIDE DEF after
<1>6. Fees(after) = SumFunction(left)
  BY DEF Fees, FeeOf
<1>7. Gains(outcome) = SumFunction(gains) /\ Nets(outcome) = SumFunction(nets)
  BY DEF Gains, Nets
<1> HIDE DEF gains, nets, before, left
<1>8. SumFunction(gains) = SumFunction(nets) + SumFunction(before) - SumFunction(left)
  BY <1>3, <1>4, OrdersAreFinite, SumsBalance
<1>9. SumFunction(gains) \in Int /\ SumFunction(nets) \in Int /\ SumFunction(left) \in Int
  BY <1>3, OrdersAreFinite, SumIsNumber
<1>10. /\ RowsPriced(after) /\ Fees(after) \in Int
       /\ Gains(outcome) \in Int /\ Nets(outcome) \in Int
       /\ Gains(outcome) = Nets(outcome) + Fees(rows) - Fees(after)
  BY <1>2, <1>5, <1>6, <1>7, <1>8, <1>9
<1> QED
  BY <1>10 DEF outcome, after

(* A fill pays the opening commission of the position it opens.             *)
LEMMA FillPays ==
  ASSUME NEW rows, NEW new, NEW o \in Order, RowsPriced(rows), rows[o].st # "open", ticker.bid \in Int,
         new[o] = Fresh(o, Entry(o, ticker.bid)), \A p \in Order \ {o} : new[p] = rows[p]
  PROVE  RowsPriced(new) /\ Volume * Cfg.perLot \in Int /\ Fees(new) = Fees(rows) + Volume * Cfg.perLot
<1> DEFINE fee == Volume * Cfg.perLot
<1> DEFINE before == [p \in Order |-> FeeOf(rows[p])]
<1> DEFINE after == [p \in Order |-> FeeOf(new[p])]
<1> DEFINE extra == [p \in Order |-> IF p = o THEN fee ELSE 0]
<1> DEFINE none == [p \in Order |-> 0]
<1>1. Volume \in Int /\ Spread \in Int /\ fee \in Int
  BY PaperAssumption, PolicyNumbers, Products
<1>2. Entry(o, ticker.bid) \in Int
  BY <1>1, PolicyNumbers DEF Entry
<1> HIDE DEF fee
<1>3. Priced(new[o]) /\ FeeOf(new[o]) = fee
  <2> DEFINE fill == Entry(o, ticker.bid)
  <2> DEFINE x == Fresh(o, fill)
  <2> HIDE DEF fill
  <2>1. {"st", "dir", "vol", "rem", "entry", "sl", "tp", "done", "why", "fee", "levels"} \subseteq DOMAIN x
    BY DEF Fresh
  <2>2. /\ x.st = "open" /\ x.vol = Volume /\ x.rem = Volume
        /\ x.entry = fill /\ x.fee = fee /\ x.levels = {}
    BY DEF Fresh, fee
  <2>3. fill \in Int /\ new[o] = x
    BY <1>2 DEF fill
  <2> HIDE DEF x
  <2> QED
    BY <1>1, <2>1, <2>2, <2>3 DEF Priced, FeeOf
<1>4. RowsPriced(new)
  BY <1>3 DEF RowsPriced
<1>5. before \in [Order -> Int] /\ Fees(rows) = SumFunction(before)
  BY FeesAreNumbers
<1>6. after \in [Order -> Int] /\ Fees(new) = SumFunction(after)
  BY <1>4, FeesAreNumbers
<1>7. extra \in [Order -> Int] /\ none \in [Order -> Int] /\ extra[o] = fee /\ none[o] = 0
      /\ (\A p \in Order \ {o} : extra[p] = 0) /\ (\A p \in Order \ {o} : none[p] = 0)
  BY <1>1
<1>8. \A p \in Order : after[p] = before[p] + extra[p] - none[p]
  <2>1. FeeOf(rows[o]) = 0
    BY DEF FeeOf
  <2>2. \A p \in Order : FeeOf(rows[p]) \in Int
    BY <1>5
  <2> QED
    BY <1>1, <1>3, <2>1, <2>2
<1> HIDE DEF before, after, extra, none
<1>9. SumFunction(after) = SumFunction(before) + SumFunction(extra) - SumFunction(none)
  BY <1>5, <1>6, <1>7, <1>8, OrdersAreFinite, SumsBalance
<1>10. SumFunction(extra) = fee /\ SumFunction(none) = 0
  BY <1>7, OrdersAreFinite, SumOfOne
<1>11. SumFunction(before) \in Int
  BY <1>5, OrdersAreFinite, SumIsNumber
<1> QED
  BY <1>1, <1>4, <1>5, <1>6, <1>9, <1>10, <1>11 DEF fee

----------------------------------------------------------------------------
(* The fills of a tick.                                                     *)

(* The queue has a first order: the oldest, by its id among equals.         *)
LEMMA FirstIsDue ==
  ASSUME order \in OrderRows, NEW S \in SUBSET Order, S # {}
  PROVE  FirstDue(S) \in S
<1> DEFINE youth(o) == Timeout + 1 - order[o].age
<1>1. \A o \in S : order[o].age \in 0..(Timeout + 1) /\ o \in Nat
  BY PaperAssumption DEF OrderRows
<1> DEFINE Y == {youth(o) : o \in S}
<1>2. Y \in SUBSET Nat /\ Y # {}
  <2>1. \A o \in S : youth(o) \in Nat
    BY <1>1, PaperAssumption
  <2> QED
    BY <2>1
<1>3. PICK least \in Y : \A y \in Y : least <= y
  <2> HIDE DEF Y
  <2> QED
    BY <1>2, NumbersHaveLeast
<1> DEFINE Old == {o \in S : youth(o) = least}
<1>4. Old \in SUBSET Nat /\ Old # {}
  BY <1>1, <1>3
<1>5. PICK first \in Old : \A o \in Old : first <= o
  <2> HIDE DEF Old
  <2> QED
    BY <1>4, NumbersHaveLeast
<1>6. ASSUME NEW p \in S \ {first} PROVE Before(first, p)
  <2>1. /\ order[first].age \in Int /\ order[p].age \in Int /\ Timeout \in Int
        /\ first \in Int /\ p \in Int /\ first # p
    <3>1. first \in S /\ p \in S /\ first # p
      OBVIOUS
    <3> HIDE DEF Old, Y
    <3> QED
      BY <1>1, <3>1, LimitsAreNumbers
  <2>2. youth(first) <= youth(p)
    BY <1>3
  <2>3. youth(p) = youth(first) => first <= p
    BY <1>5
  <2> QED
    BY <2>1, <2>2, <2>3 DEF Before
<1>7. \E o \in S : \A p \in S \ {o} : Before(o, p)
  BY <1>6
<1> QED
  BY <1>7 DEF FirstDue

(* A fill takes from the cash what it adds to the commissions still owed.   *)
Counted == RowsPriced(pos) /\ account.balance \in Int /\ ticker.bid \in Int
Funded(state) == /\ RowsPriced(state.rows) /\ state.balance \in Int
                 /\ state.balance + Fees(state.rows) = account.balance + Fees(pos)

(* What holds after n orders of the queue.                                  *)
Filling(state, n) ==
  /\ state = [orders |-> state.orders, rows |-> state.rows, balance |-> state.balance,
              free |-> state.free, left |-> state.left]
  /\ state.orders \in OrderRows /\ Rows(state.rows)
  /\ Agree(state.orders, state.rows) /\ Held(state.rows)
  /\ \A o \in Order : order[o].st # "pending" => state.orders[o] = order[o]
  /\ state.left \in SUBSET Order /\ \A o \in state.left : state.orders[o].st = "pending"
  /\ Cardinality(state.left) = Cardinality(Due) - n
  /\ Counted => Funded(state)

LEMMA DueIsFinite == /\ IsFiniteSet(Due) /\ Cardinality(Due) \in Nat
                     /\ \A S \in SUBSET Order : IsFiniteSet(S)
<1>1. \A S \in SUBSET Order : IsFiniteSet(S)
  BY FS_Subset, PaperAssumption
<1>2. Due \in SUBSET Order
  BY DEF Due, Pending
<1> QED
  BY <1>1, <1>2, FS_CardinalityType

(* An order that is filled finds the limits as they are.                    *)
LEMMA FillHolds ==
  ASSUME NEW rows, NEW new, NEW o \in Order, Held(rows),
         OpenIn(new) = OpenIn(rows) \cup {o}, o \notin OpenIn(rows),
         ~ (Cardinality(OpenIn(rows)) >= MaxTotal),
         ~ (Cardinality(SameSide(o, OpenIn(rows))) >= MaxSide)
  PROVE  Held(new)
<1>1. IsFiniteSet(OpenIn(rows)) /\ Cardinality(OpenIn(rows)) \in Nat
  BY OpenAreFinite
<1>2. Cardinality(OpenIn(new)) = Cardinality(OpenIn(rows)) + 1
  BY <1>1, FS_AddElement
<1>3. ASSUME NEW p \in OpenIn(new)
      PROVE  Cardinality(SameSide(p, OpenIn(new))) <= MaxSide
  <2> DEFINE side == SameSide(p, OpenIn(rows))
  <2>1. IsFiniteSet(side) /\ Cardinality(side) \in Nat
    BY <1>1, SideIsFinite
  <2>2. CASE Direction[p] = Direction[o]
    <3>1. SameSide(p, OpenIn(new)) = side \cup {o} /\ o \notin side /\ side = SameSide(o, OpenIn(rows))
      BY <2>2 DEF SameSide
    <3> HIDE DEF side
    <3>2. Cardinality(side \cup {o}) = Cardinality(side) + 1
      BY <2>1, <3>1, FS_AddElement
    <3>3. ~ (Cardinality(side) >= MaxSide)
      BY <3>1
    <3>4. Cardinality(SameSide(p, OpenIn(new))) = Cardinality(side) + 1
      BY <3>1, <3>2
    <3> QED
      BY <2>1, <3>3, <3>4, LimitsAreNumbers
  <2>3. CASE Direction[p] # Direction[o]
    <3>1. SameSide(p, OpenIn(new)) = side /\ p \in OpenIn(rows)
      BY <2>3 DEF SameSide
    <3> QED
      BY <3>1 DEF Held
  <2> QED
    BY <2>2, <2>3
<1> QED
  BY <1>1, <1>2, <1>3, LimitsAreNumbers DEF Held

LEMMA FillKeeps ==
  ASSUME order \in OrderRows, NEW n \in Nat, n < Cardinality(Due), NEW state, Filling(state, n)
  PROVE  Filling(Fill(state), n + 1)
<1> DEFINE o == FirstDue(state.left)
<1> DEFINE rest == state.left \ {o}
<1> DEFINE fill == Entry(o, ticker.bid)
<1>1. Cardinality(state.left) \in Nat /\ Cardinality(state.left) > 0 /\ IsFiniteSet(state.left)
  BY DueIsFinite DEF Filling
<1>2. state.left # {} /\ state.left \in SUBSET Order
  BY <1>1, FS_EmptySet DEF Filling
<1>3. o \in state.left
  BY <1>2, FirstIsDue
<1>4. o \in Order /\ state.orders[o].st = "pending" /\ rest \in SUBSET Order
  BY <1>2, <1>3 DEF Filling
<1> HIDE DEF o
<1>5. Cardinality(rest) = Cardinality(Due) - (n + 1)
  <2>1. Cardinality(rest) = Cardinality(state.left) - 1
    BY <1>1, <1>3, FS_RemoveElement
  <2> QED
    BY <2>1, DueIsFinite DEF Filling
<1>6. state.rows[o].st = "none" /\ o \notin OpenIn(state.rows)
  BY <1>4 DEF Filling, Agree, OpenIn
<1>7. order[o].st = "pending"
  BY <1>4 DEF Filling
<1>8. CASE Refused(state, o, fill)
  <2> DEFINE orders == [state.orders EXCEPT ![o].st = "rejected"]
  <2>1. Fill(state) = [state EXCEPT !.orders = orders, !.left = rest]
    BY <1>8 DEF Fill, o
  <2>2. /\ orders \in OrderRows /\ orders[o].st = "rejected"
        /\ \A p \in Order \ {o} : orders[p] = state.orders[p]
    BY <1>4 DEF Filling, OrderRows, Status
  <2> HIDE DEF orders, rest
  <2>3. Fill(state) = [orders |-> orders, rows |-> state.rows, balance |-> state.balance,
                       free |-> state.free, left |-> rest]
    BY <2>1 DEF Filling
  <2>4. Agree(orders, state.rows)
    BY <1>4, <1>6, <2>2 DEF Filling, Agree
  <2>5. \A p \in rest : orders[p].st = "pending"
    BY <1>2, <2>2 DEF Filling, rest
  <2>6. \A p \in Order : order[p].st # "pending" => orders[p] = order[p]
    BY <1>7, <2>2 DEF Filling
  <2>7. Counted => Funded(Fill(state))
    BY <2>3 DEF Filling, Funded
  <2> QED
    BY <1>4, <1>5, <2>2, <2>3, <2>4, <2>5, <2>6, <2>7 DEF Filling
<1>9. CASE ~ Refused(state, o, fill)
  <2> DEFINE orders == [state.orders EXCEPT ![o].st = "filled"]
  <2> DEFINE rows == [state.rows EXCEPT ![o] = Fresh(o, fill)]
  <2> DEFINE balance == state.balance - Volume * Cfg.perLot
  <2> DEFINE free == state.free - Margin(fill, Volume) - Volume * Cfg.perLot
  <2>1. Fill(state) = [orders |-> orders, rows |-> rows, balance |-> balance, free |-> free, left |-> rest]
    BY <1>9 DEF Fill, o
  <2>2. /\ orders \in OrderRows /\ orders[o].st = "filled"
        /\ \A p \in Order \ {o} : orders[p] = state.orders[p]
    BY <1>4 DEF Filling, OrderRows, Status
  <2>3. /\ "st" \in DOMAIN Fresh(o, fill) /\ Fresh(o, fill).st = "open"
    BY DEF Fresh
  <2>4. state.rows = [p \in Order |-> state.rows[p]]
    BY DEF Filling, Rows
  <2>5. /\ rows = [p \in Order |-> rows[p]] /\ rows[o] = Fresh(o, fill)
        /\ \A p \in Order \ {o} : rows[p] = state.rows[p]
    BY <1>4, <2>4
  <2> HIDE DEF orders, rows, balance, free, rest, fill
  <2>6. Rows(rows)
    BY <2>3, <2>5 DEF Filling, Rows, Row
  <2>7. OpenIn(rows) = OpenIn(state.rows) \cup {o}
    BY <1>4, <2>3, <2>5 DEF OpenIn
  <2>8. /\ ~ (Cardinality(OpenIn(state.rows)) >= MaxTotal)
        /\ ~ (Cardinality(SameSide(o, OpenIn(state.rows))) >= MaxSide)
    BY <1>9 DEF Refused
  <2>9. Held(rows)
    BY <1>4, <1>6, <2>7, <2>8, FillHolds DEF Filling
  <2>10. Agree(orders, rows)
    BY <1>4, <2>2, <2>3, <2>5 DEF Filling, Agree
  <2>11. \A p \in rest : orders[p].st = "pending"
    BY <1>2, <2>2 DEF Filling, rest
  <2>12. \A p \in Order : order[p].st # "pending" => orders[p] = order[p]
    BY <1>7, <2>2 DEF Filling
  <2>13. ASSUME Counted PROVE Funded(Fill(state))
    <3>1. /\ RowsPriced(state.rows) /\ state.balance \in Int /\ ticker.bid \in Int
          /\ state.balance + Fees(state.rows) = account.balance + Fees(pos)
      BY <2>13 DEF Filling, Funded, Counted
    <3>2. /\ RowsPriced(rows) /\ Volume * Cfg.perLot \in Int
          /\ Fees(rows) = Fees(state.rows) + Volume * Cfg.perLot
      BY <1>4, <1>6, <2>5, <3>1, FillPays DEF fill
    <3>3. Fees(state.rows) \in Int
      BY <3>1, FeesAreNumbers
    <3>4. Fill(state).rows = rows /\ Fill(state).balance = balance
      BY <2>1
    <3> QED
      BY <3>1, <3>2, <3>3, <3>4 DEF Funded, balance
  <2> QED
    BY <1>4, <1>5, <2>1, <2>2, <2>6, <2>9, <2>10, <2>11, <2>12, <2>13 DEF Filling
<1> QED
  BY <1>8, <1>9

(* The recursion of Fills has a solution, built up order by order.          *)
LEMMA FillsIsDefined ==
  Fills = [n \in 0..Cardinality(Due) |->
             IF n = 0 THEN [orders |-> order, rows |-> pos, balance |-> account.balance,
                            free |-> account.free, left |-> Due]
             ELSE Fill(Fills[n - 1])]
<1> DEFINE start == [orders |-> order, rows |-> pos, balance |-> account.balance,
                     free |-> account.free, left |-> Due]
<1> DEFINE Missing == {n \in Nat : ~ \E f : f = [i \in 0..n |-> IF i = 0 THEN start ELSE Fill(f[i - 1])]}
<1>1. Missing = {}
  <2> SUFFICES ASSUME Missing # {} PROVE FALSE
    OBVIOUS
  <2>1. PICK n \in Missing : \A m \in Missing : n <= m
    <3>1. Missing \in SUBSET Nat
      OBVIOUS
    <3> HIDE DEF Missing
    <3> QED
      BY <3>1, NumbersHaveLeast
  <2> HIDE DEF start
  <2>2. CASE n = 0
    <3> DEFINE g == [i \in 0..n |-> start]
    <3>1. g = [i \in 0..n |-> IF i = 0 THEN start ELSE Fill(g[i - 1])]
      BY <2>2
    <3> QED
      BY <3>1
  <2>3. CASE n # 0
    <3>1. n \in Nat /\ n - 1 \in Nat /\ n - 1 \notin Missing
      <4>1. n \in Nat
        OBVIOUS
      <4> HIDE DEF Missing
      <4> QED
        BY <2>1, <2>3, <4>1
    <3>2. PICK f : f = [i \in 0..(n - 1) |-> IF i = 0 THEN start ELSE Fill(f[i - 1])]
      BY <3>1
    <3> DEFINE g == [i \in 0..n |-> IF i = n THEN Fill(f[n - 1]) ELSE f[i]]
    <3>3. ASSUME NEW i \in 0..n PROVE g[i] = IF i = 0 THEN start ELSE Fill(g[i - 1])
      <4>1. CASE i = n
        <5>1. n - 1 \in 0..n /\ n - 1 # n
          BY <3>1
        <5>2. g[n - 1] = f[n - 1]
          BY <5>1
        <5>3. g[i] = Fill(f[n - 1])
          BY <4>1
        <5> QED
          BY <2>3, <4>1, <5>2, <5>3
      <4>2. CASE i # n
        <5>1. i \in 0..(n - 1) /\ g[i] = f[i]
          BY <3>1, <4>2
        <5>2. f[i] = IF i = 0 THEN start ELSE Fill(f[i - 1])
          BY <3>2, <5>1
        <5>3. i # 0 => g[i - 1] = f[i - 1]
          <6>1. i # 0 => i - 1 \in 0..n /\ i - 1 # n
            BY <3>1, <5>1
          <6> QED
            BY <6>1
        <5> QED
          BY <5>1, <5>2, <5>3
      <4> QED
        BY <4>1, <4>2
    <3>4. g = [i \in 0..n |-> g[i]]
      OBVIOUS
    <3> HIDE DEF g
    <3>5. g = [i \in 0..n |-> IF i = 0 THEN start ELSE Fill(g[i - 1])]
      BY <3>3, <3>4
    <3> QED
      BY <3>5
  <2> QED
    BY <2>2, <2>3
<1>2. \E f : f = [n \in 0..Cardinality(Due) |-> IF n = 0 THEN start ELSE Fill(f[n - 1])]
  BY <1>1, DueIsFinite
<1> QED
  BY <1>2 DEF Fills

LEMMA FilledKeeps ==
  ASSUME order \in OrderRows, Rows(pos), Agree(order, pos), Held(pos)
  PROVE  Filling(Filled, Cardinality(Due))
<1> DEFINE K == Cardinality(Due)
<1> DEFINE start == [orders |-> order, rows |-> pos, balance |-> account.balance,
                     free |-> account.free, left |-> Due]
<1>1. K \in Nat
  BY DueIsFinite
<1>2. \A n \in 0..K : Fills[n] = IF n = 0 THEN start ELSE Fill(Fills[n - 1])
  BY FillsIsDefined
<1>3. Filling(start, 0)
  <2>1. Due \in SUBSET Order /\ \A o \in Due : order[o].st = "pending"
    BY DEF Due, Pending
  <2>2. Counted => Funded(start)
    BY DEF Counted, Funded
  <2> QED
    BY <1>1, <2>1, <2>2 DEF Filling
<1> HIDE DEF start
<1> DEFINE Failing == {n \in 0..K : ~ Filling(Fills[n], n)}
<1>4. Failing = {}
  <2> SUFFICES ASSUME Failing # {} PROVE FALSE
    OBVIOUS
  <2>1. PICK n \in Failing : \A m \in Failing : n <= m
    <3>1. Failing \in SUBSET Nat
      OBVIOUS
    <3> HIDE DEF Failing
    <3> QED
      BY <3>1, NumbersHaveLeast
  <2>2. n \in 0..K /\ n # 0
    BY <1>2, <1>3, <2>1
  <2>3. n - 1 \in 0..K /\ n - 1 \in Nat /\ n - 1 < K /\ n - 1 \notin Failing /\ (n - 1) + 1 = n
    BY <1>1, <2>1, <2>2
  <2>4. Filling(Fills[n - 1], n - 1) /\ Fills[n] = Fill(Fills[n - 1])
    BY <1>2, <2>2, <2>3
  <2> HIDE DEF Failing
  <2>5. Filling(Fill(Fills[n - 1]), (n - 1) + 1)
    BY <2>3, <2>4, FillKeeps
  <2> QED
    BY <2>1, <2>3, <2>4, <2>5 DEF Failing
<1> QED
  BY <1>1, <1>4 DEF Filled

----------------------------------------------------------------------------
(* The steps.                                                               *)

LEMMA PaperInit == Init => PaperInv
<1> SUFFICES ASSUME Init PROVE PaperInv
  OBVIOUS
<1>1. OpenIn(pos) = {}
  BY DEF Init, OpenIn, NoPos
<1>2. Held(pos)
  BY <1>1, FS_EmptySet, PaperAssumption DEF Held
<1>3. order \in OrderRows /\ creator \in Creators
  BY PaperAssumption DEF Init, OrderRows, Status, Creators, Unread, Places
<1>4. Rows(pos) /\ Agree(order, pos)
  BY DEF Init, Rows, Row, NoPos, Agree
<1>5. AccountRow(account) /\ TickState(ticker)
  BY DEF Init, AccountRow, TickState, Idle
<1> QED
  BY <1>1, <1>2, <1>3, <1>4, <1>5 DEF Init, PaperInv, PaperTyped, Unread, Idle, Opens

(* A step that fills nothing.                                               *)
LEMMA StepKeeps ==
  ASSUME PaperInv, AccountRow(account)', TickState(ticker)',
         order' \in OrderRows, creator' \in Creators, Follows(pos, pos'),
         \A o \in Order : order'[o].st = "filled" <=> order[o].st = "filled",
         \A o \in Order : creator'[o].pc # "done" => order'[o].st = "none",
         \/ /\ account'.enabled = account.enabled
            /\ ticker'.pc = "listed" /\ ticker'.serves => account.enabled
         \/ OpenIn(pos') = {} /\ ticker'.pc = "idle"
  PROVE  PaperInv'
<1>1. /\ OpenIn(pos') \subseteq OpenIn(pos) /\ Held(pos') /\ Agree(order, pos')
  BY FollowingKeeps DEF PaperInv, PaperTyped
<1>2. Agree(order', pos')
  BY <1>1 DEF Agree
<1>3. PaperTyped'
  BY DEF PaperTyped, Follows, Rows, Row, OrderRows, Creators
<1>4. Held(pos)'
  BY <1>1 DEF Held, OpenIn, SameSide
<1>5. ~ account'.enabled => OpenIn(pos') = {}
  BY <1>1 DEF PaperInv, Opens
<1> QED
  BY <1>2, <1>3, <1>4, <1>5 DEF PaperInv, Agree, Opens, OpenIn

LEMMA SamePositions == ASSUME PaperInv, pos' = pos PROVE Follows(pos, pos')
  BY DEF PaperInv, PaperTyped, Follows, Rows, Row

LEMMA PendingCancelled ==
  ASSUME PaperInv, CancelPending \/ UNCHANGED order
  PROVE  /\ order' \in OrderRows
         /\ \A o \in Order : order'[o].st = "filled" <=> order[o].st = "filled"
         /\ \A o \in Order : creator[o].pc # "done" => order'[o].st = "none"
<1>1. order \in OrderRows /\ \A o \in Order : creator[o].pc # "done" => order[o].st = "none"
  BY DEF PaperInv, PaperTyped
<1>2. CASE UNCHANGED order
  BY <1>1, <1>2
<1>3. CASE CancelPending
  <2>1. \A o \in Order : order'[o] = IF order[o].st = "pending" THEN [order[o] EXCEPT !.st = "canceled"]
                                    ELSE order[o]
    BY <1>3 DEF CancelPending
  <2>2. order' \in OrderRows
    BY <1>1, <1>3 DEF CancelPending, OrderRows, Status
  <2> QED
    BY <1>1, <2>1, <2>2 DEF OrderRows
<1> QED
  BY <1>2, <1>3

LEMMA CreatorKeeps ==
  ASSUME PaperInv, NEW o \in Order, CreatorStep(o)
  PROVE  PaperInv'
<1>1. UNCHANGED <<account, ticker>>
  BY DEF CreatorStep, ReadEligible, MarkReversed, CountOpen, CountPending, InsertOrder
<1>2. /\ AccountRow(account)' /\ TickState(ticker)' /\ creator \in Creators
      /\ ticker.pc = "listed" /\ ticker.serves => account.enabled
  BY <1>1 DEF PaperInv, PaperTyped, AccountRow, TickState
<1>3. ASSUME NEW c, creator' = [creator EXCEPT ![o] = c], c \in [pc : Places, open : Nat]
      PROVE  creator' \in Creators /\ creator'[o] = c /\ \A p \in Order \ {o} : creator'[p] = creator[p]
  BY <1>2, <1>3 DEF Creators
<1>4. creator[o] \in [pc : Places, open : Nat]
  BY <1>2 DEF Creators
<1>5. CASE ReadEligible(o)
  <2>1. creator[o].pc # "done" /\ (CancelPending \/ UNCHANGED order) /\ pos' = pos
    BY <1>5 DEF ReadEligible, At, ExpireDeployments
  <2>2. PICK pc \in {"eligible", "done"} : creator' = [creator EXCEPT ![o] = [creator[o] EXCEPT !.pc = pc]]
    BY <1>5 DEF ReadEligible, Goes, Moves
  <2>3. [creator[o] EXCEPT !.pc = pc] \in [pc : Places, open : Nat]
    BY <1>4, <2>2 DEF Places
  <2>4. creator' \in Creators /\ \A p \in Order : creator'[p].pc # "done" => creator[p].pc # "done"
    BY <1>3, <2>1, <2>2, <2>3
  <2> QED
    BY <1>1, <1>2, <2>1, <2>4, SamePositions, PendingCancelled, StepKeeps
<1>6. CASE MarkReversed(o)
  <2>1. /\ creator[o].pc # "done" /\ creator' = [creator EXCEPT ![o] = [creator[o] EXCEPT !.pc = "marked"]]
        /\ UNCHANGED order
        /\ pos' = [p \in Order |-> IF Contradicts(o, p) THEN [pos[p] EXCEPT !.why = "reverse_signal"] ELSE pos[p]]
    BY <1>6 DEF MarkReversed, At, Goes, Moves
  <2>2. [creator[o] EXCEPT !.pc = "marked"] \in [pc : Places, open : Nat]
    BY <1>4 DEF Places
  <2>3. creator' \in Creators /\ \A p \in Order : creator'[p].pc # "done" => creator[p].pc # "done"
    BY <1>3, <2>1, <2>2
  <2>4. \A p \in Order : Row(pos[p])
    BY DEF PaperInv, PaperTyped, Rows
  <2>5. \A p \in Order : Row(pos'[p]) /\ pos'[p].st = pos[p].st
    BY <2>1, <2>4 DEF Row
  <2>6. pos' = [p \in Order |-> pos'[p]]
    BY <2>1
  <2>7. Follows(pos, pos')
    BY <2>5, <2>6 DEF Follows, Rows
  <2> QED
    BY <1>1, <1>2, <2>1, <2>3, <2>7, PendingCancelled, StepKeeps
<1>7. CASE CountOpen(o) \/ CountPending(o)
  <2>1. creator[o].pc # "done" /\ UNCHANGED <<order, pos>>
    BY <1>7 DEF CountOpen, CountPending, At
  <2>2. PICK c \in [pc : Places, open : Nat] : creator' = [creator EXCEPT ![o] = c]
    <3>1. Cardinality(Opens) \in Nat
      BY OpenAreFinite DEF Opens
    <3>2. CASE CountOpen(o)
      <4> DEFINE c == [pc |-> "counted", open |-> Cardinality(Opens)]
      <4>1. c \in [pc : Places, open : Nat]
        BY <3>1 DEF Places
      <4>2. creator' = [creator EXCEPT ![o] = c]
        BY <3>2 DEF CountOpen, Moves
      <4> HIDE DEF c
      <4> QED
        BY <4>1, <4>2
    <3>3. CASE CountPending(o)
      <4>1. PICK pc \in {"refused", "allowed"} : creator' = [creator EXCEPT ![o] = [Unread EXCEPT !.pc = pc]]
        BY <3>3 DEF CountPending, Moves
      <4> DEFINE c == [Unread EXCEPT !.pc = pc]
      <4>2. c \in [pc : Places, open : Nat]
        BY <4>1 DEF Unread, Places
      <4>3. creator' = [creator EXCEPT ![o] = c]
        BY <4>1
      <4> HIDE DEF c
      <4> QED
        BY <4>2, <4>3
    <3> QED
      BY <1>7, <3>2, <3>3
  <2>3. creator' \in Creators /\ \A p \in Order : creator'[p].pc # "done" => creator[p].pc # "done"
    BY <1>3, <2>1, <2>2
  <2> QED
    BY <1>1, <1>2, <2>1, <2>3, SamePositions, PendingCancelled, StepKeeps
<1>8. CASE InsertOrder(o)
  <2>1. PICK st \in {"rejected", "pending"} : order' = [order EXCEPT ![o].st = st]
    BY <1>8 DEF InsertOrder
  <2>2. /\ creator[o].pc # "done" /\ pos' = pos
        /\ creator' = [creator EXCEPT ![o] = [creator[o] EXCEPT !.pc = "done"]]
    BY <1>8 DEF InsertOrder, At, Goes, Moves
  <2>3. /\ [creator[o] EXCEPT !.pc = "done"] \in [pc : Places, open : Nat]
        /\ [creator[o] EXCEPT !.pc = "done"].pc = "done"
    BY <1>4 DEF Places
  <2>4. /\ creator' \in Creators /\ creator'[o].pc = "done"
        /\ \A p \in Order \ {o} : creator'[p] = creator[p]
    <3> DEFINE c == [creator[o] EXCEPT !.pc = "done"]
    <3>1. c \in [pc : Places, open : Nat] /\ c.pc = "done" /\ creator' = [creator EXCEPT ![o] = c]
      BY <2>2, <2>3
    <3> HIDE DEF c
    <3> QED
      BY <1>3, <3>1
  <2>5. order \in OrderRows /\ order[o].st = "none"
    BY <2>2 DEF PaperInv, PaperTyped
  <2>6. /\ order' \in OrderRows /\ order'[o].st = st /\ \A p \in Order \ {o} : order'[p] = order[p]
    BY <2>1, <2>5 DEF OrderRows, Status
  <2>7. \A p \in Order : creator[p].pc # "done" => order[p].st = "none"
    BY DEF PaperInv
  <2> QED
    BY <1>1, <1>2, <2>1, <2>2, <2>4, <2>5, <2>6, <2>7, SamePositions, StepKeeps
<1> QED
  BY <1>5, <1>6, <1>7, <1>8 DEF CreatorStep

(* Statements that fill nothing.                                            *)
LEMMA Swept ==
  ASSUME PaperInv, NEW o \in Order, NEW st, st = IF order[o].st = "pending" THEN "canceled" ELSE order[o].st,
         order' = [order EXCEPT ![o].st = st]
  PROVE  /\ order' \in OrderRows
         /\ \A p \in Order : order'[p].st = "filled" <=> order[p].st = "filled"
         /\ \A p \in Order : creator[p].pc # "done" => order'[p].st = "none"
<1>1. order \in OrderRows /\ \A p \in Order : creator[p].pc # "done" => order[p].st = "none"
  BY DEF PaperInv, PaperTyped
<1>2. order[o].st \in Status /\ st \in Status
  BY <1>1 DEF OrderRows, Status
<1>3. /\ order' \in OrderRows /\ order'[o].st = st /\ \A p \in Order \ {o} : order'[p] = order[p]
  BY <1>1, <1>2 DEF OrderRows
<1> QED
  BY <1>1, <1>3

LEMMA SweepKeeps ==
  ASSUME PaperInv, NEW o \in Order, LateSweep(o) \/ SweepOne(o)
  PROVE  PaperInv'
<1>1. /\ UNCHANGED <<account, pos, creator>>
      /\ ticker' = ticker \/ ticker' = [ticker EXCEPT !.stale = @ \ {o}]
  BY DEF LateSweep, SweepOne
<1>2. /\ AccountRow(account)' /\ creator' \in Creators
      /\ TickState(ticker)' /\ ticker'.pc = ticker.pc /\ ticker'.serves = ticker.serves
  BY <1>1 DEF PaperInv, PaperTyped, AccountRow, TickState
<1>3. \E st : /\ st = IF order[o].st = "pending" THEN "canceled" ELSE order[o].st
              /\ order' = [order EXCEPT ![o].st = st]
  BY DEF LateSweep, SweepOne, Stale
<1>4. /\ order' \in OrderRows
      /\ \A p \in Order : order'[p].st = "filled" <=> order[p].st = "filled"
      /\ \A p \in Order : creator[p].pc # "done" => order'[p].st = "none"
  BY <1>3, Swept
<1> QED
  BY <1>1, <1>2, <1>4, SamePositions, StepKeeps DEF PaperInv

(* The frame of a tick; an account that is served is one that is enabled.   *)
LEMMA TickFrameKeeps ==
  ASSUME PaperInv, TickList \/ SweepList \/ TickEnd \/ \E bid \in Bids : TickBegin(bid)
  PROVE  PaperInv'
<1>1. UNCHANGED <<account, pos, creator>> /\ (CancelPending \/ UNCHANGED order)
  BY DEF TickList, SweepList, TickEnd, TickBegin, ExpireDeployments
<1>2. AccountRow(account)' /\ creator' \in Creators /\ account.enabled \in BOOLEAN
  BY <1>1 DEF PaperInv, PaperTyped, AccountRow
<1>3. TickState(ticker)' /\ (ticker'.pc = "listed" /\ ticker'.serves => account.enabled)
  <2>1. CASE TickList
    <3>1. PICK serves \in BOOLEAN : /\ ticker' = [ticker EXCEPT !.pc = "listed", !.serves = serves]
                                    /\ serves => account.enabled
      BY <1>2, <2>1 DEF TickList
    <3> QED
      BY <3>1 DEF PaperInv, PaperTyped, TickState
  <2>2. CASE SweepList
    BY <2>2 DEF SweepList, PaperInv, PaperTyped, TickState
  <2>3. CASE TickEnd
    BY <2>3 DEF TickEnd, Idle, TickState
  <2>4. CASE \E bid \in Bids : TickBegin(bid)
    BY <2>4 DEF TickBegin, Idle, TickState
  <2> QED
    BY <2>1, <2>2, <2>3, <2>4
<1> QED
  BY <1>1, <1>2, <1>3, SamePositions, PendingCancelled, StepKeeps

(* What the user does short of settling, and the passing of time.           *)
LEMMA UserKeeps ==
  ASSUME PaperInv,
         \/ \E active \in BOOLEAN : SetDeploymentStatus(active) \/ SetTrading(active)
         \/ EndDeployment \/ Deploy \/ ArchiveLook \/ ArchiveWrite \/ Restore \/ TermEnds
         \/ \E k \in Settlement : SettleRead(k)
  PROVE  PaperInv'
<1>1. UNCHANGED <<pos, creator, ticker>> /\ (CancelPending \/ UNCHANGED order)
  BY DEF SetDeploymentStatus, SetTrading, EndDeployment, Deploy, ArchiveLook, ArchiveWrite, Restore,
         TermEnds, SettleRead, AsBefore
<1>2. \/ account' = account
      \/ \E on : account' = [account EXCEPT !.trading = on]
      \/ account' = [account EXCEPT !.st = "archived", !.trading = FALSE]
      \/ account' = [account EXCEPT !.st = "active", !.trading = TRUE]
  BY DEF SetDeploymentStatus, SetTrading, EndDeployment, Deploy, ArchiveLook, ArchiveWrite, Restore,
         TermEnds, SettleRead, AsBefore
<1>3. AccountRow(account)' /\ account'.enabled = account.enabled
  BY <1>2 DEF PaperInv, PaperTyped, AccountRow
<1>4. TickState(ticker)' /\ creator' \in Creators /\ (ticker.pc = "listed" /\ ticker.serves => account.enabled)
  BY <1>1 DEF PaperInv, PaperTyped, TickState
<1> QED
  BY <1>1, <1>3, <1>4, SamePositions, PendingCancelled, StepKeeps

LEMMA AdvanceKeeps == ASSUME PaperInv, Advance PROVE PaperInv'
<1>1. UNCHANGED <<account, pos, creator, ticker>>
  BY DEF Advance
<1>2. /\ AccountRow(account)' /\ TickState(ticker)' /\ creator' \in Creators /\ order \in OrderRows
      /\ (ticker.pc = "listed" /\ ticker.serves => account.enabled)
      /\ \A o \in Order : creator[o].pc # "done" => order[o].st = "none"
  BY <1>1 DEF PaperInv, PaperTyped, AccountRow, TickState
<1>3. ASSUME NEW o \in Order
      PROVE  order'[o] \in [st : Status, age : 0..(Timeout + 1)] /\ order'[o].st = order[o].st
  <2>1. order[o] \in [st : Status, age : 0..(Timeout + 1)]
    BY <1>2 DEF OrderRows
  <2>2. CASE Waiting(o) /\ order[o].age <= Timeout
    <3>1. order'[o] = [order[o] EXCEPT !.age = @ + 1]
      BY <2>2 DEF Advance
    <3>2. order[o].age + 1 \in 0..(Timeout + 1)
      BY <2>1, <2>2, PaperAssumption
    <3> QED
      BY <2>1, <3>1, <3>2
  <2>3. CASE ~ (Waiting(o) /\ order[o].age <= Timeout)
    BY <2>1, <2>3 DEF Advance
  <2> QED
    BY <2>2, <2>3
<1>4. order' \in OrderRows
  <2>1. order' = [o \in Order |-> order'[o]]
    BY DEF Advance
  <2> QED
    BY <1>3, <2>1 DEF OrderRows
<1> QED
  BY <1>1, <1>2, <1>3, <1>4, SamePositions, StepKeeps

(* Matching: the fills keep the limits, and what is managed only closes.    *)
LEMMA MatchKeeps == ASSUME PaperInv, TickMatch PROVE PaperInv'
<1>1. /\ UNCHANGED creator /\ ticker' = [ticker EXCEPT !.pc = "matched"]
      /\ order \in OrderRows /\ Rows(pos) /\ Agree(order, pos) /\ Held(pos)
  BY DEF TickMatch, PaperInv, PaperTyped
<1>2. TickState(ticker)' /\ ticker'.pc = "matched" /\ creator' \in Creators
  BY <1>1 DEF PaperInv, PaperTyped, TickState
<1>3. CASE ~ ticker.serves
  <2>1. UNCHANGED <<account, order, pos>>
    BY <1>3 DEF TickMatch
  <2>2. AccountRow(account)' /\ \A o \in Order : creator'[o].pc # "done" => order'[o].st = "none"
    BY <1>1, <2>1 DEF PaperInv, PaperTyped, AccountRow
  <2> QED
    BY <1>1, <1>2, <2>1, <2>2, SamePositions, StepKeeps
<1>4. CASE ticker.serves
  <2>1. account.enabled
    BY <1>4 DEF PaperInv, TickMatch
  <2> DEFINE rows == Filled.rows
  <2> DEFINE after == [o \in Order |-> Kept(Managed(rows, ticker.bid)[o].pos)]
  <2>2. order' = Filled.orders /\ Book(rows, Filled.balance, ticker.bid)
    BY <1>4 DEF TickMatch
  <2>3. /\ order' \in OrderRows /\ Rows(rows) /\ Agree(order', rows) /\ Held(rows)
        /\ \A o \in Order : order[o].st # "pending" => order'[o] = order[o]
    BY <1>1, <2>2, FilledKeeps DEF Filling
  <2>4. pos' = after /\ \E cash, free : account' = [account EXCEPT !.balance = cash, !.free = free]
    BY <2>2 DEF Book
  <2> HIDE DEF rows
  <2>5. Follows(rows, after)
    BY <2>3, ManagedFollow
  <2> HIDE DEF after
  <2>6. Held(pos') /\ Agree(order', pos')
    BY <2>3, <2>4, <2>5, FollowingKeeps
  <2>7. Rows(pos')
    BY <2>4, <2>5 DEF Follows
  <2>8. AccountRow(account)' /\ account'.enabled
    BY <2>1, <2>4 DEF PaperInv, PaperTyped, AccountRow
  <2>9. \A o \in Order : creator'[o].pc # "done" => order'[o].st = "none"
    BY <1>1, <2>3 DEF PaperInv
  <2>10. PaperTyped'
    BY <1>2, <2>3, <2>7, <2>8 DEF PaperTyped, Rows, Row, OrderRows, Creators
  <2>11. Held(pos)' /\ Agree(order, pos)'
    BY <2>6 DEF Held, OpenIn, SameSide, Agree
  <2> QED
    BY <1>2, <2>8, <2>9, <2>10, <2>11 DEF PaperInv
<1> QED
  BY <1>3, <1>4

LEMMA AskedFollow ==
  ASSUME PaperInv, NEW k
  PROVE  Rows(Asked(k)) /\ Follows(pos, [o \in Order |-> Kept(Managed(Asked(k), quote)[o].pos)])
<1> DEFINE rows == Asked(k)
<1> DEFINE after == [o \in Order |-> Kept(Managed(rows, quote)[o].pos)]
<1>1. \A o \in Order : Row(pos[o])
  BY DEF PaperInv, PaperTyped, Rows
<1>2. rows = [o \in Order |-> rows[o]]
  BY DEF Asked
<1>3. \A o \in Order : Row(rows[o]) /\ rows[o].st = pos[o].st
  BY <1>1 DEF Asked, Row
<1> HIDE DEF rows
<1>4. Rows(rows)
  BY <1>2, <1>3 DEF Rows
<1>5. Follows(rows, after)
  BY <1>4, ManagedFollow
<1> HIDE DEF after
<1>6. Follows(pos, after)
  BY <1>3, <1>5 DEF Follows
<1> QED
  BY <1>4, <1>6 DEF rows, after

(* A settlement holds the lock: no tick is under way that listed the        *)
(* account before it was closed.                                            *)
LEMMA SettleKeeps == ASSUME PaperInv, FlattenCommit \/ CloseCommit PROVE PaperInv'
<1>1. UNCHANGED <<creator, ticker>> /\ ticker.pc = "idle"
  BY DEF FlattenCommit, CloseCommit, LockFree
<1>2. TickState(ticker)' /\ creator' \in Creators /\ ticker'.pc = "idle"
  BY <1>1 DEF PaperInv, PaperTyped, TickState
<1>3. CASE FlattenCommit
  <2> DEFINE after == [o \in Order |-> Kept(Managed(Asked("scheduled_flatten"), quote)[o].pos)]
  <2>1. UNCHANGED order /\ Book(Asked("scheduled_flatten"), settler["scheduled_flatten"].balance, quote)
    BY <1>3 DEF FlattenCommit
  <2>2. pos' = after /\ \E cash, free : account' = [account EXCEPT !.balance = cash, !.free = free]
    BY <2>1 DEF Book
  <2>3. Follows(pos, pos')
    BY <2>2, AskedFollow
  <2>4. AccountRow(account)' /\ account'.enabled = account.enabled
    BY <2>2 DEF PaperInv, PaperTyped, AccountRow
  <2>5. \A o \in Order : creator'[o].pc # "done" => creator[o].pc # "done"
    BY <1>1
  <2> QED
    BY <1>1, <1>2, <2>1, <2>3, <2>4, <2>5, PendingCancelled, StepKeeps
<1>4. CASE CloseCommit
  <2> DEFINE outcome == Managed(Asked("account_closed"), quote)
  <2> DEFINE after == [o \in Order |-> Kept(outcome[o].pos)]
  <2>1. CASE ~ EverythingSettled(after)
    <3>1. UNCHANGED <<account, order, pos>>
      BY <1>4, <2>1 DEF CloseCommit
    <3>2. AccountRow(account)'
      BY <3>1 DEF PaperInv, PaperTyped, AccountRow
    <3> QED
      BY <1>1, <1>2, <3>1, <3>2, SamePositions, PendingCancelled, StepKeeps
  <2>2. CASE EverythingSettled(after)
    <3>1. /\ pos' = after /\ CancelPending
          /\ \E cash : account' = [st |-> "closed", enabled |-> FALSE, trading |-> FALSE,
                                   balance |-> cash, free |-> cash]
      BY <1>4, <2>2 DEF CloseCommit
    <3>2. Follows(pos, pos')
      BY <3>1, AskedFollow
    <3>3. OpenIn(pos') = {}
      BY <2>2, <3>1 DEF EverythingSettled
    <3>4. AccountRow(account)'
      BY <3>1 DEF AccountRow
    <3> QED
      BY <1>1, <1>2, <3>1, <3>2, <3>3, <3>4, PendingCancelled, StepKeeps
  <2> QED
    BY <2>1, <2>2
<1> QED
  BY <1>3, <1>4

LEMMA PaperNext == ASSUME PaperInv, [Next]_vars PROVE PaperInv'
<1>1. CASE \E o \in Order : CreatorStep(o)
  BY <1>1, CreatorKeeps
<1>2. CASE \E o \in Order : LateSweep(o) \/ SweepOne(o)
  BY <1>2, SweepKeeps
<1>3. CASE Tick /\ ~ \E o \in Order : SweepOne(o)
  BY <1>3, TickFrameKeeps, MatchKeeps DEF Tick, TickStep
<1>4. CASE UserStep
  BY <1>4, UserKeeps, SettleKeeps DEF UserStep
<1>5. CASE Advance \/ TermEnds
  BY <1>5, AdvanceKeeps, UserKeeps
<1>6. CASE UNCHANGED vars
  <2>1. UNCHANGED <<account, order, pos, creator, ticker>>
    BY <1>6 DEF vars
  <2>2. /\ AccountRow(account)' /\ TickState(ticker)' /\ creator' \in Creators
        /\ (ticker.pc = "listed" /\ ticker.serves => account.enabled)
    BY <2>1 DEF PaperInv, PaperTyped, AccountRow, TickState
  <2> QED
    BY <2>1, <2>2, SamePositions, PendingCancelled, StepKeeps
<1> QED
  BY <1>1, <1>2, <1>3, <1>4, <1>5, <1>6 DEF Next, Tick, TickStep

THEOREM PaperInvariant == Spec => []PaperInv
<1>1. PaperInv /\ [Next]_vars => PaperInv'
  BY PaperNext
<1> QED
  BY PaperInit, <1>1, PTL DEF Spec

(* The limits of the account and of the strategy hold whatever a creator    *)
(* counted before other orders were inserted or filled: every fill looks    *)
(* again (PaperMatchingEngine.match), and only fills open positions.        *)
THEOREM LimitsStay == Spec => []LimitsHold
<1>1. PaperInv => LimitsHold
  BY DEF PaperInv, Held, LimitsHold, Opens
<1> QED
  BY PaperInvariant, <1>1, PTL

(* There is a position exactly for the orders that were filled, and a       *)
(* closed account holds none that is open: a close waits for the lock, so   *)
(* no tick that listed the account before fills behind it.                  *)
THEOREM PositionsStayInAgreement == Spec => []PositionsAgree
<1>1. PaperInv => PositionsAgree
  BY DEF PaperInv, Agree, PositionsAgree
<1> QED
  BY PaperInvariant, <1>1, PTL

----------------------------------------------------------------------------
(* The ledger: every statement that pays writes the trade rows with it.     *)

Settlers == [Settlement -> [on : BOOLEAN, balance : Int]]
LedgerInv ==
  /\ PaperInv /\ RowsPriced(pos)
  /\ account.balance \in Int /\ booked \in Int /\ overwritten \in BOOLEAN
  /\ ticker.bid \in Int /\ quote \in Int /\ settler \in Settlers
  /\ LedgerBalances

LEMMA LedgerInit == Init => LedgerInv
<1> SUFFICES ASSUME Init PROVE LedgerInv
  OBVIOUS
<1> DEFINE none == [o \in Order |-> FeeOf(pos[o])]
<1>1. RowsPriced(pos) /\ \A o \in Order : FeeOf(pos[o]) = 0
  BY DEF Init, NoPos, RowsPriced, Priced, FeeOf
<1>2. Fees(pos) = SumFunction(none) /\ none \in [Order -> Int] /\ \A o \in Order : none[o] = 0
  BY <1>1, FeesAreNumbers
<1> HIDE DEF none
<1>3. Fees(pos) = 0
  BY <1>2, OrdersAreFinite, SumOfOne
<1>4. account.balance = InitialBalance /\ booked = 0 /\ InitialBalance \in Int
  BY PaperAssumption DEF Init
<1>5. LedgerBalances
  BY <1>3, <1>4 DEF LedgerBalances
<1>6. ticker.bid \in Int /\ quote \in Int /\ settler \in Settlers /\ overwritten \in BOOLEAN
  <2>1. ticker.bid \in Int /\ quote \in Int /\ overwritten \in BOOLEAN
    <3>1. ticker = Idle /\ quote = 0 /\ overwritten = FALSE
      BY DEF Init
    <3>2. Idle.bid = 0
      BY DEF Idle
    <3>3. ticker.bid = 0
      BY <3>1, <3>2
    <3>4. ticker.bid \in Int /\ quote \in Int
      BY <3>1, <3>3
    <3>5. overwritten \in BOOLEAN
      BY <3>1
    <3> QED
      BY <3>4, <3>5
  <2>2. NotSettling \in [on : BOOLEAN, balance : Int]
    BY DEF NotSettling
  <2>3. settler = [k \in Settlement |-> NotSettling]
    BY DEF Init
  <2> QED
    BY <2>1, <2>2, <2>3 DEF Settlers
<1> QED
  BY <1>1, <1>4, <1>5, <1>6, PaperInit DEF LedgerInv

(* Nothing is paid: what is owed for the open positions stays the same.     *)
LEMMA NothingIsPaid ==
  ASSUME LedgerInv, PaperInv', RowsPriced(pos'), \A o \in Order : FeeOf(pos'[o]) = FeeOf(pos[o]),
         UNCHANGED <<booked, overwritten>>, account'.balance = account.balance,
         ticker'.bid \in Int, quote' \in Int, settler' \in Settlers
  PROVE  LedgerInv'
<1>1. Fees(pos') = Fees(pos)
  BY SameFees
<1>2. overwritten' \/ account'.balance = InitialBalance + booked' - Fees(pos')
  BY <1>1 DEF LedgerInv, LedgerBalances
<1>3. LedgerBalances'
  BY <1>2 DEF LedgerBalances, Fees
<1>4. RowsPriced(pos)' /\ (settler \in Settlers)'
  BY DEF RowsPriced, Priced, Settlers
<1> QED
  BY <1>3, <1>4 DEF LedgerInv

LEMMA BookBalances ==
  ASSUME LedgerInv, PaperInv', NEW rows, RowsPriced(rows), NEW cash \in Int, NEW bid \in Int,
         pos' = [o \in Order |-> Kept(Managed(rows, bid)[o].pos)],
         account'.balance = cash + Gains(Managed(rows, bid)),
         booked' = booked + Nets(Managed(rows, bid)),
         overwritten' \in BOOLEAN, overwritten => overwritten',
         overwritten' \/ cash + Fees(rows) = account.balance + Fees(pos),
         ticker'.bid \in Int, quote' \in Int, settler' \in Settlers
  PROVE  LedgerInv'
<1> DEFINE outcome == Managed(rows, bid)
<1> DEFINE after == [o \in Order |-> Kept(outcome[o].pos)]
<1>1. /\ RowsPriced(after) /\ Fees(after) \in Int
      /\ Gains(outcome) \in Int /\ Nets(outcome) \in Int
      /\ Gains(outcome) = Nets(outcome) + Fees(rows) - Fees(after)
  BY BookPays
<1>2. pos' = after /\ account'.balance = cash + Gains(outcome) /\ booked' = booked + Nets(outcome)
  OBVIOUS
<1> HIDE DEF after, outcome
<1>3. /\ Fees(rows) \in Int /\ Fees(pos) \in Int /\ account.balance \in Int /\ booked \in Int
      /\ InitialBalance \in Int
  BY FeesAreNumbers, PaperAssumption DEF LedgerInv
<1>4. overwritten' \/ account'.balance = InitialBalance + booked' - Fees(pos')
  <2>1. CASE ~ overwritten'
    <3>1. account.balance = InitialBalance + booked - Fees(pos)
      BY <2>1 DEF LedgerInv, LedgerBalances
    <3> QED
      BY <1>1, <1>2, <1>3, <2>1, <3>1
  <2> QED
    BY <2>1
<1>5. LedgerBalances'
  BY <1>4 DEF LedgerBalances, Fees
<1>6. RowsPriced(pos)' /\ (settler \in Settlers)'
  BY <1>1, <1>2 DEF RowsPriced, Priced, Settlers
<1>7. account'.balance \in Int /\ booked' \in Int
  BY <1>1, <1>2, <1>3
<1> QED
  BY <1>5, <1>6, <1>7 DEF LedgerInv

(* Only why a position is to be closed is written.                          *)
LEMMA AskingIsFree ==
  ASSUME NEW r, Priced(r), NEW why
  PROVE  r.st = "open" => /\ Priced([r EXCEPT !.why = why])
                          /\ FeeOf([r EXCEPT !.why = why]) = FeeOf(r)
<1> DEFINE new == [r EXCEPT !.why = why]
<1> SUFFICES ASSUME r.st = "open" PROVE Priced(new) /\ FeeOf(new) = FeeOf(r)
  OBVIOUS
<1>1. /\ DOMAIN new = DOMAIN r /\ new.st = r.st /\ new.vol = r.vol /\ new.rem = r.rem
      /\ new.entry = r.entry /\ new.fee = r.fee /\ new.levels = r.levels
  BY DEF Priced
<1> HIDE DEF new
<1> QED
  BY <1>1 DEF Priced, FeeOf

LEMMA CreatorOwesNothing ==
  ASSUME LedgerInv, PaperInv', NEW o \in Order, CreatorStep(o)
  PROVE  LedgerInv'
<1>1. UNCHANGED <<account, ticker, settler, quote, booked, overwritten>>
  BY DEF CreatorStep, ReadEligible, MarkReversed, CountOpen, CountPending, InsertOrder
<1>2. /\ account'.balance = account.balance
      /\ ticker'.bid \in Int /\ quote' \in Int /\ settler' \in Settlers /\ RowsPriced(pos)
  BY <1>1 DEF LedgerInv
<1>3. CASE MarkReversed(o)
  <2>1. \A p \in Order : pos'[p] = IF Contradicts(o, p) THEN [pos[p] EXCEPT !.why = "reverse_signal"] ELSE pos[p]
    BY <1>3 DEF MarkReversed
  <2>2. \A p \in Order : Priced(pos'[p]) /\ FeeOf(pos'[p]) = FeeOf(pos[p])
    <3> SUFFICES ASSUME NEW p \in Order
                 PROVE  Priced(pos'[p]) /\ FeeOf(pos'[p]) = FeeOf(pos[p])
      OBVIOUS
    <3>1. Priced(pos[p])
      BY <1>2 DEF RowsPriced
    <3>2. pos[p].st = "open" =>
             /\ Priced([pos[p] EXCEPT !.why = "reverse_signal"])
             /\ FeeOf([pos[p] EXCEPT !.why = "reverse_signal"]) = FeeOf(pos[p])
      BY <3>1, AskingIsFree
    <3>3. CASE Contradicts(o, p)
      BY <2>1, <3>2, <3>3 DEF Contradicts
    <3>4. CASE ~ Contradicts(o, p)
      BY <2>1, <3>1, <3>4
    <3> QED
      BY <3>3, <3>4
  <2> QED
    BY <1>1, <1>2, <2>2, NothingIsPaid DEF RowsPriced
<1>4. CASE pos' = pos
  BY <1>1, <1>2, <1>4, NothingIsPaid
<1> QED
  BY <1>3, <1>4 DEF CreatorStep, ReadEligible, CountOpen, CountPending, InsertOrder

LEMMA FrameOwesNothing ==
  ASSUME LedgerInv, PaperInv',
         \/ \E o \in Order : LateSweep(o) \/ SweepOne(o)
         \/ TickList \/ SweepList \/ TickEnd \/ (\E bid \in Bids : TickBegin(bid))
         \/ (\E active \in BOOLEAN : SetDeploymentStatus(active) \/ SetTrading(active))
         \/ EndDeployment \/ Deploy \/ ArchiveLook \/ ArchiveWrite \/ Restore \/ Advance \/ TermEnds
         \/ UNCHANGED vars
  PROVE  LedgerInv'
<1>1. UNCHANGED <<pos, settler, booked, overwritten>>
  BY DEF LateSweep, SweepOne, TickList, SweepList, TickEnd, TickBegin, SetDeploymentStatus, SetTrading,
         EndDeployment, Deploy, ArchiveLook, ArchiveWrite, Restore, Advance, TermEnds, AsBefore, vars
<1>2. \/ account' = account
      \/ \E on : account' = [account EXCEPT !.trading = on]
      \/ account' = [account EXCEPT !.st = "archived", !.trading = FALSE]
      \/ account' = [account EXCEPT !.st = "active", !.trading = TRUE]
  BY DEF LateSweep, SweepOne, TickList, SweepList, TickEnd, TickBegin, SetDeploymentStatus, SetTrading,
         EndDeployment, Deploy, ArchiveLook, ArchiveWrite, Restore, Advance, TermEnds, AsBefore, vars
<1>3. account'.balance = account.balance
  BY <1>2 DEF LedgerInv, PaperInv, PaperTyped, AccountRow
<1>4. \/ ticker' = ticker \/ ticker' = Idle
      \/ \E o \in Order : ticker' = [ticker EXCEPT !.stale = @ \ {o}]
      \/ \E serves : ticker' = [ticker EXCEPT !.pc = "listed", !.serves = serves]
      \/ \E stale : ticker' = [ticker EXCEPT !.pc = "sweeping", !.stale = stale]
      \/ \E bid \in Bids : ticker' = [Idle EXCEPT !.pc = "expired", !.bid = bid]
  <2>1. CASE \E o \in Order : LateSweep(o) \/ SweepOne(o)
    BY <2>1 DEF LateSweep, SweepOne
  <2>2. CASE TickList \/ SweepList \/ TickEnd
    BY <2>2 DEF TickList, SweepList, TickEnd
  <2>3. CASE \E bid \in Bids : TickBegin(bid)
    BY <2>3 DEF TickBegin
  <2>4. CASE UNCHANGED ticker
    BY <2>4
  <2> QED
    BY <2>1, <2>2, <2>3, <2>4
    DEF SetDeploymentStatus, SetTrading, EndDeployment, Deploy, ArchiveLook, ArchiveWrite, Restore,
        Advance, TermEnds, AsBefore, vars
<1>5. ticker'.bid \in Int
  <2>1. \A bid \in Bids : bid \in Int
    BY PaperAssumption
  <2>2. TickState(ticker) /\ ticker.bid \in Int
    BY DEF LedgerInv, PaperInv, PaperTyped
  <2> QED
    <3>1. CASE ticker' = ticker \/ ticker' = Idle
      BY <2>2, <3>1 DEF Idle
    <3>2. CASE \E o \in Order : ticker' = [ticker EXCEPT !.stale = @ \ {o}]
      BY <2>2, <3>2 DEF TickState
    <3>3. CASE \E serves : ticker' = [ticker EXCEPT !.pc = "listed", !.serves = serves]
      BY <2>2, <3>3 DEF TickState
    <3>4. CASE \E stale : ticker' = [ticker EXCEPT !.pc = "sweeping", !.stale = stale]
      BY <2>2, <3>4 DEF TickState
    <3>5. CASE \E bid \in Bids : ticker' = [Idle EXCEPT !.pc = "expired", !.bid = bid]
      BY <2>1, <3>5 DEF Idle
    <3> QED
      BY <1>4, <3>1, <3>2, <3>3, <3>4, <3>5
<1>6. quote' \in Int
  <2>1. quote' = quote \/ quote' = ticker.bid
    BY DEF LateSweep, SweepOne, TickList, SweepList, TickEnd, TickBegin, SetDeploymentStatus, SetTrading,
           EndDeployment, Deploy, ArchiveLook, ArchiveWrite, Restore, Advance, TermEnds, AsBefore, vars
  <2> QED
    BY <2>1 DEF LedgerInv
<1>7. settler' \in Settlers /\ RowsPriced(pos') /\ \A o \in Order : FeeOf(pos'[o]) = FeeOf(pos[o])
  BY <1>1 DEF LedgerInv
<1> QED
  BY <1>1, <1>3, <1>5, <1>6, <1>7, NothingIsPaid

LEMMA MatchBalances ==
  ASSUME LedgerInv, PaperInv', TickMatch
  PROVE  LedgerInv'
<1>1. UNCHANGED <<settler, quote, overwritten>> /\ ticker' = [ticker EXCEPT !.pc = "matched"]
  BY DEF TickMatch
<1>2. /\ ticker'.bid \in Int /\ quote' \in Int /\ settler' \in Settlers /\ overwritten' \in BOOLEAN
      /\ RowsPriced(pos) /\ account.balance \in Int /\ ticker.bid \in Int
  BY <1>1 DEF LedgerInv, PaperInv, PaperTyped, TickState
<1>3. CASE ~ ticker.serves
  <2>1. UNCHANGED <<account, pos, booked>>
    BY <1>3 DEF TickMatch
  <2> QED
    BY <1>1, <1>2, <2>1, NothingIsPaid
<1>4. CASE ticker.serves
  <2> DEFINE rows == Filled.rows
  <2> DEFINE cash == Filled.balance
  <2>1. Book(rows, cash, ticker.bid)
    BY <1>4 DEF TickMatch
  <2>2. Filling(Filled, Cardinality(Due)) /\ Counted
    BY <1>2, FilledKeeps DEF LedgerInv, PaperInv, PaperTyped, Counted
  <2>3. RowsPriced(rows) /\ cash \in Int /\ cash + Fees(rows) = account.balance + Fees(pos)
    BY <2>2 DEF Filling, Funded
  <2> HIDE DEF rows, cash
  <2>4. /\ pos' = [o \in Order |-> Kept(Managed(rows, ticker.bid)[o].pos)]
        /\ \E free : account' = [account EXCEPT !.balance = cash + Gains(Managed(rows, ticker.bid)), !.free = free]
        /\ booked' = booked + Nets(Managed(rows, ticker.bid))
    BY <2>1 DEF Book
  <2>5. account'.balance = cash + Gains(Managed(rows, ticker.bid))
    BY <2>4 DEF LedgerInv, PaperInv, PaperTyped, AccountRow
  <2> QED
    BY <1>1, <1>2, <2>3, <2>4, <2>5, BookBalances
<1> QED
  BY <1>3, <1>4

(* A settlement starts from the balance it has read; where another change   *)
(* came between, that change is written over.                               *)
LEMMA SettleBalances ==
  ASSUME LedgerInv, PaperInv', FlattenCommit \/ CloseCommit \/ \E k \in Settlement : SettleRead(k)
  PROVE  LedgerInv'
<1>1. /\ RowsPriced(pos) /\ account.balance \in Int /\ settler \in Settlers /\ quote \in Int /\ ticker.bid \in Int
      /\ overwritten \in BOOLEAN
  BY DEF LedgerInv
<1>2. UNCHANGED <<ticker, quote>>
  BY DEF FlattenCommit, CloseCommit, SettleRead, AsBefore
<1>3. settler' \in Settlers
  <2>1. \E k \in Settlement, c \in [on : BOOLEAN, balance : Int] : settler' = [settler EXCEPT ![k] = c]
    <3>1. CASE FlattenCommit \/ CloseCommit
      <4>1. NotSettling \in [on : BOOLEAN, balance : Int]
        BY DEF NotSettling
      <4>2. \E k \in Settlement : settler' = [settler EXCEPT ![k] = NotSettling]
        BY <3>1 DEF FlattenCommit, CloseCommit, SettleDone, Settlement
      <4> QED
        BY <4>1, <4>2
    <3>2. CASE \E k \in Settlement : SettleRead(k)
      <4>1. [on |-> TRUE, balance |-> account.balance] \in [on : BOOLEAN, balance : Int]
        BY <1>1
      <4>2. \E k \in Settlement : settler' = [settler EXCEPT ![k] = [on |-> TRUE, balance |-> account.balance]]
        BY <3>2 DEF SettleRead
      <4> QED
        BY <4>1, <4>2
    <3> QED
      BY <3>1, <3>2
  <2> QED
    BY <1>1, <2>1 DEF Settlers
<1>4. \A k \in Settlement : settler[k].balance \in Int
  BY <1>1 DEF Settlers
<1>5. \A k : /\ RowsPriced(Asked(k)) /\ Fees(Asked(k)) = Fees(pos)
  <2> SUFFICES ASSUME NEW k PROVE RowsPriced(Asked(k)) /\ Fees(Asked(k)) = Fees(pos)
    OBVIOUS
  <2>1. \A o \in Order : Asked(k)[o] = IF pos[o].st = "open" THEN [pos[o] EXCEPT !.why = k] ELSE pos[o]
    BY DEF Asked
  <2>2. \A o \in Order : Priced(Asked(k)[o]) /\ FeeOf(Asked(k)[o]) = FeeOf(pos[o])
    <3> SUFFICES ASSUME NEW o \in Order
                 PROVE  Priced(Asked(k)[o]) /\ FeeOf(Asked(k)[o]) = FeeOf(pos[o])
      OBVIOUS
    <3>1. Priced(pos[o])
      BY <1>1 DEF RowsPriced
    <3>2. pos[o].st = "open" => /\ Priced([pos[o] EXCEPT !.why = k])
                                /\ FeeOf([pos[o] EXCEPT !.why = k]) = FeeOf(pos[o])
      BY <3>1, AskingIsFree
    <3>3. CASE pos[o].st = "open"
      BY <2>1, <3>2, <3>3
    <3>4. CASE pos[o].st # "open"
      BY <2>1, <3>1, <3>4
    <3> QED
      BY <3>3, <3>4
  <2> QED
    BY <2>2, SameFees DEF RowsPriced
<1>6. ASSUME NEW k \in Settlement, WritesBack(k),
             pos' = [o \in Order |-> Kept(Managed(Asked(k), quote)[o].pos)],
             account'.balance = settler[k].balance + Gains(Managed(Asked(k), quote)),
             booked' = booked + Nets(Managed(Asked(k), quote))
      PROVE  LedgerInv'
  <2> DEFINE cash == settler[k].balance
  <2> DEFINE rows == Asked(k)
  <2>1. cash \in Int /\ RowsPriced(rows) /\ Fees(rows) = Fees(pos)
    BY <1>4, <1>5
  <2>2. overwritten' \in BOOLEAN /\ (overwritten => overwritten') /\ (overwritten' \/ cash = account.balance)
    BY <1>1, <1>6 DEF WritesBack
  <2>3. /\ pos' = [o \in Order |-> Kept(Managed(rows, quote)[o].pos)]
        /\ account'.balance = cash + Gains(Managed(rows, quote))
        /\ booked' = booked + Nets(Managed(rows, quote))
    BY <1>6
  <2> HIDE DEF cash, rows
  <2>4. overwritten' \/ cash + Fees(rows) = account.balance + Fees(pos)
    BY <2>1, <2>2
  <2> QED
    BY <1>1, <1>2, <1>3, <2>1, <2>2, <2>3, <2>4, BookBalances
<1>7. CASE FlattenCommit
  <2> DEFINE k == "scheduled_flatten"
  <2>1. Book(Asked(k), settler[k].balance, quote) /\ WritesBack(k) /\ k \in Settlement
    BY <1>7 DEF FlattenCommit, Settlement
  <2> HIDE DEF k
  <2>2. /\ pos' = [o \in Order |-> Kept(Managed(Asked(k), quote)[o].pos)]
        /\ \E free : account' = [account EXCEPT
                       !.balance = settler[k].balance + Gains(Managed(Asked(k), quote)), !.free = free]
        /\ booked' = booked + Nets(Managed(Asked(k), quote))
    BY <2>1 DEF Book
  <2>3. account'.balance = settler[k].balance + Gains(Managed(Asked(k), quote))
    BY <2>2 DEF LedgerInv, PaperInv, PaperTyped, AccountRow
  <2> QED
    BY <1>6, <2>1, <2>2, <2>3
<1>8. CASE CloseCommit
  <2> DEFINE k == "account_closed"
  <2> DEFINE after == [o \in Order |-> Kept(Managed(Asked(k), quote)[o].pos)]
  <2>1. CASE ~ EverythingSettled(after)
    <3>1. UNCHANGED <<account, pos, booked, overwritten>>
      BY <1>8, <2>1 DEF CloseCommit
    <3> QED
      BY <1>1, <1>2, <1>3, <3>1, NothingIsPaid
  <2>2. CASE EverythingSettled(after)
    <3>1. /\ pos' = after /\ booked' = booked + Nets(Managed(Asked(k), quote)) /\ WritesBack(k)
          /\ account'.balance = settler[k].balance + Gains(Managed(Asked(k), quote))
      BY <1>8, <2>2 DEF CloseCommit
    <3>2. k \in Settlement
      BY DEF Settlement
    <3> HIDE DEF k
    <3> QED
      BY <1>6, <3>1, <3>2
  <2> QED
    BY <2>1, <2>2
<1>9. CASE \E k \in Settlement : SettleRead(k)
  <2>1. UNCHANGED <<account, pos, booked, overwritten>>
    BY <1>9 DEF SettleRead, AsBefore
  <2> QED
    BY <1>1, <1>2, <1>3, <2>1, NothingIsPaid
<1> QED
  BY <1>7, <1>8, <1>9

(* What is asked to close and stays open stands at a target that is to be   *)
(* taken in part first, and remembers the request.                          *)
Requested(r, q) ==
    /\ DOMAIN q = DOMAIN r /\ q.st = "open" /\ q.why = "scheduled_flatten"
    /\ q.dir = r.dir /\ q.sl = r.sl /\ q.tp = r.tp /\ q.done = r.done

LEMMA AskedAndOpen ==
  ASSUME NEW r, r.st = "open", Priced(r), NEW q, Requested(r, q),
         NEW rates, Manage(q, rates, Cfg, Calm).pos.st = "open"
  PROVE  /\ HardExit(r, MarkOf(r, rates)) = "take_profit" /\ SignalTarget \notin r.done
         /\ Manage(q, rates, Cfg, Calm).pos.why = "scheduled_flatten"
<1> DEFINE mark == MarkOf(q, rates)
<1> DEFINE seen == [q EXCEPT !.fav = Best(q, mark)]
<1> DEFINE act == Evaluate(seen, mark, Cfg.policy, Calm, FALSE)
<1> DEFINE reason == ReasonToClose(q, rates, Cfg)
<1> DEFINE m == Manage(q, rates, Cfg, Calm)
<1>1. /\ DOMAIN q = DOMAIN r /\ q.st = "open" /\ q.why = "scheduled_flatten"
      /\ q.dir = r.dir /\ q.sl = r.sl /\ q.tp = r.tp /\ q.done = r.done
  BY DEF Requested
<1>2. mark = MarkOf(r, rates) /\ HardExit(q, mark) = HardExit(r, mark)
  BY <1>1 DEF MarkOf, HardExit
<1>3. m = IF reason # "" THEN Closed(q, rates, Cfg, reason) ELSE Acted(seen, rates, Cfg, act)
  BY DEF Manage
<1>4. m.pos.st = "open"
  OBVIOUS
<1>5. {"st", "why"} \subseteq DOMAIN q
  BY <1>1 DEF Priced
<1>6. \A p, why : {"st", "why"} \subseteq DOMAIN p => Closed(p, rates, Cfg, why).pos.st = "closed"
  BY DEF Closed
<1>7. reason = ""
  <2> HIDE DEF reason, seen, act, m
  <2> QED
    BY <1>3, <1>4, <1>5, <1>6
<1>8. HardExit(q, mark) = "take_profit" /\ SignalTarget \notin q.done
  <2>1. HardExit(q, mark) \in {"stop_loss", "take_profit", "hold"}
    BY DEF HardExit
  <2> HIDE DEF mark
  <2> QED
    BY <1>1, <1>7, <2>1 DEF ReasonToClose, mark
<1>9. m.pos.why = "scheduled_flatten"
  <2>1. {"st", "why"} \subseteq DOMAIN seen /\ seen.why = "scheduled_flatten"
    BY <1>1, <1>5
  <2>2. m = Acted(seen, rates, Cfg, act)
    BY <1>3, <1>7
  <2> HIDE DEF seen, act, m, mark
  <2>3. CASE act.kind = "close"
    <3>1. m = Closed(seen, rates, Cfg, act.reason)
      BY <2>2, <2>3 DEF Acted
    <3> QED
      BY <1>4, <1>6, <2>1, <3>1
  <2>4. CASE act.kind = "partial" /\ act.volume > 0
    <3>1. m = Reduced(seen, rates, Cfg, act)
      BY <2>2, <2>4 DEF Acted
    <3> QED
      BY <2>1, <3>1 DEF Reduced
  <2>5. CASE act.kind # "close" /\ ~ (act.kind = "partial" /\ act.volume > 0)
    <3>1. m.pos = seen \/ m.pos = [seen EXCEPT !.sl = act.stop]
      BY <2>2, <2>5 DEF Acted
    <3> QED
      BY <2>1, <3>1
  <2> QED
    BY <2>3, <2>4, <2>5
<1> QED
  BY <1>1, <1>2, <1>8, <1>9

LEMMA FlattenStep ==
  ASSUME LedgerInv, [Next]_vars, settler["scheduled_flatten"].on, ~ settler'["scheduled_flatten"].on,
         NEW o \in Order, pos'[o].st = "open"
  PROVE  /\ HardExit(pos[o], MarkOf(pos[o], [bid |-> quote, ask |-> quote + Spread])) = "take_profit"
         /\ SignalTarget \notin pos[o].done
         /\ pos'[o].why = "scheduled_flatten"
<1> DEFINE k == "scheduled_flatten"
<1> DEFINE rates == [bid |-> quote, ask |-> quote + Spread]
<1>1. FlattenCommit
  <2>1. settler \in Settlers /\ k \in Settlement
    BY DEF LedgerInv, Settlement
  <2>2. ~ \E c \in Settlement : SettleRead(c)
    <3> SUFFICES ASSUME NEW c \in Settlement, SettleRead(c) PROVE FALSE
      OBVIOUS
    <3>1. settler' = [settler EXCEPT ![c] = [on |-> TRUE, balance |-> account.balance]]
      BY DEF SettleRead
    <3>2. settler'[k].on
      BY <2>1, <3>1 DEF Settlers
    <3> QED
      BY <3>2
  <2>3. ~ CloseCommit
    <3> SUFFICES ASSUME CloseCommit PROVE FALSE
      OBVIOUS
    <3>1. settler' = [settler EXCEPT !["account_closed"] = NotSettling]
      BY DEF CloseCommit, SettleDone
    <3>2. settler'[k] = settler[k]
      BY <2>1, <3>1 DEF Settlers
    <3> QED
      BY <3>2
  <2>4. settler' # settler
    OBVIOUS
  <2>5. ~ \E c \in Order : CreatorStep(c) \/ LateSweep(c) \/ SweepOne(c)
    BY <2>4 DEF CreatorStep, ReadEligible, MarkReversed, CountOpen, CountPending, InsertOrder, LateSweep, SweepOne
  <2>6. ~ (TickList \/ TickMatch \/ SweepList \/ TickEnd \/ \E bid \in Bids : TickBegin(bid))
    BY <2>4 DEF TickList, TickMatch, SweepList, TickEnd, TickBegin
  <2>7. ~ (\/ \E active \in BOOLEAN : SetDeploymentStatus(active) \/ SetTrading(active)
           \/ EndDeployment \/ Deploy \/ ArchiveLook \/ ArchiveWrite \/ Restore \/ Advance \/ TermEnds)
    BY <2>4 DEF SetDeploymentStatus, SetTrading, EndDeployment, Deploy, ArchiveLook, ArchiveWrite, Restore,
                Advance, TermEnds
  <2>8. ~ UNCHANGED vars
    BY <2>4 DEF vars
  <2> QED
    BY <2>2, <2>3, <2>5, <2>6, <2>7, <2>8 DEF Next, Tick, TickStep, UserStep
<1>2. pos' = [p \in Order |-> Kept(Managed(Asked(k), quote)[p].pos)]
  BY <1>1 DEF FlattenCommit, Book
<1>3. Priced(pos[o])
  BY DEF LedgerInv, RowsPriced
<1>4. Asked(k)[o] = IF pos[o].st = "open" THEN [pos[o] EXCEPT !.why = k] ELSE pos[o]
  BY DEF Asked
<1> DEFINE m == Managed(Asked(k), quote)[o]
<1>5. pos'[o] = Kept(m.pos)
  BY <1>2
<1>6. pos'[o] = m.pos /\ m.pos.st = "open"
  <2> HIDE DEF m
  <2> QED
    BY <1>5 DEF Kept
<1>7. Asked(k)[o].st = "open"
  <2>1. Asked(k)[o].st # "open" => m.pos = Asked(k)[o]
    BY DEF Managed
  <2> HIDE DEF m
  <2> QED
    BY <1>6, <2>1
<1>8. pos[o].st = "open" /\ Asked(k)[o] = [pos[o] EXCEPT !.why = k]
  BY <1>4, <1>7
<1> DEFINE q == Asked(k)[o]
<1>9. m = Manage(q, rates, Cfg, Calm)
  BY <1>7 DEF Managed
<1>10. q = [pos[o] EXCEPT !.why = "scheduled_flatten"]
  BY <1>8 DEF k
<1> HIDE DEF m, k, q, rates
<1>11. Manage(q, rates, Cfg, Calm).pos.st = "open"
  BY <1>6, <1>9
<1>12. /\ HardExit(pos[o], MarkOf(pos[o], rates)) = "take_profit" /\ SignalTarget \notin pos[o].done
       /\ Manage(q, rates, Cfg, Calm).pos.why = "scheduled_flatten"
  <2> DEFINE r == pos[o]
  <2>1. r.st = "open" /\ Priced(r) /\ Requested(r, q)
    BY <1>3, <1>8, <1>10 DEF Priced, Requested
  <2> HIDE DEF r
  <2>2. HardExit(r, MarkOf(r, rates)) = "take_profit"
    BY <1>10, <1>11, <2>1, AskedAndOpen
  <2>3. SignalTarget \notin r.done
    BY <1>10, <1>11, <2>1, AskedAndOpen
  <2>4. Manage(q, rates, Cfg, Calm).pos.why = "scheduled_flatten"
    BY <1>10, <1>11, <2>1, AskedAndOpen
  <2> QED
    BY <2>2, <2>3, <2>4 DEF r
<1> QED
  BY <1>6, <1>9, <1>12 DEF k, rates

LEMMA LedgerNext == ASSUME LedgerInv, [Next]_vars PROVE LedgerInv'
<1>1. PaperInv'
  BY PaperNext DEF LedgerInv
<1>2. CASE \E o \in Order : CreatorStep(o)
  BY <1>1, <1>2, CreatorOwesNothing
<1>3. CASE TickMatch
  BY <1>1, <1>3, MatchBalances
<1>4. CASE FlattenCommit \/ CloseCommit \/ \E k \in Settlement : SettleRead(k)
  BY <1>1, <1>4, SettleBalances
<1>5. CASE Next /\ ~ TickMatch /\ ~ (FlattenCommit \/ CloseCommit \/ \E k \in Settlement : SettleRead(k))
           /\ ~ \E o \in Order : CreatorStep(o)
  BY <1>1, <1>5, FrameOwesNothing DEF Next, Tick, TickStep, UserStep
<1>6. CASE UNCHANGED vars
  BY <1>1, <1>6, FrameOwesNothing
<1> QED
  BY <1>2, <1>3, <1>4, <1>5, <1>6

(* Nothing is lost or counted twice between the cash of an account, its     *)
(* trade rows and the opening commissions of what is open: through fills,   *)
(* partial closes, moved stops and closes under any policy, unless a        *)
(* settlement writes back a balance that had moved on.                      *)
THEOREM LedgerStaysBalanced == Spec => []LedgerBalances
<1>1. LedgerInv /\ [Next]_vars => LedgerInv'
  BY LedgerNext
<1>2. LedgerInv => LedgerBalances
  BY DEF LedgerInv
<1> QED
  BY LedgerInit, <1>1, <1>2, PTL DEF Spec

(* A flatten leaves a position open only where the quote stands at a target *)
(* the policy takes in part first, and the request stays on the row: no     *)
(* rule, partial close or moved stop of an evaluation withdraws it.         *)
THEOREM FlattenSettlesAlways == Spec => FlattenSettles
<1>1. LedgerInv /\ [Next]_vars => LedgerInv'
  BY LedgerNext
<1>2. LedgerInv /\ [Next]_vars =>
        (settler["scheduled_flatten"].on /\ ~settler'["scheduled_flatten"].on =>
           \A o \in Order : pos'[o].st = "open" =>
             /\ HardExit(pos[o], MarkOf(pos[o], [bid |-> quote, ask |-> quote + Spread])) = "take_profit"
             /\ SignalTarget \notin pos[o].done
             /\ pos'[o].why = "scheduled_flatten")
  BY FlattenStep
<1> QED
  BY LedgerInit, <1>1, <1>2, PTL DEF Spec, FlattenSettles

============================================================================
