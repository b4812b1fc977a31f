------------------------------ MODULE BarProofs ------------------------------
(***************************************************************************)
(* Proofs about bienstein, for any number of students, bartenders and cups *)
(* and any size of the buffers: the threads pass the cups on and lose      *)
(* none, every order becomes one drink, and the cup boy is called in time. *)
(***************************************************************************)
EXTENDS Bienstein, TLAPS

BarLabels == {"enter", "order", "wait", "return", "leave", "gone", "get", "clean", "serve",
              "dirty", "look", "call", "count", "wash", "add", "sleep", "join", "done"}
Things == Cups \union {Nobody}

(* Who has a cup in hands: a student with an empty glass, a bartender who  *)
(* serves or returns one, the cup boy between the two buffers.             *)
BarType ==
  /\ ABB \in Seq(Things) /\ DrinkBB \in Seq(Cups) /\ CBB \in Seq(Cups) /\ DBB \in Seq(Cups)
  /\ bpc \in [Threads -> BarLabels] /\ bpc[Boy] \in {"count", "wash", "add", "sleep"}
  /\ cup \in [Threads -> Things]
  /\ \A t \in Threads : cup[t] \in Cups <=> bpc[t] \in {"return", "serve", "dirty", "add"}
  /\ n \in Nat /\ (bpc[Boy] \in {"wash", "add"} => n > 0)

(* The cups that the cup boy will still take out of DBB on this round.     *)
Rest == CASE bpc[Boy] = "wash" -> n [] bpc[Boy] = "add" -> n - 1 [] OTHER -> 0

(* The cups that came after the last count are as many as call for the cup *)
(* boy only if he is called, or somebody has still to look.                *)
Called == cupsem = 1 \/ \E b \in Bartenders : bpc[b] \in {"look", "call"}
BoyInv == bpc[Boy] # "count" /\ 5 * (Len(DBB) - Rest) >= 3 * C => Called

BarInv == BarType /\ BoyInv /\ CupsConserved /\ OrdersMatch

(* What the proof needs to know of numbers of places and of threads.       *)
Is(x, y) == IF x = y THEN 1 ELSE 0
In(x, S) == IF x \in S THEN 1 ELSE 0
Counting ==
  /\ \A q \in Seq(Things), c \in Things :
       /\ InQueue(q, c) \in Nat
       /\ \A x \in Things : InQueue(Append(q, x), c) = InQueue(q, c) + Is(x, c)
       /\ q # <<>> => InQueue(Tail(q), c) = InQueue(q, c) - Is(Head(q), c)
  /\ \A S \in SUBSET Threads : Cardinality(S) \in Nat
  /\ \A S, T \in SUBSET Threads, t \in Threads :
       S \ {t} = T \ {t} => Cardinality(T) = Cardinality(S) - In(t, S) + In(t, T)

Hands(c) == Cardinality({t \in Threads : cup[t] = c})
Waiting == Cardinality({s \in Students : bpc[s] = "wait"})
Serving == Cardinality({b \in Bartenders : bpc[b] \in {"clean", "serve"}})

-----------------------------------------------------------------------------
(* The kinds of threads have no thread in common.                          *)
LEMMA Kinds ==
  /\ Boy \in Threads /\ Main \in Threads /\ Students \subseteq Threads /\ Bartenders \subseteq Threads
  /\ Boy # Main /\ Boy \notin Students /\ Boy \notin Bartenders
  /\ Main \notin Students /\ Main \notin Bartenders
  /\ \A s \in Students : s \notin Bartenders
  /\ Nobody \notin Cups
BY BarAssumption DEF Threads, Boy, Main

(* What a thread has in its hands changes by one thing.                    *)
LEMMA HandsChange ==
  ASSUME Counting, BarType, NEW t \in Threads, NEW x, cup' = [cup EXCEPT ![t] = x], NEW c \in Things
  PROVE  /\ Hands(c) \in Nat /\ Hands(c)' \in Nat
         /\ Hands(c)' = Hands(c) - Is(cup[t], c) + Is(x, c)
<1> DEFINE S == {u \in Threads : cup[u] = c}
           T == {u \in Threads : cup'[u] = c}
<1>1. cup'[t] = x /\ \A u \in Threads : u # t => cup'[u] = cup[u]
  BY Zenon DEF BarType
<1>2. S \in SUBSET Threads /\ T \in SUBSET Threads /\ S \ {t} = T \ {t}
  BY Zenon, <1>1
<1>3. Cardinality(S) \in Nat /\ Cardinality(T) \in Nat /\ Cardinality(T) = Cardinality(S) - In(t, S) + In(t, T)
  BY Zenon, <1>2 DEF Counting
<1>4. In(t, S) = Is(cup[t], c) /\ In(t, T) = Is(x, c)
  BY Zenon, <1>1 DEF In, Is
<1>. QED  BY Zenon, <1>3, <1>4 DEF Hands

(* A student comes to wait for a drink, or has got it.                     *)
LEMMA WaitingChange ==
  ASSUME Counting, BarType, NEW s \in Students, NEW l, Go(s, l)
  PROVE  /\ Waiting \in Nat /\ Waiting' \in Nat
         /\ Waiting' = Waiting - Is(bpc[s], "wait") + Is(l, "wait") /\ Serving' = Serving
<1> DEFINE S == {u \in Students : bpc[u] = "wait"}
           T == {u \in Students : bpc'[u] = "wait"}
<1>1. s \in Threads /\ bpc'[s] = l /\ \A u \in Threads : u # s => bpc'[u] = bpc[u]
  BY Zenon, Kinds DEF BarType, Go
<1>2. S \in SUBSET Threads /\ T \in SUBSET Threads /\ S \ {s} = T \ {s}
  BY Zenon, <1>1, Kinds
<1>3. Cardinality(S) \in Nat /\ Cardinality(T) \in Nat /\ Cardinality(T) = Cardinality(S) - In(s, S) + In(s, T)
  BY Zenon, <1>1, <1>2 DEF Counting
<1>4. In(s, S) = Is(bpc[s], "wait") /\ In(s, T) = Is(l, "wait")
  BY Zenon, <1>1 DEF In, Is
<1>5. {b \in Bartenders : bpc'[b] \in {"clean", "serve"}} = {b \in Bartenders : bpc[b] \in {"clean", "serve"}}
  BY Zenon, <1>1, Kinds
<1>. QED  BY Zenon, <1>3, <1>4, <1>5 DEF Waiting, Serving

(* A bartender comes to make a drink, or has made it.                      *)
LEMMA ServingChange ==
  ASSUME Counting, BarType, NEW b \in Bartenders, NEW l, Go(b, l)
  PROVE  /\ Serving \in Nat /\ Serving' \in Nat
         /\ Serving' = Serving - In(bpc[b], {"clean", "serve"}) + In(l, {"clean", "serve"})
         /\ Waiting' = Waiting
<1> DEFINE S == {u \in Bartenders : bpc[u] \in {"clean", "serve"}}
           T == {u \in Bartenders : bpc'[u] \in {"clean", "serve"}}
<1>1. b \in Threads /\ bpc'[b] = l /\ \A u \in Threads : u # b => bpc'[u] = bpc[u]
  BY Zenon, Kinds DEF BarType, Go
<1>2. S \in SUBSET Threads /\ T \in SUBSET Threads /\ S \ {b} = T \ {b}
  BY Zenon, <1>1, Kinds
<1>3. Cardinality(S) \in Nat /\ Cardinality(T) \in Nat /\ Cardinality(T) = Cardinality(S) - In(b, S) + In(b, T)
  BY Zenon, <1>1, <1>2 DEF Counting
<1>4. In(b, S) = In(bpc[b], {"clean", "serve"}) /\ In(b, T) = In(l, {"clean", "serve"})
  BY Zenon, <1>1 DEF In
<1>5. {s \in Students : bpc'[s] = "wait"} = {s \in Students : bpc[s] = "wait"}
  BY Zenon, <1>1, Kinds
<1>. QED  BY Zenon, <1>3, <1>4, <1>5 DEF Waiting, Serving

(* The bartenders who make a drink are some number.                        *)
LEMMA ServingIsNat == ASSUME Counting PROVE Serving \in Nat
<1>1. {b \in Bartenders : bpc[b] \in {"clean", "serve"}} \in SUBSET Threads
  BY Zenon, Kinds
<1>. QED  BY Zenon, <1>1 DEF Counting, Serving

(* The other threads neither wait for a drink nor make one.                *)
LEMMA OthersChange ==
  ASSUME BarType, NEW t \in {Boy, Main}, NEW l, Go(t, l)
  PROVE  Waiting' = Waiting /\ Serving' = Serving
<1>1. \A u \in Threads : u # t => bpc'[u] = bpc[u]
  BY Zenon, Kinds DEF BarType, Go
<1>2. /\ {b \in Bartenders : bpc'[b] \in {"clean", "serve"}} = {b \in Bartenders : bpc[b] \in {"clean", "serve"}}
      /\ {s \in Students : bpc'[s] = "wait"} = {s \in Students : bpc[s] = "wait"}
  BY Zenon, <1>1, Kinds
<1>. QED  BY Zenon, <1>2 DEF Waiting, Serving

(* Somebody takes a step and has then x in hands.                          *)
LEMMA HandStep ==
  ASSUME BarType, NEW t \in Threads, NEW l \in BarLabels, NEW x \in Things, Go(t, l), Hold(t, x),
         x \in Cups <=> l \in {"return", "serve", "dirty", "add"},
         t = Boy => l \in {"count", "wash", "add", "sleep"}
  PROVE  /\ bpc' \in [Threads -> BarLabels] /\ bpc'[Boy] \in {"count", "wash", "add", "sleep"}
         /\ cup' \in [Threads -> Things]
         /\ \A u \in Threads : cup'[u] \in Cups <=> bpc'[u] \in {"return", "serve", "dirty", "add"}
         /\ t # Boy => bpc'[Boy] = bpc[Boy]
<1>1. /\ bpc' \in [Threads -> BarLabels] /\ cup' \in [Threads -> Things]
      /\ bpc'[t] = l /\ cup'[t] = x /\ \A u \in Threads : u # t => bpc'[u] = bpc[u] /\ cup'[u] = cup[u]
  BY Zenon DEF BarType, Go, Hold
<1>2. Boy \in Threads
  BY Kinds
<1>. QED  BY Zenon, <1>1, <1>2 DEF BarType

(* A step that leaves the hands alone.                                     *)
LEMMA SameHands ==
  ASSUME BarType, NEW t \in Threads, cup' = cup
  PROVE  Hold(t, cup[t]) /\ cup[t] \in Things
BY Zenon DEF BarType, Hold

(* What goes into a buffer and comes out of it.                            *)
LEMMA Buffers ==
  ASSUME NEW S, NEW q \in Seq(S)
  PROVE  /\ Len(q) \in Nat
         /\ \A x \in S : Append(q, x) \in Seq(S) /\ Len(Append(q, x)) = Len(q) + 1
         /\ q # <<>> => Head(q) \in S /\ Tail(q) \in Seq(S) /\ Len(Tail(q)) = Len(q) - 1
OBVIOUS

(* The students' steps keep the types.                                     *)
LEMMA StudentType ==
  ASSUME BarType, NEW s \in Students,
         EnterBar(s) \/ PlaceGet(s) \/ GetDrink(s) \/ PlacePut(s) \/ LeaveBar(s)
  PROVE  BarType' /\ bpc'[Boy] = bpc[Boy]
<1>0. s \in Threads /\ s # Boy /\ Nobody \notin Cups /\ Nobody \in Things
  BY Zenon, Kinds DEF Things
<1>1. CASE EnterBar(s) \/ LeaveBar(s)
  <2>1. PICK l \in {"order", "leave", "gone"} : Go(s, l)
    BY Zenon, <1>1 DEF EnterBar, LeaveBar
  <2>2. cup' = cup /\ n' = n /\ UNCHANGED buffers /\ bpc[s] \in {"enter", "leave"}
    BY Zenon, <1>1 DEF EnterBar, LeaveBar, At
  <2>3. Hold(s, cup[s]) /\ cup[s] \in Things /\ cup[s] \notin Cups
    BY Zenon, <1>0, <2>2, SameHands DEF BarType
  <2>. QED  BY <1>0, <2>1, <2>2, <2>3, HandStep DEF BarType, BarLabels, buffers
<1>2. CASE PlaceGet(s)
  <2>1. cup' = cup /\ n' = n /\ bpc[s] = "order" /\ Go(s, "wait") /\ ABB' = Append(ABB, Nobody)
        /\ DrinkBB' = DrinkBB /\ CBB' = CBB /\ DBB' = DBB
    BY Zenon, <1>2 DEF PlaceGet, At
  <2>2. Hold(s, cup[s]) /\ cup[s] \in Things /\ cup[s] \notin Cups
    BY Zenon, <1>0, <2>1, SameHands DEF BarType
  <2>3. ABB' \in Seq(Things)
    BY Zenon, <1>0, <2>1, Buffers DEF BarType
  <2>. QED  BY <1>0, <2>1, <2>2, <2>3, HandStep DEF BarType, BarLabels
<1>3. CASE GetDrink(s)
  <2>1. n' = n /\ Go(s, "return") /\ Hold(s, Head(DrinkBB)) /\ DrinkBB # <<>> /\ DrinkBB' = Tail(DrinkBB)
        /\ ABB' = ABB /\ CBB' = CBB /\ DBB' = DBB
    BY Zenon, <1>3 DEF GetDrink, At
  <2>2. Head(DrinkBB) \in Cups /\ Head(DrinkBB) \in Things /\ DrinkBB' \in Seq(Cups)
    BY Zenon, <2>1, Buffers DEF BarType, Things
  <2>. QED  BY <1>0, <2>1, <2>2, HandStep DEF BarType, BarLabels
<1>4. CASE PlacePut(s)
  <2>1. PICK l \in {"order", "leave"} : Go(s, l)
    BY Zenon, <1>4 DEF PlacePut
  <2>2. n' = n /\ Hold(s, Nobody) /\ ABB' = Append(ABB, cup[s])
        /\ DrinkBB' = DrinkBB /\ CBB' = CBB /\ DBB' = DBB
    BY Zenon, <1>4 DEF PlacePut
  <2>3. cup[s] \in Things
    BY Zenon, <1>0 DEF BarType
  <2>4. ABB' \in Seq(Things)
    BY Zenon, <2>2, <2>3, Buffers DEF BarType
  <2>. QED  BY <1>0, <2>1, <2>2, <2>4, HandStep DEF BarType, BarLabels
<1>. QED  BY <1>1, <1>2, <1>3, <1>4

(* The bartenders' steps keep the types.                                   *)
LEMMA BartenderType ==
  ASSUME BarType, NEW b \in Bartenders,
         \/ GetAction(b) \/ GetCleanCup(b) \/ ServeDrink(b)
         \/ ReturnCup(b) \/ LookAtDirty(b) \/ CallBoy(b)
  PROVE  BarType' /\ bpc'[Boy] = bpc[Boy]
<1>0. b \in Threads /\ b # Boy /\ Nobody \notin Cups /\ Nobody \in Things
  BY Zenon, Kinds DEF Things
<1>1. CASE GetAction(b)
  <2>1. n' = n /\ Hold(b, Head(ABB)) /\ ABB # <<>> /\ ABB' = Tail(ABB)
        /\ Go(b, IF Head(ABB) = Nobody THEN "clean" ELSE "dirty")
        /\ DrinkBB' = DrinkBB /\ CBB' = CBB /\ DBB' = DBB
    BY Zenon, <1>1 DEF GetAction
  <2>2. Head(ABB) \in Things /\ ABB' \in Seq(Things)
    BY Zenon, <2>1, Buffers DEF BarType
  <2>3. PICK l \in {"clean", "dirty"} : Go(b, l) /\ (l = "dirty" <=> Head(ABB) \in Cups)
    BY <1>0, <2>1, <2>2 DEF Things
  <2>. QED  BY <1>0, <2>1, <2>2, <2>3, HandStep DEF BarType, BarLabels
<1>2. CASE GetCleanCup(b)
  <2>1. n' = n /\ Hold(b, Head(CBB)) /\ CBB # <<>> /\ CBB' = Tail(CBB) /\ Go(b, "serve")
        /\ DrinkBB' = DrinkBB /\ ABB' = ABB /\ DBB' = DBB
    BY Zenon, <1>2 DEF GetCleanCup
  <2>2. Head(CBB) \in Cups /\ Head(CBB) \in Things /\ CBB' \in Seq(Cups)
    BY Zenon, <2>1, Buffers DEF BarType, Things
  <2>. QED  BY <1>0, <2>1, <2>2, HandStep DEF BarType, BarLabels
<1>3. CASE ServeDrink(b)
  <2>1. n' = n /\ Hold(b, Nobody) /\ DrinkBB' = Append(DrinkBB, cup[b]) /\ Go(b, "get") /\ bpc[b] = "serve"
        /\ ABB' = ABB /\ CBB' = CBB /\ DBB' = DBB
    BY Zenon, <1>3 DEF ServeDrink, At
  <2>2. DrinkBB' \in Seq(Cups)
    BY Zenon, <1>0, <2>1, Buffers DEF BarType
  <2>. QED  BY <1>0, <2>1, <2>2, HandStep DEF BarType, BarLabels
<1>4. CASE ReturnCup(b)
  <2>1. n' = n /\ Hold(b, Nobody) /\ DBB' = Append(DBB, cup[b]) /\ Go(b, "look") /\ bpc[b] = "dirty"
        /\ ABB' = ABB /\ CBB' = CBB /\ DrinkBB' = DrinkBB
    BY Zenon, <1>4 DEF ReturnCup, At
  <2>2. DBB' \in Seq(Cups)
    BY Zenon, <1>0, <2>1, Buffers DEF BarType
  <2>. QED  BY <1>0, <2>1, <2>2, HandStep DEF BarType, BarLabels
<1>5. CASE LookAtDirty(b) \/ CallBoy(b)
  <2>1. PICK l \in {"call", "get"} : Go(b, l)
    BY Zenon, <1>5 DEF LookAtDirty, CallBoy
  <2>2. cup' = cup /\ n' = n /\ UNCHANGED buffers /\ bpc[b] \in {"look", "call"}
    BY Zenon, <1>5 DEF LookAtDirty, CallBoy, At
  <2>3. Hold(b, cup[b]) /\ cup[b] \in Things /\ cup[b] \notin Cups
    BY Zenon, <1>0, <2>2, SameHands DEF BarType
  <2>. QED  BY <1>0, <2>1, <2>2, <2>3, HandStep DEF BarType, BarLabels, buffers
<1>. QED  BY <1>1, <1>2, <1>3, <1>4, <1>5

(* The cup boy's steps keep the types.                                     *)
LEMMA BoyType ==
  ASSUME BarType, CountDirty \/ WashDirty \/ AddCleanCup \/ CupDown
  PROVE  BarType'
<1>0. Boy \in Threads /\ Nobody \notin Cups /\ Nobody \in Things
  BY Zenon, Kinds DEF Things
<1>1. CASE CountDirty
  <2>1. cup' = cup /\ n' = Len(DBB) /\ UNCHANGED buffers /\ bpc[Boy] = "count"
        /\ Go(Boy, IF n' > 0 THEN "wash" ELSE "sleep")
    BY Zenon, <1>1 DEF CountDirty, At
  <2>2. PICK l \in {"wash", "sleep"} : Go(Boy, l) /\ (l = "wash" => n' > 0)
    BY <2>1
  <2>3. Hold(Boy, cup[Boy]) /\ cup[Boy] \in Things /\ cup[Boy] \notin Cups
    BY Zenon, <1>0, <2>1, SameHands DEF BarType
  <2>4. n' \in Nat /\ bpc'[Boy] = l
    BY Zenon, <1>0, <2>1, <2>2, Buffers DEF BarType, Go
  <2>. QED  BY <1>0, <2>1, <2>2, <2>3, <2>4, HandStep DEF BarType, BarLabels, buffers
<1>2. CASE WashDirty
  <2>1. n' = n /\ DBB # <<>> /\ DBB' = Tail(DBB) /\ Hold(Boy, Head(DBB)) /\ Go(Boy, "add")
        /\ ABB' = ABB /\ CBB' = CBB /\ DrinkBB' = DrinkBB /\ bpc[Boy] = "wash"
    BY Zenon, <1>2 DEF WashDirty, At
  <2>2. Head(DBB) \in Cups /\ Head(DBB) \in Things /\ DBB' \in Seq(Cups)
    BY Zenon, <2>1, Buffers DEF BarType, Things
  <2>. QED  BY <1>0, <2>1, <2>2, HandStep DEF BarType, BarLabels
<1>3. CASE AddCleanCup
  <2>1. n' = n - 1 /\ CBB' = Append(CBB, cup[Boy]) /\ Hold(Boy, Nobody) /\ bpc[Boy] = "add"
        /\ Go(Boy, IF n > 1 THEN "wash" ELSE "sleep")
        /\ ABB' = ABB /\ DBB' = DBB /\ DrinkBB' = DrinkBB
    BY Zenon, <1>3 DEF AddCleanCup, At
  <2>2. PICK l \in {"wash", "sleep"} : Go(Boy, l) /\ (l = "wash" => n > 1)
    BY <2>1
  <2>3. CBB' \in Seq(Cups)
    BY Zenon, <1>0, <2>1, Buffers DEF BarType
  <2>4. n' \in Nat /\ bpc'[Boy] = l /\ (l = "wash" => n' > 0)
    BY <1>0, <2>1, <2>2 DEF BarType, Go
  <2>. QED  BY <1>0, <2>1, <2>2, <2>3, <2>4, HandStep DEF BarType, BarLabels
<1>4. CASE CupDown
  <2>1. cup' = cup /\ n' = n /\ UNCHANGED buffers /\ bpc[Boy] = "sleep" /\ Go(Boy, "count")
    BY Zenon, <1>4 DEF CupDown, At
  <2>2. Hold(Boy, cup[Boy]) /\ cup[Boy] \in Things /\ cup[Boy] \notin Cups
    BY Zenon, <1>0, <2>1, SameHands DEF BarType
  <2>3. bpc'[Boy] = "count"
    BY Zenon, <1>0, <2>1 DEF BarType, Go
  <2>. QED  BY <1>0, <2>1, <2>2, <2>3, HandStep DEF BarType, BarLabels, buffers
<1>. QED  BY <1>1, <1>2, <1>3, <1>4

(* The exit of main() keeps the types.                                     *)
LEMMA ExitType == ASSUME BarType, Exit PROVE BarType' /\ bpc'[Boy] = bpc[Boy]
<1>1. cup' = cup /\ n' = n /\ UNCHANGED buffers /\ bpc[Main] = "join" /\ Go(Main, "done")
  BY Zenon DEF Exit, At
<1>2. Main \in Threads /\ Main # Boy
  BY Kinds
<1>3. Hold(Main, cup[Main]) /\ cup[Main] \in Things /\ cup[Main] \notin Cups
  BY Zenon, <1>1, <1>2, SameHands DEF BarType
<1>. QED  BY <1>1, <1>2, <1>3, HandStep DEF BarType, BarLabels, buffers

-----------------------------------------------------------------------------
(* A step that is not about dirty cups.                                    *)
LEMMA BoyQuiet ==
  ASSUME BoyInv, DBB' = DBB, n' = n, cupsem' = cupsem, bpc'[Boy] = bpc[Boy],
         \A b \in Bartenders : bpc[b] \in {"look", "call"} => bpc'[b] \in {"look", "call"}
  PROVE  BoyInv'
BY Zenon DEF BoyInv, Rest, Called

(* A step of t changes where t is, and nobody else.                        *)
LEMMA GoStep ==
  ASSUME BarType, NEW t \in Threads, NEW l, Go(t, l)
  PROVE  bpc'[t] = l /\ \A u \in Threads : u # t => bpc'[u] = bpc[u]
BY Zenon DEF BarType, Go

(* The students do not touch dirty cups.                                   *)
LEMMA StudentBoy ==
  ASSUME BarType, BoyInv, NEW s \in Students,
         EnterBar(s) \/ PlaceGet(s) \/ GetDrink(s) \/ PlacePut(s) \/ LeaveBar(s)
  PROVE  BoyInv'
<1>1. DBB' = DBB /\ n' = n /\ cupsem' = cupsem /\ \E l \in BarLabels : Go(s, l)
  BY DEF EnterBar, PlaceGet, GetDrink, PlacePut, LeaveBar, buffers, BarLabels
<1>2. \A u \in Threads : u # s => bpc'[u] = bpc[u]
  BY Zenon, <1>1, GoStep, Kinds
<1>. QED  BY Zenon, <1>1, <1>2, BoyQuiet, Kinds

(* Nor does main().                                                        *)
LEMMA ExitBoy == ASSUME BarType, BoyInv, Exit PROVE BoyInv'
<1>1. DBB' = DBB /\ n' = n /\ cupsem' = cupsem /\ Go(Main, "done")
  BY Zenon DEF Exit, buffers
<1>2. \A u \in Threads : u # Main => bpc'[u] = bpc[u]
  BY Zenon, <1>1, GoStep, Kinds
<1>. QED  BY Zenon, <1>1, <1>2, BoyQuiet, Kinds

(* A bartender who has put a cup into DBB looks how many there are before  *)
(* anything else, so the look sees that cup.                               *)
LEMMA BartenderBoy ==
  ASSUME C \in Nat, BarType, BoyInv, NEW b \in Bartenders,
         \/ GetAction(b) \/ GetCleanCup(b) \/ ServeDrink(b)
         \/ ReturnCup(b) \/ LookAtDirty(b) \/ CallBoy(b)
  PROVE  BoyInv'
<1>0. b \in Threads /\ b # Boy /\ Boy \in Threads
  BY Kinds
<1>1. CASE GetAction(b) \/ GetCleanCup(b) \/ ServeDrink(b)
  <2>1. DBB' = DBB /\ n' = n /\ cupsem' = cupsem /\ bpc[b] \notin {"look", "call"}
        /\ \E l \in BarLabels : Go(b, l)
    BY <1>1 DEF GetAction, GetCleanCup, ServeDrink, At, BarLabels
  <2>2. \A u \in Threads : u # b => bpc'[u] = bpc[u]
    BY Zenon, <1>0, <2>1, GoStep
  <2>. QED  BY Zenon, <1>0, <2>1, <2>2, BoyQuiet, Kinds
<1>2. CASE ReturnCup(b)
  <2>1. bpc'[b] = "look"
    BY Zenon, <1>0, <1>2, GoStep DEF ReturnCup
  <2>. QED  BY Zenon, <2>1 DEF BoyInv, Called
<1>3. CASE LookAtDirty(b)
  <2>1. DBB' = DBB /\ n' = n /\ cupsem' = cupsem /\ Go(b, IF Dirty THEN "call" ELSE "get")
    BY Zenon, <1>3 DEF LookAtDirty, buffers
  <2>2. CASE Dirty
    <3>1. bpc'[b] = "call"
      BY Zenon, <1>0, <2>1, <2>2, GoStep
    <3>. QED  BY Zenon, <3>1 DEF BoyInv, Called
  <2>3. CASE ~Dirty
    <3>1. Len(DBB) \in Nat /\ n \in Nat
      BY Zenon, Buffers DEF BarType
    <3>2. bpc'[Boy] = bpc[Boy]
      BY Zenon, <1>0, <2>1, GoStep
    <3>3. Rest' = Rest /\ Rest \in Int /\ Rest >= 0
      BY <2>1, <3>1, <3>2 DEF Rest, BarType
    <3>4. ~(5 * (Len(DBB) - Rest) >= 3 * C)
      BY <1>0, <2>3, <3>1, <3>3 DEF Dirty
    <3>. QED  BY Zenon, <2>1, <3>3, <3>4 DEF BoyInv
  <2>. QED  BY <2>2, <2>3
<1>4. CASE CallBoy(b)
  BY Zenon, <1>4 DEF CallBoy, BoyInv, Called
<1>. QED  BY <1>1, <1>2, <1>3, <1>4

(* A round of the cup boy takes the cups that were there when it began.    *)
LEMMA BoyBoy ==
  ASSUME C \in Nat \ {0}, BarType, BoyInv, CountDirty \/ WashDirty \/ AddCleanCup \/ CupDown
  PROVE  BoyInv'
<1>0. Boy \in Threads /\ Len(DBB) \in Nat /\ n \in Nat
  BY Zenon, Kinds, Buffers DEF BarType
<1>1. CASE CountDirty
  <2>1. DBB' = DBB /\ n' = Len(DBB) /\ Go(Boy, IF n' > 0 THEN "wash" ELSE "sleep")
    BY Zenon, <1>1 DEF CountDirty, buffers
  <2>2. bpc'[Boy] = IF n' > 0 THEN "wash" ELSE "sleep"
    BY Zenon, <1>0, <2>1, GoStep
  <2>3. Rest' = Len(DBB')
    BY <1>0, <2>1, <2>2 DEF Rest
  <2>4. ~(5 * (Len(DBB') - Rest') >= 3 * C)
    BY <1>0, <2>1, <2>3
  <2>. QED  BY Zenon, <2>4 DEF BoyInv
<1>2. CASE WashDirty
  <2>1. DBB # <<>> /\ DBB' = Tail(DBB) /\ n' = n /\ cupsem' = cupsem /\ bpc[Boy] = "wash" /\ Go(Boy, "add")
    BY Zenon, <1>2 DEF WashDirty, At
  <2>2. bpc'[Boy] = "add" /\ \A u \in Threads : u # Boy => bpc'[u] = bpc[u]
    BY Zenon, <1>0, <2>1, GoStep
  <2>3. Len(DBB') = Len(DBB) - 1
    BY Zenon, <2>1, Buffers DEF BarType
  <2>4. Len(DBB') - Rest' = Len(DBB) - Rest
    BY <1>0, <2>1, <2>2, <2>3 DEF Rest
  <2>5. Called => Called'
    BY Zenon, <2>1, <2>2, Kinds DEF Called
  <2>6. bpc[Boy] # "count"
    BY <2>1
  <2>. QED  BY Zenon, <2>4, <2>5, <2>6 DEF BoyInv
<1>3. CASE AddCleanCup
  <2>1. DBB' = DBB /\ n' = n - 1 /\ cupsem' = cupsem /\ bpc[Boy] = "add"
        /\ Go(Boy, IF n > 1 THEN "wash" ELSE "sleep")
    BY Zenon, <1>3 DEF AddCleanCup, At
  <2>2. bpc'[Boy] = (IF n > 1 THEN "wash" ELSE "sleep") /\ \A u \in Threads : u # Boy => bpc'[u] = bpc[u]
    BY Zenon, <1>0, <2>1, GoStep
  <2>3. n > 0
    BY <2>1 DEF BarType
  <2>4. Rest' = Rest
    BY <1>0, <2>1, <2>2, <2>3 DEF Rest
  <2>5. Called => Called'
    BY Zenon, <2>1, <2>2, Kinds DEF Called
  <2>6. bpc[Boy] # "count"
    BY <2>1
  <2>. QED  BY Zenon, <2>1, <2>4, <2>5, <2>6 DEF BoyInv
<1>4. CASE CupDown
  <2>1. bpc'[Boy] = "count"
    BY Zenon, <1>0, <1>4, GoStep DEF CupDown
  <2>. QED  BY Zenon, <2>1 DEF BoyInv
<1>. QED  BY <1>1, <1>2, <1>3, <1>4

-----------------------------------------------------------------------------
(* The places of a cup, and the drinks that are ordered and not served.    *)
Total(c) == InQueue(ABB, c) + InQueue(DrinkBB, c) + InQueue(CBB, c) + InQueue(DBB, c) + Hands(c)
Ordered == InQueue(ABB, Nobody) + Len(DrinkBB) + Serving

(* Every buffer holds things.                                              *)
LEMMA InBuffers ==
  ASSUME BarType
  PROVE  ABB \in Seq(Things) /\ DrinkBB \in Seq(Things) /\ CBB \in Seq(Things) /\ DBB \in Seq(Things)
BY DEF BarType, Things

(* How many of a thing there are in each place.                            *)
LEMMA Numbers ==
  ASSUME Counting, BarType, NEW c \in Things
  PROVE  /\ InQueue(ABB, c) \in Nat /\ InQueue(DrinkBB, c) \in Nat /\ InQueue(CBB, c) \in Nat
         /\ InQueue(DBB, c) \in Nat /\ Hands(c) \in Nat
<1>1. {t \in Threads : cup[t] = c} \in SUBSET Threads
  OBVIOUS
<1>. QED  BY Zenon, <1>1, InBuffers DEF Counting, Hands

(* Thread t puts what it has in hands into buffer q.                       *)
LEMMA Puts ==
  ASSUME Counting, BarType, NEW t \in Threads, Hold(t, Nobody), NEW c \in Cups, NEW q \in Seq(Things)
  PROVE  /\ InQueue(Append(q, cup[t]), c) + Hands(c)' = InQueue(q, c) + Hands(c)
         /\ InQueue(Append(q, cup[t]), c) \in Nat /\ Hands(c)' \in Nat
<1>1. c \in Things /\ cup[t] \in Things /\ Nobody # c
  BY Zenon, Kinds DEF Things, BarType
<1>2. InQueue(Append(q, cup[t]), c) = InQueue(q, c) + Is(cup[t], c) /\ InQueue(q, c) \in Nat
  BY Zenon, <1>1 DEF Counting
<1>3. Hands(c) \in Nat /\ Hands(c)' \in Nat /\ Hands(c)' = Hands(c) - Is(cup[t], c) + Is(Nobody, c)
  BY Zenon, <1>1, HandsChange DEF Hold
<1>4. Is(Nobody, c) = 0 /\ Is(cup[t], c) \in {0, 1}
  BY <1>1 DEF Is
<1>. QED  BY <1>2, <1>3, <1>4

(* Thread t, with nothing in hands, takes what comes first in buffer q.    *)
LEMMA Takes ==
  ASSUME Counting, BarType, NEW t \in Threads, cup[t] \notin Cups, NEW c \in Cups, NEW q \in Seq(Things),
         q # <<>>, Hold(t, Head(q))
  PROVE  /\ InQueue(Tail(q), c) + Hands(c)' = InQueue(q, c) + Hands(c)
         /\ InQueue(Tail(q), c) \in Nat /\ Hands(c)' \in Nat
<1>1. c \in Things /\ cup[t] # c
  BY Zenon DEF Things
<1>2. Tail(q) \in Seq(Things)
  BY Zenon, Buffers
<1>3. InQueue(Tail(q), c) = InQueue(q, c) - Is(Head(q), c) /\ InQueue(q, c) \in Nat /\ InQueue(Tail(q), c) \in Nat
  BY Zenon, <1>1, <1>2 DEF Counting
<1>4. Hands(c) \in Nat /\ Hands(c)' \in Nat /\ Hands(c)' = Hands(c) - Is(cup[t], c) + Is(Head(q), c)
  BY Zenon, <1>1, HandsChange DEF Hold
<1>5. Is(cup[t], c) = 0 /\ Is(Head(q), c) \in {0, 1}
  BY <1>1 DEF Is
<1>. QED  BY <1>3, <1>4, <1>5

(* A step after which every cup is in as many places is one that keeps it. *)
LEMMA CupsKept ==
  ASSUME CupsConserved, \A c \in Cups : Total(c)' = Total(c)
  PROVE  CupsConserved'
BY Zenon DEF CupsConserved, Total, Hands

(* A step that leaves the buffers and the hands alone.                     *)
LEMMA CupsQuiet ==
  ASSUME CupsConserved, UNCHANGED <<buffers, cup>>
  PROVE  CupsConserved'
BY Zenon DEF CupsConserved, buffers

(* The students' steps conserve cups.                                      *)
LEMMA StudentCups ==
  ASSUME Counting, BarType, CupsConserved, NEW s \in Students,
         EnterBar(s) \/ PlaceGet(s) \/ GetDrink(s) \/ PlacePut(s) \/ LeaveBar(s)
  PROVE  CupsConserved'
<1>0. s \in Threads
  BY Kinds
<1>1. CASE EnterBar(s) \/ LeaveBar(s)
  BY Zenon, <1>1, CupsQuiet DEF EnterBar, LeaveBar
<1>2. CASE PlaceGet(s)
  <2>1. ABB' = Append(ABB, Nobody) /\ DrinkBB' = DrinkBB /\ CBB' = CBB /\ DBB' = DBB /\ cup' = cup
    BY Zenon, <1>2 DEF PlaceGet
  <2>2. ASSUME NEW c \in Cups PROVE Total(c)' = Total(c)
    <3>1. c \in Things /\ Nobody \in Things /\ Nobody # c
      BY Zenon, Kinds DEF Things
    <3>2. InQueue(ABB', c) = InQueue(ABB, c) + Is(Nobody, c)
      BY Zenon, <2>1, <3>1, InBuffers DEF Counting
    <3>3. Is(Nobody, c) = 0 /\ Hands(c)' = Hands(c)
      BY Zenon, <2>1, <3>1 DEF Is, Hands
    <3>4. InQueue(ABB', c) = InQueue(ABB, c)
      BY <3>1, <3>2, <3>3, Numbers
    <3>. QED  BY Zenon, <2>1, <3>3, <3>4 DEF Total
  <2>. QED  BY Zenon, <2>2, CupsKept
<1>3. CASE GetDrink(s)
  <2>1. /\ DrinkBB # <<>> /\ Hold(s, Head(DrinkBB)) /\ DrinkBB' = Tail(DrinkBB)
        /\ ABB' = ABB /\ CBB' = CBB /\ DBB' = DBB /\ cup[s] \notin Cups
    BY <1>0, <1>3 DEF GetDrink, At, BarType
  <2>2. ASSUME NEW c \in Cups PROVE Total(c)' = Total(c)
    <3>1. InQueue(DrinkBB', c) + Hands(c)' = InQueue(DrinkBB, c) + Hands(c)
          /\ InQueue(DrinkBB', c) \in Nat /\ Hands(c)' \in Nat
      BY Zenon, <1>0, <2>1, InBuffers, Takes
    <3>2. /\ InQueue(ABB, c) \in Nat /\ InQueue(DrinkBB, c) \in Nat /\ InQueue(CBB, c) \in Nat
          /\ InQueue(DBB, c) \in Nat /\ Hands(c) \in Nat
      BY Zenon, Numbers DEF Things
    <3>3. ABB' = ABB /\ CBB' = CBB /\ DBB' = DBB
      BY Zenon, <2>1
    <3>. QED  BY <3>1, <3>2, <3>3 DEF Total
  <2>. QED  BY Zenon, <2>2, CupsKept
<1>4. CASE PlacePut(s)
  <2>1. Hold(s, Nobody) /\ ABB' = Append(ABB, cup[s]) /\ DrinkBB' = DrinkBB /\ CBB' = CBB /\ DBB' = DBB
    BY Zenon, <1>4 DEF PlacePut
  <2>2. ASSUME NEW c \in Cups PROVE Total(c)' = Total(c)
    <3>1. InQueue(ABB', c) + Hands(c)' = InQueue(ABB, c) + Hands(c)
          /\ InQueue(ABB', c) \in Nat /\ Hands(c)' \in Nat
      BY Zenon, <1>0, <2>1, InBuffers, Puts
    <3>2. /\ InQueue(ABB, c) \in Nat /\ InQueue(DrinkBB, c) \in Nat /\ InQueue(CBB, c) \in Nat
          /\ InQueue(DBB, c) \in Nat /\ Hands(c) \in Nat
      BY Zenon, Numbers DEF Things
    <3>3. DrinkBB' = DrinkBB /\ CBB' = CBB /\ DBB' = DBB
      BY Zenon, <2>1
    <3>. QED  BY <3>1, <3>2, <3>3 DEF Total
  <2>. QED  BY Zenon, <2>2, CupsKept
<1>. QED  BY <1>1, <1>2, <1>3, <1>4

(* The bartenders' steps conserve cups.                                    *)
LEMMA BartenderCups ==
  ASSUME Counting, BarType, CupsConserved, NEW b \in Bartenders,
         \/ GetAction(b) \/ GetCleanCup(b) \/ ServeDrink(b)
         \/ ReturnCup(b) \/ LookAtDirty(b) \/ CallBoy(b)
  PROVE  CupsConserved'
<1>0. b \in Threads
  BY Kinds
<1>1. CASE GetAction(b)
  <2>1. /\ ABB # <<>> /\ Hold(b, Head(ABB)) /\ ABB' = Tail(ABB)
        /\ DrinkBB' = DrinkBB /\ CBB' = CBB /\ DBB' = DBB /\ cup[b] \notin Cups
    BY <1>0, <1>1 DEF GetAction, At, BarType
  <2>2. ASSUME NEW c \in Cups PROVE Total(c)' = Total(c)
    <3>1. InQueue(ABB', c) + Hands(c)' = InQueue(ABB, c) + Hands(c)
          /\ InQueue(ABB', c) \in Nat /\ Hands(c)' \in Nat
      BY Zenon, <1>0, <2>1, InBuffers, Takes
    <3>2. /\ InQueue(ABB, c) \in Nat /\ InQueue(DrinkBB, c) \in Nat /\ InQueue(CBB, c) \in Nat
          /\ InQueue(DBB, c) \in Nat /\ Hands(c) \in Nat
      BY Zenon, Numbers DEF Things
    <3>3. DrinkBB' = DrinkBB /\ CBB' = CBB /\ DBB' = DBB
      BY Zenon, <2>1
    <3>. QED  BY <3>1, <3>2, <3>3 DEF Total
  <2>. QED  BY Zenon, <2>2, CupsKept
<1>2. CASE GetCleanCup(b)
  <2>1. /\ CBB # <<>> /\ Hold(b, Head(CBB)) /\ CBB' = Tail(CBB)
        /\ DrinkBB' = DrinkBB /\ ABB' = ABB /\ DBB' = DBB /\ cup[b] \notin Cups
    BY <1>0, <1>2 DEF GetCleanCup, At, BarType
  <2>2. ASSUME NEW c \in Cups PROVE Total(c)' = Total(c)
    <3>1. InQueue(CBB', c) + Hands(c)' = InQueue(CBB, c) + Hands(c)
          /\ InQueue(CBB', c) \in Nat /\ Hands(c)' \in Nat
      BY Zenon, <1>0, <2>1, InBuffers, Takes
    <3>2. /\ InQueue(ABB, c) \in Nat /\ InQueue(DrinkBB, c) \in Nat /\ InQueue(CBB, c) \in Nat
          /\ InQueue(DBB, c) \in Nat /\ Hands(c) \in Nat
      BY Zenon, Numbers DEF Things
    <3>3. ABB' = ABB /\ DrinkBB' = DrinkBB /\ DBB' = DBB
      BY Zenon, <2>1
    <3>. QED  BY <3>1, <3>2, <3>3 DEF Total
  <2>. QED  BY Zenon, <2>2, CupsKept
<1>3. CASE ServeDrink(b)
  <2>1. Hold(b, Nobody) /\ DrinkBB' = Append(DrinkBB, cup[b]) /\ ABB' = ABB /\ CBB' = CBB /\ DBB' = DBB
    BY Zenon, <1>3 DEF ServeDrink
  <2>2. ASSUME NEW c \in Cups PROVE Total(c)' = Total(c)
    <3>1. InQueue(DrinkBB', c) + Hands(c)' = InQueue(DrinkBB, c) + Hands(c)
          /\ InQueue(DrinkBB', c) \in Nat /\ Hands(c)' \in Nat
      BY Zenon, <1>0, <2>1, InBuffers, Puts
    <3>2. /\ InQueue(ABB, c) \in Nat /\ InQueue(DrinkBB, c) \in Nat /\ InQueue(CBB, c) \in Nat
          /\ InQueue(DBB, c) \in Nat /\ Hands(c) \in Nat
      BY Zenon, Numbers DEF Things
    <3>3. ABB' = ABB /\ CBB' = CBB /\ DBB' = DBB
      BY Zenon, <2>1
    <3>. QED  BY <3>1, <3>2, <3>3 DEF Total
  <2>. QED  BY Zenon, <2>2, CupsKept
<1>4. CASE ReturnCup(b)
  <2>1. Hold(b, Nobody) /\ DBB' = Append(DBB, cup[b]) /\ ABB' = ABB /\ CBB' = CBB /\ DrinkBB' = DrinkBB
    BY Zenon, <1>4 DEF ReturnCup
  <2>2. ASSUME NEW c \in Cups PROVE Total(c)' = Total(c)
    <3>1. InQueue(DBB', c) + Hands(c)' = InQueue(DBB, c) + Hands(c)
          /\ InQueue(DBB', c) \in Nat /\ Hands(c)' \in Nat
      BY Zenon, <1>0, <2>1, InBuffers, Puts
    <3>2. /\ InQueue(ABB, c) \in Nat /\ InQueue(DrinkBB, c) \in Nat /\ InQueue(CBB, c) \in Nat
          /\ InQueue(DBB, c) \in Nat /\ Hands(c) \in Nat
      BY Zenon, Numbers DEF Things
    <3>3. ABB' = ABB /\ DrinkBB' = DrinkBB /\ CBB' = CBB
      BY Zenon, <2>1
    <3>. QED  BY <3>1, <3>2, <3>3 DEF Total
  <2>. QED  BY Zenon, <2>2, CupsKept
<1>5. CASE LookAtDirty(b) \/ CallBoy(b)
  BY Zenon, <1>5, CupsQuiet DEF LookAtDirty, CallBoy
<1>. QED  BY <1>1, <1>2, <1>3, <1>4, <1>5

(* The cup boy's steps conserve cups.                                      *)
LEMMA BoyCups ==
  ASSUME Counting, BarType, CupsConserved, CountDirty \/ WashDirty \/ AddCleanCup \/ CupDown
  PROVE  CupsConserved'
<1>0. Boy \in Threads
  BY Kinds
<1>1. CASE CountDirty \/ CupDown
  BY Zenon, <1>1, CupsQuiet DEF CountDirty, CupDown
<1>2. CASE WashDirty
  <2>1. /\ DBB # <<>> /\ Hold(Boy, Head(DBB)) /\ DBB' = Tail(DBB)
        /\ DrinkBB' = DrinkBB /\ ABB' = ABB /\ CBB' = CBB /\ cup[Boy] \notin Cups
    BY <1>0, <1>2 DEF WashDirty, At, BarType
  <2>2. ASSUME NEW c \in Cups PROVE Total(c)' = Total(c)
    <3>1. InQueue(DBB', c) + Hands(c)' = InQueue(DBB, c) + Hands(c)
          /\ InQueue(DBB', c) \in Nat /\ Hands(c)' \in Nat
      BY Zenon, <1>0, <2>1, InBuffers, Takes
    <3>2. /\ InQueue(ABB, c) \in Nat /\ InQueue(DrinkBB, c) \in Nat /\ InQueue(CBB, c) \in Nat
          /\ InQueue(DBB, c) \in Nat /\ Hands(c) \in Nat
      BY Zenon, Numbers DEF Things
    <3>3. ABB' = ABB /\ DrinkBB' = DrinkBB /\ CBB' = CBB
      BY Zenon, <2>1
    <3>. QED  BY <3>1, <3>2, <3>3 DEF Total
  <2>. QED  BY Zenon, <2>2, CupsKept
<1>3. CASE AddCleanCup
  <2>1. Hold(Boy, Nobody) /\ CBB' = Append(CBB, cup[Boy]) /\ ABB' = ABB /\ DBB' = DBB /\ DrinkBB' = DrinkBB
    BY Zenon, <1>3 DEF AddCleanCup
  <2>2. ASSUME NEW c \in Cups PROVE Total(c)' = Total(c)
    <3>1. InQueue(CBB', c) + Hands(c)' = InQueue(CBB, c) + Hands(c)
          /\ InQueue(CBB', c) \in Nat /\ Hands(c)' \in Nat
      BY Zenon, <1>0, <2>1, InBuffers, Puts
    <3>2. /\ InQueue(ABB, c) \in Nat /\ InQueue(DrinkBB, c) \in Nat /\ InQueue(CBB, c) \in Nat
          /\ InQueue(DBB, c) \in Nat /\ Hands(c) \in Nat
      BY Zenon, Numbers DEF Things
    <3>3. ABB' = ABB /\ DrinkBB' = DrinkBB /\ DBB' = DBB
      BY Zenon, <2>1
    <3>. QED  BY <3>1, <3>2, <3>3 DEF Total
  <2>. QED  BY Zenon, <2>2, CupsKept
<1>. QED  BY <1>1, <1>2, <1>3

(* The numbers in OrdersMatch.                                             *)
LEMMA OrderNumbers ==
  ASSUME Counting, BarType
  PROVE  /\ InQueue(ABB, Nobody) \in Nat /\ Len(DrinkBB) \in Nat /\ Nobody \in Things
         /\ (OrdersMatch <=> Waiting = Ordered) /\ (OrdersMatch' <=> Waiting' = Ordered')
<1>1. Nobody \in Things
  BY DEF Things
<1>2. InQueue(ABB, Nobody) \in Nat /\ Len(DrinkBB) \in Nat
  BY Zenon, <1>1, Numbers, Buffers DEF BarType
<1>3. (OrdersMatch <=> Waiting = Ordered) /\ (OrdersMatch' <=> Waiting' = Ordered')
  BY Zenon DEF OrdersMatch, Waiting, Ordered, Serving
<1>. QED  BY <1>1, <1>2, <1>3

(* A step of a student that neither orders nor gets a drink, and one of    *)
(* the others that does not change the buffers of orders and drinks.       *)
LEMMA OrdersQuiet ==
  ASSUME Counting, BarType, OrdersMatch, Waiting' = Waiting, Serving' = Serving,
         InQueue(ABB', Nobody) = InQueue(ABB, Nobody), Len(DrinkBB') = Len(DrinkBB)
  PROVE  OrdersMatch'
<1>1. Waiting = Ordered /\ Ordered' = Ordered
  BY Zenon, OrderNumbers DEF Ordered
<1>. QED  BY Zenon, <1>1, OrderNumbers

(* The students' steps keep orders and drinks equal.                       *)
LEMMA StudentOrders ==
  ASSUME Counting, BarType, OrdersMatch, NEW s \in Students,
         EnterBar(s) \/ PlaceGet(s) \/ GetDrink(s) \/ PlacePut(s) \/ LeaveBar(s)
  PROVE  OrdersMatch'
<1>0. s \in Threads /\ Nobody \notin Cups /\ Waiting = Ordered
  BY Zenon, Kinds, OrderNumbers
<1>1. CASE EnterBar(s) \/ LeaveBar(s)
  <2>1. PICK l \in {"order", "leave", "gone"} : Go(s, l)
    BY Zenon, <1>1 DEF EnterBar, LeaveBar
  <2>2. bpc[s] # "wait" /\ l # "wait" /\ ABB' = ABB /\ DrinkBB' = DrinkBB
    BY <1>1 DEF EnterBar, LeaveBar, At, buffers
  <2>3. Is(bpc[s], "wait") = 0 /\ Is(l, "wait") = 0
    BY Zenon, <2>2 DEF Is
  <2>4. Waiting' = Waiting /\ Serving' = Serving
    BY <2>1, <2>3, WaitingChange
  <2>. QED  BY Zenon, <2>2, <2>4, OrdersQuiet
<1>2. CASE PlaceGet(s)
  <2>1. ABB' = Append(ABB, Nobody) /\ DrinkBB' = DrinkBB /\ Go(s, "wait") /\ bpc[s] = "order"
    BY Zenon, <1>2 DEF PlaceGet, At
  <2>2. InQueue(ABB', Nobody) = InQueue(ABB, Nobody) + Is(Nobody, Nobody)
    BY Zenon, <2>1, InBuffers, OrderNumbers DEF Counting
  <2>3. Is(Nobody, Nobody) = 1 /\ Is(bpc[s], "wait") = 0 /\ Is("wait", "wait") = 1
    BY <2>1 DEF Is
  <2>4. Waiting \in Nat /\ Waiting' = Waiting - Is(bpc[s], "wait") + Is("wait", "wait") /\ Serving' = Serving
    BY Zenon, <2>1, WaitingChange
  <2>5. Serving \in Nat
    BY Zenon, ServingIsNat
  <2>6. Waiting' = Ordered'
    BY <1>0, <2>1, <2>2, <2>3, <2>4, <2>5, OrderNumbers DEF Ordered
  <2>. QED  BY Zenon, <2>6, OrderNumbers
<1>3. CASE GetDrink(s)
  <2>1. ABB' = ABB /\ DrinkBB # <<>> /\ DrinkBB' = Tail(DrinkBB) /\ Go(s, "return") /\ bpc[s] = "wait"
    BY Zenon, <1>3 DEF GetDrink, At
  <2>2. Len(DrinkBB') = Len(DrinkBB) - 1
    BY Zenon, <2>1, Buffers DEF BarType
  <2>3. Is(bpc[s], "wait") = 1 /\ Is("return", "wait") = 0
    BY <2>1 DEF Is
  <2>4. Waiting \in Nat /\ Waiting' = Waiting - Is(bpc[s], "wait") + Is("return", "wait") /\ Serving' = Serving
    BY Zenon, <2>1, WaitingChange
  <2>5. Serving \in Nat
    BY Zenon, ServingIsNat
  <2>6. Waiting' = Ordered'
    BY <1>0, <2>1, <2>2, <2>3, <2>4, <2>5, OrderNumbers DEF Ordered
  <2>. QED  BY Zenon, <2>6, OrderNumbers
<1>4. CASE PlacePut(s)
  <2>1. PICK l \in {"order", "leave"} : Go(s, l)
    BY Zenon, <1>4 DEF PlacePut
  <2>2. ABB' = Append(ABB, cup[s]) /\ DrinkBB' = DrinkBB /\ bpc[s] = "return"
    BY Zenon, <1>4 DEF PlacePut, At
  <2>3. cup[s] \in Cups /\ cup[s] \in Things
    BY Zenon, <1>0, <2>2 DEF BarType, Things
  <2>4. InQueue(ABB', Nobody) = InQueue(ABB, Nobody) + Is(cup[s], Nobody)
    BY Zenon, <2>2, <2>3, InBuffers, OrderNumbers DEF Counting
  <2>5. Is(cup[s], Nobody) = 0 /\ Is(bpc[s], "wait") = 0 /\ Is(l, "wait") = 0
    BY <1>0, <2>1, <2>2, <2>3 DEF Is
  <2>6. Waiting' = Waiting /\ Serving' = Serving
    BY <2>1, <2>5, WaitingChange
  <2>7. InQueue(ABB', Nobody) = InQueue(ABB, Nobody)
    BY <2>4, <2>5, OrderNumbers
  <2>. QED  BY Zenon, <2>2, <2>6, <2>7, OrdersQuiet
<1>. QED  BY <1>1, <1>2, <1>3, <1>4

(* The bartenders' steps keep orders and drinks equal.                     *)
LEMMA BartenderOrders ==
  ASSUME Counting, BarType, OrdersMatch, NEW b \in Bartenders,
         \/ GetAction(b) \/ GetCleanCup(b) \/ ServeDrink(b)
         \/ ReturnCup(b) \/ LookAtDirty(b) \/ CallBoy(b)
  PROVE  OrdersMatch'
<1>0. b \in Threads /\ Nobody \notin Cups /\ Waiting = Ordered
  BY Zenon, Kinds, OrderNumbers
<1> DEFINE Busy == {"clean", "serve"}
<1>1. CASE GetAction(b)
  <2> DEFINE l == IF Head(ABB) = Nobody THEN "clean" ELSE "dirty"
  <2>1. ABB # <<>> /\ ABB' = Tail(ABB) /\ DrinkBB' = DrinkBB /\ bpc[b] = "get" /\ Go(b, l)
    BY Zenon, <1>1 DEF GetAction, At
  <2>2. InQueue(ABB', Nobody) = InQueue(ABB, Nobody) - Is(Head(ABB), Nobody)
    BY Zenon, <2>1, InBuffers, OrderNumbers DEF Counting
  <2>3. In(bpc[b], Busy) = 0 /\ In(l, Busy) = Is(Head(ABB), Nobody) /\ Is(Head(ABB), Nobody) \in {0, 1}
    BY <2>1 DEF In, Is
  <2>4. Serving \in Nat /\ Serving' = Serving - In(bpc[b], Busy) + In(l, Busy) /\ Waiting' = Waiting
    BY Zenon, <2>1, ServingChange
  <2>5. Ordered' = Ordered
    BY <2>1, <2>2, <2>3, <2>4, OrderNumbers DEF Ordered
  <2>. QED  BY Zenon, <1>0, <2>4, <2>5, OrderNumbers
<1>2. CASE ServeDrink(b)
  <2>1. ABB' = ABB /\ DrinkBB' = Append(DrinkBB, cup[b]) /\ bpc[b] = "serve" /\ Go(b, "get")
    BY Zenon, <1>2 DEF ServeDrink, At
  <2>2. Len(DrinkBB') = Len(DrinkBB) + 1
    BY Zenon, <1>0, <2>1, Buffers DEF BarType
  <2>3. In(bpc[b], Busy) = 1 /\ In("get", Busy) = 0
    BY <2>1 DEF In
  <2>4. Serving \in Nat /\ Serving' = Serving - In(bpc[b], Busy) + In("get", Busy) /\ Waiting' = Waiting
    BY Zenon, <2>1, ServingChange
  <2>5. Ordered' = Ordered
    BY <2>1, <2>2, <2>3, <2>4, OrderNumbers DEF Ordered
  <2>. QED  BY Zenon, <1>0, <2>4, <2>5, OrderNumbers
<1>3. CASE GetCleanCup(b) \/ ReturnCup(b) \/ LookAtDirty(b) \/ CallBoy(b)
  <2>1. ABB' = ABB /\ DrinkBB' = DrinkBB
    BY Zenon, <1>3 DEF GetCleanCup, ReturnCup, LookAtDirty, CallBoy, buffers
  <2>2. PICK l : Go(b, l) /\ In(bpc[b], Busy) = In(l, Busy) /\ In(l, Busy) \in {0, 1}
    <3>1. CASE GetCleanCup(b)
      BY <3>1 DEF GetCleanCup, At, In
    <3>2. CASE ReturnCup(b)
      BY <3>2 DEF ReturnCup, At, In
    <3>3. CASE CallBoy(b)
      BY <3>3 DEF CallBoy, At, In
    <3>4. CASE LookAtDirty(b)
      <4>1. bpc[b] = "look" /\ \E l \in {"call", "get"} : Go(b, l)
        BY Zenon, <3>4 DEF LookAtDirty, At
      <4>. QED  BY <4>1 DEF In
    <3>. QED  BY Zenon, <1>3, <3>1, <3>2, <3>3, <3>4
  <2>3. Serving \in Nat /\ Serving' = Serving - In(bpc[b], Busy) + In(l, Busy) /\ Waiting' = Waiting
    BY Zenon, <2>2, ServingChange
  <2>4. Serving' = Serving
    BY <2>2, <2>3
  <2>. QED  BY Zenon, <2>1, <2>3, <2>4, OrdersQuiet
<1>. QED  BY <1>1, <1>2, <1>3

(* The cup boy and main() have nothing to do with orders.                  *)
LEMMA OtherOrders ==
  ASSUME Counting, BarType, OrdersMatch, CountDirty \/ WashDirty \/ AddCleanCup \/ CupDown \/ Exit
  PROVE  OrdersMatch'
<1>1. ABB' = ABB /\ DrinkBB' = DrinkBB
  BY Zenon DEF CountDirty, WashDirty, AddCleanCup, CupDown, Exit, buffers
<1>2. \E t \in {Boy, Main} : \E l : Go(t, l)
  BY Zenon DEF CountDirty, WashDirty, AddCleanCup, CupDown, Exit
<1>. QED  BY Zenon, <1>1, <1>2, OthersChange, OrdersQuiet

-----------------------------------------------------------------------------
(* Every step keeps the invariant.                                         *)
LEMMA BarStep ==
  ASSUME Counting, C \in Nat \ {0}, BarInv, [BarNext]_barvars
  PROVE  BarInv'
<1>0. BarType /\ BoyInv /\ CupsConserved /\ OrdersMatch
  BY DEF BarInv
<1>1. CASE \E s \in Students : EnterBar(s) \/ PlaceGet(s) \/ GetDrink(s) \/ PlacePut(s) \/ LeaveBar(s)
  BY Zenon, <1>0, <1>1, StudentType, StudentBoy, StudentCups, StudentOrders DEF BarInv
<1>2. CASE \E b \in Bartenders :
             \/ GetAction(b) \/ GetCleanCup(b) \/ ServeDrink(b)
             \/ ReturnCup(b) \/ LookAtDirty(b) \/ CallBoy(b)
  BY Zenon, <1>0, <1>2, BartenderType, BartenderBoy, BartenderCups, BartenderOrders DEF BarInv
<1>3. CASE CountDirty \/ WashDirty \/ AddCleanCup \/ CupDown
  BY Zenon, <1>0, <1>3, BoyType, BoyBoy, BoyCups, OtherOrders DEF BarInv
<1>4. CASE Exit
  <2>1. CupsConserved'
    BY Zenon, <1>0, <1>4, CupsQuiet DEF Exit
  <2>. QED  BY Zenon, <1>0, <1>4, <2>1, ExitType, ExitBoy, OtherOrders DEF BarInv
<1>5. CASE UNCHANGED barvars
  <2>1. /\ ABB' = ABB /\ DrinkBB' = DrinkBB /\ CBB' = CBB /\ DBB' = DBB
        /\ cupsem' = cupsem /\ bpc' = bpc /\ cup' = cup /\ n' = n
    BY Zenon, <1>5 DEF barvars, buffers
  <2>. QED  BY Zenon, <1>0, <2>1 DEF BarInv, BarType, BoyInv, Rest, Called, CupsConserved, OrdersMatch
<1>. QED  BY Zenon, <1>1, <1>2, <1>3, <1>4, <1>5 DEF BarNext, Closed

-----------------------------------------------------------------------------
INSTANCE FiniteSetTheorems

(* The number of elements of a set when one element comes, goes or stays.  *)
LEMMA OneMoreOrLess ==
  ASSUME NEW S, NEW T, NEW t, IsFiniteSet(S), IsFiniteSet(T), S \ {t} = T \ {t}
  PROVE  Cardinality(T) = Cardinality(S) - In(t, S) + In(t, T)
<1>0. PICK R : R = S \ {t}
  OBVIOUS
<1>1. IsFiniteSet(R) /\ t \notin R
  BY Zenon, <1>0, FS_Subset
<1>2. Cardinality(R) \in Nat /\ Cardinality(R \union {t}) = Cardinality(R) + 1
  BY <1>1, FS_AddElement, FS_CardinalityType
<1>3. (t \in S => S = R \union {t}) /\ (t \notin S => S = R)
  BY Zenon, <1>0
<1>4. (t \in T => T = R \union {t}) /\ (t \notin T => T = R)
  BY Zenon, <1>0
<1>5. (t \in S => Cardinality(S) = Cardinality(R) + 1) /\ (t \notin S => Cardinality(S) = Cardinality(R))
  BY Zenon, <1>2, <1>3
<1>6. (t \in T => Cardinality(T) = Cardinality(R) + 1) /\ (t \notin T => Cardinality(T) = Cardinality(R))
  BY Zenon, <1>2, <1>4
<1>. QED  BY <1>2, <1>5, <1>6 DEF In

(* The places of a sequence that hold c are finitely many.                 *)
LEMMA PlacesFinite ==
  ASSUME NEW S, NEW q \in Seq(S), NEW c
  PROVE  /\ DOMAIN q = 1 .. Len(q) /\ Len(q) \in Nat
         /\ IsFiniteSet({i \in DOMAIN q : q[i] = c}) /\ InQueue(q, c) \in Nat
<1>1. DOMAIN q = 1 .. Len(q) /\ Len(q) \in Nat
  OBVIOUS
<1>2. IsFiniteSet(1 .. Len(q))
  BY <1>1, FS_Interval
<1>3. {i \in DOMAIN q : q[i] = c} \subseteq 1 .. Len(q)
  BY <1>1
<1>4. IsFiniteSet({i \in DOMAIN q : q[i] = c})
  BY Zenon, <1>2, <1>3, FS_Subset
<1>5. InQueue(q, c) \in Nat
  BY Zenon, <1>4, FS_CardinalityType DEF InQueue
<1>. QED  BY Zenon, <1>1, <1>4, <1>5

(* What Append adds.                                                       *)
LEMMA AppendCounts ==
  ASSUME NEW S, NEW q \in Seq(S), NEW x \in S, NEW c
  PROVE  InQueue(Append(q, x), c) = InQueue(q, c) + Is(x, c)
<1> DEFINE r == Append(q, x)
           k == Len(q) + 1
           X == {i \in DOMAIN q : q[i] = c}
           Y == {i \in DOMAIN r : r[i] = c}
<1>1. r \in Seq(S) /\ Len(q) \in Nat /\ DOMAIN q = 1 .. Len(q) /\ DOMAIN r = 1 .. k
      /\ r[k] = x /\ \A i \in 1 .. Len(q) : r[i] = q[i]
  OBVIOUS
<1>2. IsFiniteSet(X) /\ IsFiniteSet(Y) /\ InQueue(q, c) \in Nat
  BY Zenon, <1>1, PlacesFinite
<1>3. k \notin X /\ X \ {k} = Y \ {k} /\ (k \in Y <=> x = c)
  <2> HIDE DEF r
  <2>. QED  BY <1>1
<1>4. Cardinality(Y) = Cardinality(X) - In(k, X) + In(k, Y)
  BY Zenon, <1>2, <1>3, OneMoreOrLess
<1>5. In(k, X) = 0 /\ In(k, Y) = Is(x, c)
  BY Zenon, <1>3 DEF In, Is
<1>6. InQueue(r, c) = Cardinality(Y) /\ InQueue(q, c) = Cardinality(X) /\ Is(x, c) \in {0, 1}
  BY DEF InQueue, Is
<1>7. Cardinality(Y) = Cardinality(X) - 0 + Is(x, c) /\ Cardinality(X) \in Nat
  BY Zenon, <1>2, <1>4, <1>5, <1>6
<1>8. ASSUME NEW a \in Nat, NEW d \in {0, 1} PROVE a - 0 + d = a + d
  OBVIOUS
<1>. QED  BY Zenon, <1>6, <1>7, <1>8

(* What Tail takes away.                                                   *)
LEMMA TailCounts ==
  ASSUME NEW S, NEW q \in Seq(S), q # <<>>, NEW c
  PROVE  InQueue(Tail(q), c) = InQueue(q, c) - Is(Head(q), c)
<1> DEFINE r == Tail(q)
           X == {i \in DOMAIN q : q[i] = c}
           Y == {i \in DOMAIN r : r[i] = c}
           Z == X \ {1}
<1>1. r \in Seq(S) /\ Len(q) \in Nat /\ Len(q) > 0 /\ DOMAIN q = 1 .. Len(q) /\ DOMAIN r = 1 .. Len(q) - 1
      /\ Head(q) = q[1] /\ \A i \in 1 .. Len(q) - 1 : r[i] = q[i + 1]
  OBVIOUS
<1>2. IsFiniteSet(X) /\ IsFiniteSet(Y) /\ InQueue(q, c) \in Nat /\ InQueue(r, c) \in Nat
  BY Zenon, <1>1, PlacesFinite
<1>3. IsFiniteSet(Z)
  BY Zenon, <1>2, FS_Subset
<1>4. Cardinality(Y) = Cardinality(Z)
  <2> DEFINE f == [i \in Y |-> i + 1]
  <2> HIDE DEF r
  <2>1. \A i \in Y : i + 1 \in Z
    BY <1>1
  <2>2. \A j \in Z : j - 1 \in Y /\ (j - 1) + 1 = j
    BY <1>1
  <2>3. \A i, j \in Y : i + 1 = j + 1 => i = j
    BY <1>1
  <2>4. f \in Bijection(Y, Z)
    <3>1. f \in [Y -> Z] /\ \A i \in Y : f[i] = i + 1
      BY Zenon, <2>1
    <3>2. \A j \in Z : \E i \in Y : f[i] = j
      BY Zenon, <2>2, <3>1
    <3> HIDE DEF f, Y, Z
    <3>. QED  BY Zenon, <2>3, <3>1, <3>2 DEF Bijection, Injection, IsInjective, Surjection
  <2>. QED  BY Zenon, <1>2, <1>3, <2>4, FS_Bijection DEF ExistsBijection
<1>5. Z \ {1} = X \ {1} /\ 1 \notin Z /\ (1 \in X <=> Head(q) = c)
  BY <1>1
<1>6. Cardinality(Z) = Cardinality(X) - In(1, X) + In(1, Z)
  BY Zenon, <1>2, <1>3, <1>5, OneMoreOrLess
<1>7. In(1, Z) = 0 /\ In(1, X) = Is(Head(q), c)
  BY Zenon, <1>5 DEF In, Is
<1>8. InQueue(r, c) = Cardinality(Y) /\ InQueue(q, c) = Cardinality(X) /\ Is(Head(q), c) \in {0, 1}
  BY DEF InQueue, Is
<1>9. Cardinality(Z) = Cardinality(X) - Is(Head(q), c) + 0 /\ Cardinality(X) \in Nat
  BY Zenon, <1>2, <1>6, <1>7, <1>8
<1>10. ASSUME NEW a \in Nat, NEW d \in {0, 1} PROVE a - d + 0 = a - d
  OBVIOUS
<1>. QED  BY Zenon, <1>4, <1>8, <1>9, <1>10

(* The threads are finitely many, and so are the cups.                     *)
LEMMA BarFinite == IsFiniteSet(Threads) /\ C \in Nat \ {0}
<1>1. IsFiniteSet({Boy, Main})
  <2>1. IsFiniteSet({Boy}) /\ IsFiniteSet({Main})
    BY Zenon, FS_Singleton
  <2>2. {Boy, Main} = {Boy} \union {Main}
    OBVIOUS
  <2>. QED  BY <2>1, <2>2, FS_Union
<1>2. IsFiniteSet(Students \union Bartenders)
  BY Zenon, BarAssumption, FS_Union
<1>3. IsFiniteSet(Threads)
  BY Zenon, <1>1, <1>2, FS_Union DEF Threads
<1>4. C \in Nat \ {0}
  BY BarAssumption, FS_CardinalityType, FS_EmptySet DEF C
<1>. QED  BY <1>3, <1>4

(* So the steps may count.                                                 *)
LEMMA BarCounts == Counting
<1>1. \A S \in SUBSET Threads : IsFiniteSet(S)
  BY Zenon, BarFinite, FS_Subset
<1>2. \A S \in SUBSET Threads : Cardinality(S) \in Nat
  BY Zenon, <1>1, FS_CardinalityType
<1>3. \A S, T \in SUBSET Threads, t \in Threads :
        S \ {t} = T \ {t} => Cardinality(T) = Cardinality(S) - In(t, S) + In(t, T)
  BY Zenon, <1>1, OneMoreOrLess
<1>4. \A q \in Seq(Things), c \in Things :
       /\ InQueue(q, c) \in Nat
       /\ \A x \in Things : InQueue(Append(q, x), c) = InQueue(q, c) + Is(x, c)
       /\ q # <<>> => InQueue(Tail(q), c) = InQueue(q, c) - Is(Head(q), c)
  BY Zenon, PlacesFinite, AppendCounts, TailCounts
<1>. QED  BY Zenon, <1>2, <1>3, <1>4 DEF Counting

(* In the beginning each cup is in CBB, once.                              *)
LEMMA CleanOnce ==
  /\ CleanCups \in Seq(Cups)
  /\ \A c \in Cups : InQueue(CleanCups, c) = 1
<1> DEFINE F == [1 .. C -> Cups]
           Full(q) == \A c \in Cups : \E i \in 1 .. C : q[i] = c
<1>1. IsFiniteSet(Cups) /\ C \in Nat /\ C = Cardinality(Cups)
  BY Zenon, BarAssumption, BarFinite, FS_CardinalityType DEF C
<1>2. ExistsBijection(1 .. C, Cups)
  BY Zenon, <1>1, FS_CardinalityType
<1>3. \E q \in F : Full(q)
  <2>1. PICK q \in Bijection(1 .. C, Cups) : TRUE
    BY Zenon, <1>2 DEF ExistsBijection
  <2>. QED  BY Zenon, <2>1 DEF Bijection, Surjection, Injection
<1>4. CleanCups \in F /\ Full(CleanCups)
  BY Zenon, <1>3 DEF CleanCups
<1>5. IsFiniteSet(1 .. C) /\ Cardinality(1 .. C) = C
  BY <1>1, FS_Interval
<1>6. CleanCups \in Surjection(1 .. C, Cups)
  BY Zenon, <1>4 DEF Surjection
<1>7. CleanCups \in Injection(1 .. C, Cups)
  BY Zenon, <1>1, <1>5, <1>6, FS_SurjSameCardinalityImpliesInj
<1>8. CleanCups \in Seq(Cups) /\ DOMAIN CleanCups = 1 .. C
  BY <1>1, <1>4
<1>9. ASSUME NEW c \in Cups PROVE InQueue(CleanCups, c) = 1
  <2>1. PICK i \in 1 .. C : CleanCups[i] = c
    BY Zenon, <1>4
  <2>2. {j \in DOMAIN CleanCups : CleanCups[j] = c} = {i}
    <3>1. \A j \in 1 .. C : CleanCups[j] = c => j = i
      BY Zenon, <1>7, <2>1 DEF Injection, IsInjective
    <3>. QED  BY Zenon, <1>8, <2>1, <3>1
  <2>. QED  BY <2>2, FS_Singleton DEF InQueue
<1>. QED  BY <1>8, <1>9

(* The invariant holds in the beginning.                                   *)
LEMMA BarStart == BarInit => BarInv
<1> SUFFICES ASSUME BarInit PROVE BarInv
  OBVIOUS
<1>1. /\ ABB = <<>> /\ DrinkBB = <<>> /\ DBB = <<>> /\ CBB = CleanCups /\ cupsem = 1 /\ n = 0
      /\ cup = [t \in Threads |-> Nobody]
      /\ bpc = [t \in Threads |-> CASE t \in Students -> "enter" [] t \in Bartenders -> "get"
                                   [] t = Boy -> "count" [] OTHER -> "join"]
  BY Zenon DEF BarInit
<1>2. /\ \A s \in Students : bpc[s] = "enter"
      /\ \A b \in Bartenders : bpc[b] = "get"
      /\ bpc[Boy] = "count" /\ bpc[Main] = "join"
  BY <1>1, Kinds
<1>3. bpc \in [Threads -> BarLabels] /\ \A t \in Threads : bpc[t] \in {"enter", "get", "count", "join"}
  BY <1>1, <1>2 DEF Threads, BarLabels
<1>4. BarType
  BY <1>1, <1>2, <1>3, CleanOnce, Kinds DEF BarType, Things
<1>5. BoyInv
  BY Zenon, <1>1 DEF BoyInv, Called
<1>6. \A c : InQueue(<<>>, c) = 0
  BY FS_EmptySet DEF InQueue
<1>7. CupsConserved
  <2>1. ASSUME NEW c \in Cups PROVE Cardinality({t \in Threads : cup[t] = c}) = 0
    <3>1. {t \in Threads : cup[t] = c} = {}
      BY <1>1, Kinds
    <3>. QED  BY <3>1, FS_EmptySet
  <2>. QED  BY <1>1, <1>6, <2>1, CleanOnce DEF CupsConserved
<1>8. OrdersMatch
  <2>1. {s \in Students : bpc[s] = "wait"} = {} /\ {b \in Bartenders : bpc[b] \in {"clean", "serve"}} = {}
    BY <1>2
  <2>2. Cardinality({}) = 0 /\ Len(DrinkBB) = 0
    BY <1>1, FS_EmptySet
  <2>3. Waiting = 0 /\ Serving = 0 /\ InQueue(ABB, Nobody) = 0
    BY Zenon, <1>1, <1>6, <2>1, <2>2 DEF Waiting, Serving
  <2>4. Waiting = Ordered
    BY <2>2, <2>3 DEF Ordered
  <2>. QED  BY Zenon, <2>4 DEF OrdersMatch, Waiting, Ordered, Serving
<1>. QED  BY <1>4, <1>5, <1>7, <1>8 DEF BarInv

(* The invariant holds always.                                             *)
LEMMA BarAlways == BarSpec => []BarInv
<1>1. BarInv /\ [BarNext]_barvars => BarInv'
  BY BarStep, BarCounts, BarFinite
<1>. QED  BY <1>1, BarStart, PTL DEF BarSpec

(* Every cup is in one place, for any number of students, bartenders and   *)
(* cups and any size of the buffers.                                       *)
THEOREM CupsCorrect == BarSpec => []CupsConserved
<1>1. BarInv => CupsConserved
  BY DEF BarInv
<1>. QED  BY <1>1, BarAlways, PTL

(* The drinks on their way are those that students wait for.               *)
THEOREM OrdersCorrect == BarSpec => []OrdersMatch
<1>1. BarInv => OrdersMatch
  BY DEF BarInv
<1>. QED  BY <1>1, BarAlways, PTL

(* When enough cups are dirty the cup boy is awake, or called, or about to *)
(* be, although the bartenders read DBB->full without a lock.              *)
THEOREM BoyCorrect == BarSpec => []BoyKnows
<1>1. BarInv => BoyKnows
  <2> SUFFICES ASSUME BarInv, Dirty, bpc[Boy] = "sleep" PROVE Called
    BY Zenon DEF BoyKnows, Called
  <2>1. Rest = 0 /\ Len(DBB) \in Nat
    BY Buffers DEF Rest, BarInv, BarType
  <2>2. 5 * (Len(DBB) - Rest) >= 3 * C /\ bpc[Boy] # "count"
    BY <2>1, BarFinite DEF Dirty
  <2>. QED  BY Zenon, <2>2 DEF BarInv, BoyInv
<1>. QED  BY <1>1, BarAlways, PTL

==============================================================================
