------------------------------ MODULE Bienstein ------------------------------
(***************************************************************************)
(* The bar of bienstein.c: students, bartenders, the cup boy and the main  *)
(* thread that joins the students, over bounded buffers and semaphores     *)
(* whose operations are atomic, as BoundedBuffer and Semaphore show.       *)
(***************************************************************************)
EXTENDS Integers, Sequences, FiniteSets

CONSTANTS Students, Bartenders, Cups,
          Drinks,   \* student -> how many drinks (tid % 5 in the code)
          M,        \* students the bouncer lets in
          A,        \* size of ABB and DrinkBB
          Nobody    \* no cup

C == Cardinality(Cups)
Boy == "cupboy"
Main == "main"

(* con.conf: when every bartender waits for a clean cup and the cup boy is *)
(* not called, the students' hands and the dirty cups do not make up C.    *)
ASSUME BarAssumption ==
  /\ M > 0 /\ A > 0 /\ Bartenders # {} /\ Students # {} /\ Cups # {}
  /\ IsFiniteSet(Students) /\ IsFiniteSet(Bartenders) /\ IsFiniteSet(Cups)
  /\ Students \intersect Bartenders = {} /\ Nobody \notin Cups
  /\ {Boy, Main} \intersect (Students \union Bartenders) = {}
  /\ \A dirty \in 0 .. C : 5 * dirty < 3 * C => (M - Cardinality(Bartenders)) + dirty < C

VARIABLES ABB, DrinkBB, CBB, DBB,   \* the buffers
          bouncer, cupsem,          \* the semaphores
          bpc,                       \* where each thread is
          cup,                      \* the cup in a thread's hands
          left,                     \* drinks a student still wants
          n                         \* dirty cups the cup boy has to wash

buffers == <<ABB, DrinkBB, CBB, DBB>>
barvars == <<buffers, bouncer, cupsem, bpc, cup, left, n>>

Threads == Students \union Bartenders \union {Boy, Main}

(* main() has created the threads; C cups are clean.                       *)
CleanCups == CHOOSE q \in [1 .. C -> Cups] : \A c \in Cups : \E i \in 1 .. C : q[i] = c
BarInit ==
  /\ ABB = <<>> /\ DrinkBB = <<>> /\ DBB = <<>> /\ CBB = CleanCups
  /\ bouncer = M /\ cupsem = 1
  /\ bpc = [t \in Threads |-> CASE t \in Students -> "enter" [] t \in Bartenders -> "get"
                               [] t = Boy -> "count" [] OTHER -> "join"]
  /\ cup = [t \in Threads |-> Nobody] /\ left = Drinks /\ n = 0

At(t, label) == bpc[t] = label /\ bpc[Main] # "done"
Go(t, label) == bpc' = [bpc EXCEPT ![t] = label]
Hold(t, c) == cup' = [cup EXCEPT ![t] = c]

-----------------------------------------------------------------------------
(* student_func                                                            *)
EnterBar(s) ==
  /\ At(s, "enter") /\ bouncer > 0 /\ bouncer' = bouncer - 1
  /\ Go(s, IF left[s] > 0 THEN "order" ELSE "leave")
  /\ UNCHANGED <<buffers, cupsem, cup, left, n>>

PlaceGet(s) ==
  /\ At(s, "order") /\ Len(ABB) < A /\ Go(s, "wait")
  /\ ABB' = Append(ABB, Nobody)
  /\ UNCHANGED <<DrinkBB, CBB, DBB, bouncer, cupsem, cup, left, n>>

(* Mutant: the drink stays in the buffer.                                  *)
GetDrinkPeek(s) ==
  /\ At(s, "wait") /\ DrinkBB # <<>> /\ Go(s, "return")
  /\ Hold(s, Head(DrinkBB))
  /\ UNCHANGED <<buffers, bouncer, cupsem, left, n>>
GetDrink(s) ==
  /\ At(s, "wait") /\ DrinkBB # <<>> /\ Go(s, "return")
  /\ Hold(s, Head(DrinkBB)) /\ DrinkBB' = Tail(DrinkBB)
  /\ UNCHANGED <<ABB, CBB, DBB, bouncer, cupsem, left, n>>

PlacePut(s) ==
  /\ At(s, "return") /\ Len(ABB) < A
  /\ ABB' = Append(ABB, cup[s]) /\ Hold(s, Nobody)
  /\ left' = [left EXCEPT ![s] = @ - 1]
  /\ Go(s, IF left[s] > 1 THEN "order" ELSE "leave")
  /\ UNCHANGED <<DrinkBB, CBB, DBB, bouncer, cupsem, n>>

LeaveBar(s) ==
  /\ At(s, "leave") /\ bouncer' = bouncer + 1 /\ Go(s, "gone")
  /\ UNCHANGED <<buffers, cupsem, cup, left, n>>

-----------------------------------------------------------------------------
(* bartender_func.  An action is its cup: Nobody for GET_DRINK.            *)
GetAction(b) ==
  /\ At(b, "get") /\ ABB # <<>> /\ ABB' = Tail(ABB)
  /\ Hold(b, Head(ABB)) /\ Go(b, IF Head(ABB) = Nobody THEN "clean" ELSE "dirty")
  /\ UNCHANGED <<DrinkBB, CBB, DBB, bouncer, cupsem, left, n>>

GetCleanCup(b) ==
  /\ At(b, "clean") /\ CBB # <<>> /\ Go(b, "serve")
  /\ Hold(b, Head(CBB)) /\ CBB' = Tail(CBB)
  /\ UNCHANGED <<ABB, DrinkBB, DBB, bouncer, cupsem, left, n>>

ServeDrink(b) ==
  /\ At(b, "serve") /\ Len(DrinkBB) < A /\ Go(b, "get")
  /\ DrinkBB' = Append(DrinkBB, cup[b]) /\ Hold(b, Nobody)
  /\ UNCHANGED <<ABB, CBB, DBB, bouncer, cupsem, left, n>>

(* Mutant: the bartender keeps a pointer to the cup and serves it again.   *)
ReturnCupKept(b) ==
  /\ At(b, "dirty") /\ Len(DBB) < C /\ Go(b, "look")
  /\ DBB' = Append(DBB, cup[b])
  /\ UNCHANGED <<ABB, DrinkBB, CBB, bouncer, cupsem, cup, left, n>>
ReturnCup(b) ==
  /\ At(b, "dirty") /\ Len(DBB) < C /\ Go(b, "look")
  /\ DBB' = Append(DBB, cup[b]) /\ Hold(b, Nobody)
  /\ UNCHANGED <<ABB, DrinkBB, CBB, bouncer, cupsem, left, n>>

(* n / bufSize >= 0.6, by the value of DBB->full, read without a lock.     *)
Dirty == 5 * Len(DBB) >= 3 * C

(* Mutant: the cup boy is called when the buffer is full.                  *)
LookAtDirtyFull(b) ==
  /\ At(b, "look") /\ Go(b, IF Len(DBB) = C THEN "call" ELSE "get")
  /\ UNCHANGED <<buffers, bouncer, cupsem, cup, left, n>>
LookAtDirty(b) ==
  /\ At(b, "look") /\ Go(b, IF Dirty THEN "call" ELSE "get")
  /\ UNCHANGED <<buffers, bouncer, cupsem, cup, left, n>>

CallBoy(b) ==
  /\ At(b, "call") /\ cupsem' = 1 /\ Go(b, "get")
  /\ UNCHANGED <<buffers, bouncer, cup, left, n>>

-----------------------------------------------------------------------------
(* cupboy_func                                                             *)
CountDirty ==
  /\ At(Boy, "count") /\ n' = Len(DBB) /\ Go(Boy, IF n' > 0 THEN "wash" ELSE "sleep")
  /\ UNCHANGED <<buffers, bouncer, cupsem, cup, left>>

WashDirty ==
  /\ At(Boy, "wash") /\ DBB # <<>> /\ Go(Boy, "add")
  /\ Hold(Boy, Head(DBB)) /\ DBB' = Tail(DBB)
  /\ UNCHANGED <<ABB, DrinkBB, CBB, bouncer, cupsem, left, n>>

AddCleanCup ==
  /\ At(Boy, "add") /\ Len(CBB) < C
  /\ CBB' = Append(CBB, cup[Boy]) /\ Hold(Boy, Nobody)
  /\ n' = n - 1 /\ Go(Boy, IF n > 1 THEN "wash" ELSE "sleep")
  /\ UNCHANGED <<ABB, DrinkBB, DBB, bouncer, cupsem, left>>

CupDown ==
  /\ At(Boy, "sleep") /\ cupsem = 1 /\ cupsem' = 0 /\ Go(Boy, "count")
  /\ UNCHANGED <<buffers, bouncer, cup, left, n>>

-----------------------------------------------------------------------------
(* main() has joined every student: exit() ends all threads.               *)
Exit ==
  /\ At(Main, "join") /\ \A s \in Students : bpc[s] = "gone"
  /\ Go(Main, "done")
  /\ UNCHANGED <<buffers, bouncer, cupsem, cup, left, n>>

Closed == bpc[Main] = "done" /\ UNCHANGED barvars

BarNext ==
  \/ \E s \in Students : EnterBar(s) \/ PlaceGet(s) \/ GetDrink(s) \/ PlacePut(s) \/ LeaveBar(s)
  \/ \E b \in Bartenders :
       \/ GetAction(b) \/ GetCleanCup(b) \/ ServeDrink(b)
       \/ ReturnCup(b) \/ LookAtDirty(b) \/ CallBoy(b)
  \/ CountDirty \/ WashDirty \/ AddCleanCup \/ CupDown \/ Exit \/ Closed

BarSpec == BarInit /\ [][BarNext]_barvars

-----------------------------------------------------------------------------
InQueue(q, c) == Cardinality({i \in DOMAIN q : q[i] = c})

(* Every cup is in one place: in one buffer, in an action or in somebody's *)
(* hands, whatever order the threads pass it on in.                        *)
CupsConserved ==
  \A c \in Cups :
    InQueue(ABB, c) + InQueue(DrinkBB, c) + InQueue(CBB, c) + InQueue(DBB, c)
      + Cardinality({t \in Threads : cup[t] = c}) = 1

(* The drinks on their way are those that students wait for: no drink is   *)
(* left over and no student waits for one that nobody makes.               *)
OrdersMatch ==
  Cardinality({s \in Students : bpc[s] = "wait"})
    = InQueue(ABB, Nobody) + Len(DrinkBB)
      + Cardinality({b \in Bartenders : bpc[b] \in {"clean", "serve"}})

(* The unlocked look at DBB misses nothing: when enough cups are dirty the *)
(* cup boy is awake, or called, or a bartender is about to look.           *)
BoyKnows ==
  Dirty => \/ bpc[Boy] # "sleep" \/ cupsem = 1
           \/ \E b \in Bartenders : bpc[b] \in {"look", "call"}

==============================================================================
