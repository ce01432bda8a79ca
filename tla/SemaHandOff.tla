----------------------------- MODULE SemaHandOff -----------------------------
(***************************************************************************)
(* Two threads that take turns over one variable with two semaphores:      *)
(* semaphore.c of Chapter 18, and SyncSema_win.c and 03_SyncSema_win.c of  *)
(* Chapter 20.  The last of these reads its input before it waits for its  *)
(* turn, the others while they have it.                                    *)
(***************************************************************************)
EXTENDS Integers

CONSTANTS
    Turns,       \* how often each thread's loop runs
    Numbers,     \* the numbers the user may type
    MaxInt,      \* the largest value of an int
    NoNumber     \* no number

ASSUME TurnsAssumption == Turns \in Nat \ {0}
ASSUME WidthAssumption == MaxInt \in Nat
ASSUME NumbersAssumption == /\ 0 \in Numbers
                            /\ Numbers \subseteq Int /\ NoNumber \notin Numbers

VARIABLES
    early,       \* 03_SyncSema_win.c runs; never changes
    semOne, semTwo,
    num,         \* the shared variable
    readData,    \* 03_SyncSema_win.c: the reader's own copy
    rpc, i,      \* the reading thread and its loop counter
    apc, j, sum, \* the accumulating thread, its counter and sum
    main         \* what main does: the threads it waits for, or the end

readerVars == <<readData, rpc, i>>
accuVars == <<apc, j, sum>>
vars == <<early, semOne, semTwo, num, readerVars, accuVars, main>>

\* int addition wraps around in the builds of this program.
Wrap(n) == ((n + MaxInt + 1) % (2 * (MaxInt + 1))) - (MaxInt + 1)
Plus(a, b) == Wrap(a + b)

\* The semaphores' initial values: semTwo is the reader's turn.
StartTwoAt0 == 0
StartTwoAt2 == 2
StartTwo    == 1

Init ==
    /\ early \in BOOLEAN
    /\ semOne = 0 /\ semTwo = StartTwo /\ num = 0
    /\ readData \in Numbers              \* not initialised
    /\ rpc = IF early THEN "scan" ELSE "wait"
    /\ i = 0 /\ apc = "wait" /\ j = 0 /\ sum = 0
    /\ main = "join1"

-----------------------------------------------------------------------------
(* The reading thread.                                                     *)

ReadWait ==
    /\ rpc = "wait" /\ semTwo > 0
    /\ semTwo' = semTwo - 1
    /\ rpc' = IF early THEN "store" ELSE "scan"
    /\ UNCHANGED <<early, semOne, num, readData, i, accuVars, main>>

\* The loops' condition, for the counter after its increment.
Again(k) == k < Turns

\* scanf stores a number, or fails and leaves the variable as it was.
Scanned(old) == Numbers \cup {old}

ScanInTurn ==
    /\ rpc = "scan" /\ ~early
    /\ num' \in Scanned(num)
    /\ rpc' = "post"
    /\ UNCHANGED <<early, semOne, semTwo, readData, i, accuVars, main>>

ScanEarly ==
    /\ rpc = "scan" /\ early
    /\ readData' \in Scanned(readData)
    /\ rpc' = "wait"
    /\ UNCHANGED <<early, semOne, semTwo, num, i, accuVars, main>>

Store ==
    /\ rpc = "store"
    /\ num' = readData
    /\ rpc' = "post"
    /\ UNCHANGED <<early, semOne, semTwo, readData, i, accuVars, main>>

ReadPost ==
    /\ rpc = "post"
    /\ semOne' = semOne + 1
    /\ i' = i + 1
    /\ rpc' = IF ~Again(i + 1) THEN "done" ELSE IF early THEN "scan" ELSE "wait"
    /\ UNCHANGED <<early, semTwo, num, readData, accuVars, main>>

-----------------------------------------------------------------------------
(* The accumulating thread.                                                *)

AccuWait ==
    /\ apc = "wait" /\ semOne > 0
    /\ semOne' = semOne - 1
    /\ apc' = "add"
    /\ UNCHANGED <<early, semTwo, num, readerVars, j, sum, main>>

Add ==
    /\ apc = "add"
    /\ sum' = Plus(sum, num)
    /\ apc' = "post"
    /\ UNCHANGED <<early, semOne, semTwo, num, readerVars, j, main>>

\* A loop that posts the semaphore it waited for.
AccuPostOne ==
    /\ apc = "post"
    /\ semOne' = semOne + 1
    /\ j' = j + 1
    /\ apc' = IF Again(j + 1) THEN "wait" ELSE "done"
    /\ UNCHANGED <<early, semTwo, num, readerVars, sum, main>>

AccuPost ==
    /\ apc = "post"
    /\ semTwo' = semTwo + 1
    /\ j' = j + 1
    /\ apc' = IF Again(j + 1) THEN "wait" ELSE "done"
    /\ UNCHANGED <<early, semOne, num, readerVars, sum, main>>

-----------------------------------------------------------------------------
(* main joins the two threads in the order it made them, then destroys     *)
(* the semaphores and returns.                                             *)

JoinReader == /\ main = "join1" /\ rpc = "done"
              /\ main' = "join2"
              /\ UNCHANGED <<early, semOne, semTwo, num, readerVars, accuVars>>

JoinAccu   == /\ main = "join2" /\ apc = "done"
              /\ main' = "end"
              /\ UNCHANGED <<early, semOne, semTwo, num, readerVars, accuVars>>

Reader == ReadWait \/ ScanInTurn \/ ScanEarly \/ Store \/ ReadPost
Accu   == AccuWait \/ Add \/ AccuPost
Join   == JoinReader \/ JoinAccu

Next == Reader \/ Accu \/ Join

Spec == Init /\ [][Next]_vars

-----------------------------------------------------------------------------
\* Type invariant; the counters stay within the loops.
TypeOK ==
    /\ early \in BOOLEAN
    /\ semOne \in Int /\ semTwo \in Int
    /\ num \in Numbers /\ readData \in Numbers
    /\ rpc \in {"scan", "wait", "store", "post", "done"} /\ i \in 0..Turns
    /\ apc \in {"wait", "add", "post", "done"} /\ j \in 0..Turns
    /\ main \in {"join1", "join2", "end"}

Bit(b) == IF b THEN 1 ELSE 0

\* The reader has the turn: it has waited for semTwo and not posted semOne.
ReaderTurn == rpc \in {"store", "post"} \/ (rpc = "scan" /\ ~early)
AccuTurn   == apc \in {"add", "post"}

\* One permit exists: in a semaphore or with the thread whose turn it is, so
\* at no time may both threads touch num, and no count passes the maximum
\* of 1 the Windows programs give their semaphores.
OnePermit ==
    /\ semOne >= 0 /\ semTwo >= 0
    /\ semOne + semTwo + Bit(ReaderTurn) + Bit(AccuTurn) = 1

\* How many numbers the reader has put into num, and the other one added.
Stored == i + Bit(rpc = "post")
Added  == j + Bit(apc = "post")

Place == IF Stored > Added THEN num ELSE NoNumber

\* The two semaphores implement the hand-over: each number is added exactly
\* once and none is overwritten before.
Abstract == INSTANCE HandOff WITH place <- Place, given <- Stored
HandsOver == Abstract!Spec

\* The program terminates: neither thread waits for the other for ever, and
\* after the last round nobody is left waiting.
Terminates == []<>(main = "end")
=============================================================================
