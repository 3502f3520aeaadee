------------------------- MODULE ServerProxyProofs -------------------------
(* The figures of the dashboard are right at every moment, for any number of  *)
(* packets, any limits and any interleaving of the tasks; a reply that arrives *)
(* in full blocks is returned whole.                                          *)
(*                                                                            *)
(* ActiveSessions becomes inductive with KeysInv: the list holds no key twice, *)
(* and while it is short it holds them all.  CutWithinBlock becomes inductive *)
(* with WholeBlocks: a task that goes on reading has read full blocks only.   *)
EXTENDS ServerProxy, FiniteSetTheorems, TLAPS

USE RequestAssumption, LimitAssumption

WholeBlocks ==
  \A i \in DOMAIN task :
    task[i].state \in {"opening", "reading"} => task[i].got % Block = 0

KeysInv ==
  /\ \A i, j \in DOMAIN keysSeen : keysSeen[i] = keysSeen[j] => i = j
  /\ KnownKeys \subseteq DistinctKeys
  /\ Len(keysSeen) < KeepKeys => KnownKeys = DistinctKeys
  /\ \A i \in Decrypted : DecryptedAfter(i) = {} => task[i].req \in KnownKeys

ProxyInv ==
  /\ TypeOK
  /\ BooksBalance
  /\ LogIsNewest
  /\ KeysInv
  /\ WholeBlocks
  /\ CutWithinBlock

-----------------------------------------------------------------------------
(* Sequences and remainders *)

\* The last n elements of a sequence that has at most one more
LEMMA LastOf ==
  ASSUME NEW S, NEW s \in Seq(S), NEW n \in Nat \ {0}
  PROVE  /\ Len(s) <= n => Last(s, n) = s
         /\ Len(s) = n + 1 =>
              /\ Last(s, n) \in Seq(S) /\ Len(Last(s, n)) = n
              /\ \A i \in 1 .. n : Last(s, n)[i] = s[i + 1]
<1>1. ASSUME Len(s) <= n PROVE Last(s, n) = s
  <2>1. CASE Len(s) < n
    BY <2>1 DEF Last
  <2>3. CASE Len(s) = n
    BY <2>3 DEF Last
  <2>4. Len(s) \in Nat /\ n \in Nat
    OBVIOUS
  <2>5. Len(s) < n \/ Len(s) = n
    BY <1>1, <2>4
  <2> QED  BY <2>1, <2>3, <2>5
<1>2. ASSUME Len(s) = n + 1
      PROVE  /\ Last(s, n) \in Seq(S) /\ Len(Last(s, n)) = n
             /\ \A i \in 1 .. n : Last(s, n)[i] = s[i + 1]
  <2>1. Last(s, n) = SubSeq(s, 2, n + 1)
    BY <1>2 DEF Last
  <2>2. /\ SubSeq(s, 2, n + 1) \in Seq(S) /\ Len(SubSeq(s, 2, n + 1)) = n
        /\ \A i \in 1 .. n : SubSeq(s, 2, n + 1)[i] = s[i + 1]
    BY <1>2
  <2> QED  BY <2>1, <2>2
<1> QED  BY <1>1, <1>2

\* The first n elements of a sequence
LEMMA FirstOf ==
  ASSUME NEW S, NEW s \in Seq(S), NEW n \in Nat \ {0},
         NEW m \in Nat, m = IF Len(s) < n THEN Len(s) ELSE n
  PROVE  /\ First(s, n) \in Seq(S) /\ Len(First(s, n)) = m
         /\ \A i \in 1 .. m : First(s, n)[i] = s[i]
  BY DEF First

\* Quotient and remainder
LEMMA Division ==
  ASSUME NEW b \in Nat \ {0}, NEW g \in Nat
  PROVE  /\ g = b * (g \div b) + (g % b)
         /\ g \div b \in Int /\ g % b \in 0 .. b - 1
  OBVIOUS

\* The remainder is unique.
LEMMA OneRemainder ==
  ASSUME NEW b \in Nat \ {0}, NEW q \in Int, NEW k \in Int,
         NEW n \in 0 .. b - 1, NEW m \in 0 .. b - 1, b * q + n = b * k + m
  PROVE  n = m
<1>1. b * (q - k) = m - n
  OBVIOUS
<1>2. CASE q - k >= 1
  <2>1. b * (q - k) >= b
    BY <1>2
  <2> QED  BY <1>1, <2>1
<1>3. CASE q - k <= -1
  <2>1. b * (q - k) <= -b
    BY <1>3
  <2> QED  BY <1>1, <2>1
<1> QED  BY <1>1, <1>2, <1>3

\* One more full block after full blocks
LEMMA OneMoreBlock ==
  ASSUME NEW b \in Nat \ {0}, NEW g \in Nat, g % b = 0
  PROVE  (g + b) % b = 0
<1> DEFINE q == g \div b
           h == g + b
           k == h \div b
           m == h % b
<1>1. g = b * q /\ q \in Int
  BY Division
<1>2. h \in Nat
  OBVIOUS
<1>3. h = b * k + m /\ k \in Int /\ m \in 0 .. b - 1
  <2> HIDE DEF h
  <2> QED  BY <1>2, Division
<1>4. b * (q + 1) + 0 = b * k + m
  BY <1>1, <1>3
<1> HIDE DEF q, k, m
<1>5. m = 0
  BY <1>1, <1>3, <1>4, OneRemainder
<1> QED  BY <1>5 DEF m

\* Less than a block after full blocks
LEMMA PartOfBlock ==
  ASSUME NEW b \in Nat \ {0}, NEW g \in Nat, g % b = 0, NEW n \in 1 .. b - 1
  PROVE  (g + n) % b # 0
<1> DEFINE q == g \div b
           h == g + n
           k == h \div b
           m == h % b
<1>1. g = b * q /\ q \in Int
  BY Division
<1>2. h \in Nat
  OBVIOUS
<1>3. h = b * k + m /\ k \in Int /\ m \in 0 .. b - 1
  <2> HIDE DEF h
  <2> QED  BY <1>2, Division
<1>4. b * q + n = b * k + m /\ n \in 0 .. b - 1
  BY <1>1, <1>3
<1> HIDE DEF q, k, m
<1>5. m = n
  BY <1>1, <1>3, <1>4, OneRemainder
<1> QED  BY <1>5 DEF m

\* An element of a sequence
LEMMA ElementOf ==
  ASSUME NEW S, NEW s \in Seq(S), NEW i \in DOMAIN s
  PROVE  s[i] \in S
  OBVIOUS

-----------------------------------------------------------------------------
(* How the set of tasks in certain states changes *)

\* The record of a task
LEMMA TaskType ==
  ASSUME TypeOK, NEW i \in DOMAIN task
  PROVE  task[i] \in [req : Request, state : State, got : Nat]
  BY ElementOf DEF TypeOK

\* Such a set is finite.
LEMMA WithFinite ==
  ASSUME TypeOK, NEW states
  PROVE  IsFiniteSet(With(states)) /\ With(states) \subseteq 1 .. Len(task)
<1>1. With(states) \subseteq 1 .. Len(task) /\ Len(task) \in Int
  BY DEF With, TypeOK
<1>2. IsFiniteSet(1 .. Len(task))
  BY <1>1, FS_Interval
<1> QED  BY <1>1, <1>2, FS_Subset

\* The sequence of tasks with one more task
LEMMA AppendedTask ==
  ASSUME TypeOK, NEW r \in Request, NEW state \in State,
         task' = Append(task, Task(r, state, 0))
  PROVE  /\ Len(task) \in Nat /\ Len(task') = Len(task) + 1
         /\ DOMAIN task = 1 .. Len(task) /\ DOMAIN task' = 1 .. Len(task) + 1
         /\ \A i \in DOMAIN task : task'[i] = task[i]
         /\ task'[Len(task) + 1] = [req |-> r, state |-> state, got |-> 0]
         /\ task' \in Seq([req : Request, state : State, got : Nat])
<1>1. task \in Seq([req : Request, state : State, got : Nat])
  BY DEF TypeOK
<1> DEFINE t == [req |-> r, state |-> state, got |-> 0]
<1>2. t \in [req : Request, state : State, got : Nat] /\ task' = Append(task, t)
  BY DEF Task
<1> HIDE DEF t
<1>3. /\ Len(task) \in Nat /\ Len(task') = Len(task) + 1
      /\ DOMAIN task = 1 .. Len(task) /\ DOMAIN task' = 1 .. Len(task) + 1
      /\ \A i \in DOMAIN task : task'[i] = task[i]
      /\ task'[Len(task) + 1] = t
      /\ task' \in Seq([req : Request, state : State, got : Nat])
  BY <1>1, <1>2
<1> QED  BY <1>3 DEF t

\* A new task joins the sets of its state.
LEMMA AppendedWith ==
  ASSUME TypeOK, NEW states, NEW r \in Request, NEW state \in State,
         task' = Append(task, Task(r, state, 0))
  PROVE  /\ state \in states =>
              /\ With(states)' = With(states) \cup {Len(task) + 1}
              /\ Cardinality(With(states)') = Cardinality(With(states)) + 1
         /\ state \notin states => With(states)' = With(states)
         /\ Cardinality(With(states)) \in Nat
<1>1. /\ DOMAIN task = 1 .. Len(task) /\ DOMAIN task' = 1 .. Len(task) + 1
      /\ Len(task) \in Nat
      /\ \A i \in DOMAIN task : task'[i] = task[i]
      /\ task'[Len(task) + 1].state = state
  <2>1. task'[Len(task) + 1] = [req |-> r, state |-> state, got |-> 0]
    BY AppendedTask
  <2> QED  BY <2>1, AppendedTask
<1>2. CASE state \in states
  <2>1. With(states)' = With(states) \cup {Len(task) + 1}
    BY <1>1, <1>2 DEF With
  <2>2. Len(task) + 1 \notin With(states)
    BY <1>1 DEF With
  <2>3. Cardinality(With(states) \cup {Len(task) + 1}) = Cardinality(With(states)) + 1
    BY <2>2, WithFinite, FS_AddElement
  <2> QED  BY <1>2, <2>1, <2>3, WithFinite, FS_CardinalityType
<1>3. CASE state \notin states
  <2>1. With(states)' = With(states)
    BY <1>1, <1>3 DEF With
  <2> QED  BY <1>3, <2>1, WithFinite, FS_CardinalityType
<1> QED  BY <1>2, <1>3

\* A task that goes on stays in the sets that hold its old and its new state.
LEMMA Changed ==
  ASSUME NEW i \in DOMAIN task, NEW states,
         DOMAIN task' = DOMAIN task,
         \A j \in DOMAIN task : j # i => task'[j] = task[j],
         task[i].state \in states <=> task'[i].state \in states
  PROVE  With(states)' = With(states)
  BY DEF With

-----------------------------------------------------------------------------
(* A packet that is dropped *)

\* Dropping a packet keeps the invariant: it touches no other figure.
LEMMA DropInv ==
  ASSUME ProxyInv, NEW r \in Request, Drop(r)
  PROVE  ProxyInv'
<1> DEFINE n == Len(task) + 1
<1>0. /\ TypeOK /\ "dropped" \in State
      /\ task' = Append(task, Task(r, "dropped", 0))
  BY DEF ProxyInv, State, Drop
<1>1. /\ Len(task) \in Nat /\ Len(task') = n
      /\ DOMAIN task = 1 .. Len(task) /\ DOMAIN task' = 1 .. n
      /\ \A i \in DOMAIN task : task'[i] = task[i]
      /\ task'[n] = [req |-> r, state |-> "dropped", got |-> 0]
      /\ task' \in Seq([req : Request, state : State, got : Nat])
  BY <1>0, AppendedTask
<1>2. /\ With(State \ {"dropped"})' = With(State \ {"dropped"})
      /\ Cardinality(With({"dropped", "failed"})') = Cardinality(With({"dropped", "failed"})) + 1
      /\ With({"failed"})' = With({"failed"})
  <2>1. "dropped" \notin State \ {"dropped"} /\ "dropped" \notin {"failed"}
        /\ "dropped" \in {"dropped", "failed"}
    OBVIOUS
  <2> HIDE DEF n
  <2>2. With(State \ {"dropped"})' = With(State \ {"dropped"})
    BY <1>0, <2>1, AppendedWith
  <2>3. Cardinality(With({"dropped", "failed"})') = Cardinality(With({"dropped", "failed"})) + 1
    BY <1>0, <2>1, AppendedWith
  <2>4. With({"failed"})' = With({"failed"})
    BY <1>0, <2>1, AppendedWith
  <2> QED  BY <2>2, <2>3, <2>4
<1>3. TypeOK'
  BY <1>0, <1>1, SMTT(30) DEF TypeOK, Drop, Packet, Rest
<1>4. BooksBalance'
  <2>1. received' = received + 1 /\ dropped' = dropped + 1 /\ decrypted' = decrypted
    BY DEF Drop, Packet
  <2>2. received \in Nat /\ dropped \in Nat /\ decrypted \in Nat
    BY DEF ProxyInv, TypeOK
  <2> QED  BY <1>1, <1>2, <2>1, <2>2 DEF ProxyInv, BooksBalance, Decrypted
<1>5. /\ UNCHANGED <<keysSeen, log>> /\ Decrypted' = Decrypted
      /\ \A i \in Decrypted : task'[i] = task[i] /\ i \in DOMAIN task
  BY <1>1, <1>2 DEF Drop, Decrypted, With
<1>6. LogIsNewest'
  BY <1>5 DEF ProxyInv, LogIsNewest, DecryptedAfter
<1>7. DistinctKeys' = DistinctKeys /\ KnownKeys' = KnownKeys
  BY <1>5 DEF DistinctKeys, KnownKeys
<1>8. KeysInv'
  BY <1>5, <1>7 DEF ProxyInv, KeysInv, DecryptedAfter
<1>9. WholeBlocks'
  BY <1>1, SMTT(30) DEF ProxyInv, WholeBlocks
<1>10. CutWithinBlock'
  <2> SUFFICES ASSUME NEW i \in DOMAIN task', task'[i].state \in {"answered", "lost"}
               PROVE  i \in DOMAIN task /\ task'[i] = task[i]
    BY DEF ProxyInv, CutWithinBlock, Rest
  <2> QED  BY <1>1
<1> QED  BY <1>3, <1>4, <1>6, <1>8, <1>9, <1>10 DEF ProxyInv
-----------------------------------------------------------------------------
(* A packet that is decrypted *)

\* The new task is the latest of those that decrypted their request.
LEMMA DecryptedGrows ==
  ASSUME TypeOK, NEW r \in Request, NEW state \in State, state # "dropped",
         task' = Append(task, Task(r, state, 0)),
         NEW n, n = Len(task) + 1
  PROVE  /\ n \notin Decrypted /\ Decrypted' = Decrypted \cup {n}
         /\ Cardinality(Decrypted) \in Nat
         /\ Cardinality(Decrypted') = Cardinality(Decrypted) + 1
         /\ task'[n].req = r
         /\ DecryptedAfter(n)' = {}
         /\ \A i \in Decrypted :
              /\ task'[i] = task[i]
              /\ DecryptedAfter(i)' = DecryptedAfter(i) \cup {n}
              /\ Cardinality(DecryptedAfter(i)) \in Nat
              /\ Cardinality(DecryptedAfter(i)) < Cardinality(Decrypted)
              /\ Cardinality(DecryptedAfter(i)') = Cardinality(DecryptedAfter(i)) + 1
<1>1. /\ DOMAIN task = 1 .. Len(task) /\ Len(task) \in Nat
      /\ \A i \in DOMAIN task : task'[i] = task[i]
  BY AppendedTask
<1>2. task'[n].req = r
  <2>1. task'[n] = [req |-> r, state |-> state, got |-> 0]
    BY AppendedTask
  <2> QED  BY <2>1
<1>3. /\ IsFiniteSet(Decrypted) /\ Decrypted \subseteq 1 .. Len(task)
      /\ Cardinality(Decrypted) \in Nat
  BY WithFinite, FS_CardinalityType DEF Decrypted
<1>4. /\ Decrypted' = Decrypted \cup {n}
      /\ Cardinality(Decrypted') = Cardinality(Decrypted) + 1
  <2>1. state \in State \ {"dropped"}
    OBVIOUS
  <2> QED  BY <2>1, AppendedWith DEF Decrypted
<1>5. n \in Nat /\ \A i \in Decrypted : i \in Nat /\ i < n
  BY <1>1, <1>3
<1>6. DecryptedAfter(n)' = {}
  BY <1>4, <1>5 DEF DecryptedAfter
<1>7. ASSUME NEW i \in Decrypted
      PROVE  /\ task'[i] = task[i]
             /\ DecryptedAfter(i)' = DecryptedAfter(i) \cup {n}
             /\ Cardinality(DecryptedAfter(i)) \in Nat
             /\ Cardinality(DecryptedAfter(i)) < Cardinality(Decrypted)
             /\ Cardinality(DecryptedAfter(i)') = Cardinality(DecryptedAfter(i)) + 1
  <2> DEFINE A == DecryptedAfter(i)
  <2>1. A' = A \cup {n} /\ A \subseteq Decrypted /\ i \notin A /\ n \notin A
    BY <1>4, <1>5 DEF DecryptedAfter
  <2> HIDE DEF A
  <2>2. /\ IsFiniteSet(A) /\ Cardinality(A) \in Nat
        /\ Cardinality(A) <= Cardinality(Decrypted)
        /\ Cardinality(A) = Cardinality(Decrypted) => A = Decrypted
    BY <1>3, <2>1, FS_Subset, FS_CardinalityType
  <2>3. Cardinality(A) < Cardinality(Decrypted)
    BY <1>3, <1>7, <2>1, <2>2
  <2>4. Cardinality(A \cup {n}) = Cardinality(A) + 1
    BY <2>1, <2>2, FS_AddElement
  <2>5. task'[i] = task[i]
    BY <1>1, <1>3
  <2> QED  BY <2>1, <2>2, <2>3, <2>4, <2>5 DEF A
<1>8. n \notin Decrypted
  BY <1>5
<1> QED  BY <1>2, <1>3, <1>4, <1>6, <1>7, <1>8

\* The line of the new request goes on top, and the oldest one may go.
LEMMA LogAfterDecrypt ==
  ASSUME TypeOK, LogIsNewest, NEW r \in Request, NEW state \in State \ {"dropped"},
         Decrypt(r, state)
  PROVE  /\ log' \in Seq(Request) /\ Len(log') <= KeepLog
         /\ LogIsNewest'
<1> PICK n : n = Len(task) + 1
  OBVIOUS
<1> DEFINE s == <<r>> \o log
           c == Cardinality(Decrypted)
           l == Len(log)
           m == IF l + 1 < KeepLog THEN l + 1 ELSE KeepLog
<1>0. log \in Seq(Request) /\ l \in Nat /\ KeepLog \in Nat \ {0}
  BY DEF TypeOK
<1>1. s \in Seq(Request) /\ Len(s) = l + 1 /\ s[1] = r
      /\ \A k \in 1 .. l : s[k + 1] = log[k]
  BY <1>0
<1>2. log' = First(s, KeepLog)
  BY DEF Decrypt, LogRequest
<1> HIDE DEF s
<1>3. /\ m \in Nat /\ log' \in Seq(Request) /\ Len(log') = m
      /\ \A i \in 1 .. m : log'[i] = s[i]
  <2>1. m \in Nat /\ m = IF Len(s) < KeepLog THEN Len(s) ELSE KeepLog
    BY <1>0, <1>1
  <2> HIDE DEF m
  <2>2. /\ First(s, KeepLog) \in Seq(Request) /\ Len(First(s, KeepLog)) = m
        /\ \A i \in 1 .. m : First(s, KeepLog)[i] = s[i]
    <3>1. s \in Seq(Request)
      BY <1>1
    <3>2. KeepLog \in Nat \ {0}
      BY <1>0
    <3>3. m \in Nat
      BY <2>1
    <3>4. m = IF Len(s) < KeepLog THEN Len(s) ELSE KeepLog
      BY <2>1
    <3> QED  BY <3>1, <3>2, <3>3, <3>4, FirstOf
  <2> QED  BY <1>2, <2>1, <2>2
<1>4. /\ Decrypted' = Decrypted \cup {n} /\ n \notin Decrypted
      /\ c \in Nat /\ Cardinality(Decrypted') = c + 1
      /\ task'[n].req = r
      /\ DecryptedAfter(n)' = {}
      /\ \A i \in Decrypted :
           /\ task'[i] = task[i]
           /\ Cardinality(DecryptedAfter(i)) \in Nat
           /\ Cardinality(DecryptedAfter(i)) < c
           /\ Cardinality(DecryptedAfter(i)') = Cardinality(DecryptedAfter(i)) + 1
  <2>1. state \in State /\ state # "dropped" /\ task' = Append(task, Task(r, state, 0))
    BY DEF Decrypt
  <2> QED  BY <2>1, DecryptedGrows
<1>5. l = IF c < KeepLog THEN c ELSE KeepLog
  BY DEF LogIsNewest
<1> HIDE DEF c, l
<1>6. Len(log') = IF c + 1 < KeepLog THEN c + 1 ELSE KeepLog
  BY <1>0, <1>3, <1>4, <1>5
<1>7. ASSUME NEW i \in Decrypted', Cardinality(DecryptedAfter(i)') < KeepLog
      PROVE  log'[Cardinality(DecryptedAfter(i)') + 1] = task'[i].req
  <2>1. CASE i = n
    <3>1. Cardinality(DecryptedAfter(i)') = 0
      BY <1>4, <2>1, FS_EmptySet
    <3>2. 1 \in 1 .. m
      BY <1>0
    <3> QED  BY <1>1, <1>3, <1>4, <2>1, <3>1, <3>2
  <2>2. CASE i \in Decrypted
    <3> DEFINE a == Cardinality(DecryptedAfter(i))
    <3>1. /\ a \in Nat /\ a < c /\ Cardinality(DecryptedAfter(i)') = a + 1
          /\ task'[i] = task[i]
      BY <1>4, <2>2
    <3>2. a + 1 < KeepLog
      BY <1>7, <3>1
    <3>3. log[a + 1] = task[i].req
      BY <1>0, <2>2, <3>1, <3>2 DEF LogIsNewest
    <3> HIDE DEF a
    <3>4. a + 1 \in 1 .. l /\ (a + 1) + 1 \in 1 .. m
      BY <1>0, <1>4, <1>5, <3>1, <3>2
    <3>5. log'[(a + 1) + 1] = log[a + 1]
      BY <1>1, <1>3, <3>4, SMTT(30)
    <3> QED  BY <3>1, <3>3, <3>5
  <2> QED  BY <1>4, <2>1, <2>2
<1>8. LogIsNewest'
  BY <1>4, <1>6, <1>7 DEF LogIsNewest
<1>9. Len(log') <= KeepLog
  BY <1>0, <1>3
<1> QED  BY <1>3, <1>8, <1>9
\* A key seen before changes nothing; a new one is added, and the oldest may go.
LEMMA KeysAfterDecrypt ==
  ASSUME TypeOK, KeysInv, NEW r \in Request, NEW state \in State \ {"dropped"},
         Decrypt(r, state)
  PROVE  /\ keysSeen' \in Seq(Request) /\ Len(keysSeen') <= KeepKeys
         /\ KeysInv'
<1> PICK n : n = Len(task) + 1
  OBVIOUS
<1> DEFINE l == Len(keysSeen)
<1>0. /\ keysSeen \in Seq(Request) /\ l \in Nat /\ l <= KeepKeys /\ KeepKeys \in Nat
      /\ DOMAIN keysSeen = 1 .. l
  BY DEF TypeOK
<1>K. KeepKeys \in Nat \ {0}
  OBVIOUS
<1>1. /\ Decrypted' = Decrypted \cup {n}
      /\ task'[n].req = r
      /\ \A i \in Decrypted : task'[i] = task[i] /\ DecryptedAfter(i)' # {}
  <2>1. state \in State /\ state # "dropped" /\ task' = Append(task, Task(r, state, 0))
    BY DEF Decrypt
  <2>2. \A i \in Decrypted : DecryptedAfter(i)' = DecryptedAfter(i) \cup {n}
    BY <2>1, DecryptedGrows
  <2> QED  BY <2>1, <2>2, DecryptedGrows
<1>2. DistinctKeys' = DistinctKeys \cup {r}
  BY <1>1 DEF DistinctKeys
<1>3. SUFFICES /\ keysSeen' \in Seq(Request) /\ Len(keysSeen') <= KeepKeys
               /\ \A i, j \in DOMAIN keysSeen' : keysSeen'[i] = keysSeen'[j] => i = j
               /\ KnownKeys' \subseteq DistinctKeys'
               /\ Len(keysSeen') < KeepKeys => KnownKeys' = DistinctKeys'
               /\ r \in KnownKeys'
  BY <1>1 DEF KeysInv
<1>4. CASE r \in KnownKeys
  <2>1. keysSeen' = Last(keysSeen, KeepKeys)
    BY <1>4 DEF Decrypt, NoteKey, KnownKeys
  <2>2. keysSeen' = keysSeen
    <3>1. Last(keysSeen, KeepKeys) = keysSeen
      BY <1>0, <1>K, LastOf
    <3> QED  BY <2>1, <3>1
  <2>5. KnownKeys' = KnownKeys
    BY <2>2 DEF KnownKeys
  <2>6. DistinctKeys' = DistinctKeys
    BY <1>2, <1>4 DEF KeysInv
  <2> QED  BY <1>0, <1>4, <2>2, <2>5, <2>6 DEF KeysInv
<1>5. CASE r \notin KnownKeys
  <2> DEFINE s == Append(keysSeen, r)
             m == IF l + 1 < KeepKeys THEN l + 1 ELSE KeepKeys
             off == (l + 1) - m
  <2>1. keysSeen' = Last(s, KeepKeys)
    BY <1>5 DEF Decrypt, NoteKey, KnownKeys
  <2>2. /\ s \in Seq(Request) /\ Len(s) = l + 1 /\ s[l + 1] = r
        /\ \A i \in 1 .. l : s[i] = keysSeen[i]
    BY <1>0
  <2>3. /\ m \in Nat /\ off \in Nat /\ 1 <= m /\ m <= KeepKeys /\ off + m = l + 1
        /\ m < KeepKeys => off = 0 /\ l < KeepKeys
    BY <1>0, <1>K
  <2>4. /\ keysSeen' \in Seq(Request) /\ Len(keysSeen') = m
        /\ \A i \in 1 .. m : keysSeen'[i] = s[off + i]
    <3>0. s \in Seq(Request)
      BY <2>2
    <3>1. CASE l + 1 <= KeepKeys
      <4>1. keysSeen' = s
        <5> HIDE DEF s
        <5> QED  BY <1>K, <2>1, <2>2, <3>0, <3>1, LastOf
      <4>2. m = l + 1 /\ off = 0
        BY <1>0, <3>1
      <4> HIDE DEF s, m, off
      <4>3. \A i \in 1 .. m : off + i = i
        BY <2>3, <4>2
      <4> QED  BY <2>2, <4>1, <4>2, <4>3
    <3>2. CASE l = KeepKeys
      <4>1. Len(s) = KeepKeys + 1
        BY <2>2, <3>2
      <4>2. m = KeepKeys /\ off = 1
        BY <1>0, <3>2
      <4> HIDE DEF s, m, off
      <4>3. /\ keysSeen' \in Seq(Request) /\ Len(keysSeen') = KeepKeys
            /\ \A i \in 1 .. KeepKeys : keysSeen'[i] = s[i + 1]
        <5>1. /\ Last(s, KeepKeys) \in Seq(Request) /\ Len(Last(s, KeepKeys)) = KeepKeys
              /\ \A i \in 1 .. KeepKeys : Last(s, KeepKeys)[i] = s[i + 1]
          BY <1>K, <3>0, <4>1, LastOf
        <5> QED  BY <2>1, <5>1
      <4>4. \A i \in 1 .. m : i + 1 = off + i
        BY <4>2
      <4> QED  BY <4>2, <4>3, <4>4
    <3>3. l + 1 <= KeepKeys \/ l = KeepKeys
      <4> HIDE DEF l
      <4> QED  BY <1>0
    <3> HIDE DEF s, m, off
    <3> QED  BY <3>1, <3>2, <3>3
  <2> HIDE DEF s, m
  <2>5. /\ DOMAIN keysSeen' = 1 .. m
        /\ \A i \in 1 .. m : keysSeen'[i] = s[off + i]
    BY <2>3, <2>4
  <2> HIDE DEF off
  <2>6. \A i \in 1 .. m : off + i \in 1 .. l + 1
    BY <1>0, <2>3
  <2>7. \A i, j \in 1 .. l + 1 : s[i] = s[j] => i = j
    <3>1. \A i \in 1 .. l : s[i] # r
      BY <1>0, <1>5, <2>2 DEF KnownKeys
    <3>2. \A i \in 1 .. l + 1 : i \in 1 .. l \/ i = l + 1
      BY <1>0
    <3> QED  BY <1>0, <2>2, <3>1, <3>2 DEF KeysInv
  <2>8. \A i, j \in 1 .. m : keysSeen'[i] = keysSeen'[j] => i = j
    <3> SUFFICES ASSUME NEW i \in 1 .. m, NEW j \in 1 .. m, keysSeen'[i] = keysSeen'[j]
                 PROVE  i = j
      OBVIOUS
    <3>1. off + i = off + j
      BY <2>5, <2>6, <2>7
    <3> QED  BY <2>3, <3>1
  <2>9. {s[i] : i \in 1 .. l + 1} = KnownKeys \cup {r}
    <3>1. KnownKeys = {s[i] : i \in 1 .. l}
      BY <1>0, <2>2 DEF KnownKeys
    <3> HIDE DEF l
    <3>2. 1 .. l + 1 = (1 .. l) \cup {l + 1}
      BY <1>0
    <3>3. {s[i] : i \in (1 .. l) \cup {l + 1}} = {s[i] : i \in 1 .. l} \cup {s[l + 1]}
      OBVIOUS
    <3> QED  BY <2>2, <3>1, <3>2, <3>3
  <2>10. KnownKeys' = {s[off + i] : i \in 1 .. m}
    BY <2>5 DEF KnownKeys
  <2>11. KnownKeys' \subseteq KnownKeys \cup {r}
    BY <2>6, <2>9, <2>10
  <2>12. r \in KnownKeys'
    <3>1. m \in 1 .. m
      BY <2>3
    <3> QED  BY <2>2, <2>3, <2>10, <3>1
  <2>13. ASSUME m < KeepKeys
         PROVE  KnownKeys' = KnownKeys \cup {r} /\ l < KeepKeys
    <3>1. off = 0 /\ m = l + 1 /\ l < KeepKeys
      BY <1>0, <2>3, <2>13
    <3>2. \A i \in 1 .. m : off + i = i
      BY <3>1
    <3>3. KnownKeys' = {s[i] : i \in 1 .. l + 1}
      BY <2>10, <3>1, <3>2
    <3> QED  BY <2>9, <3>1, <3>3
  <2>14. Len(keysSeen') < KeepKeys => KnownKeys' = DistinctKeys'
    BY <1>2, <2>4, <2>13 DEF KeysInv
  <2>15. KnownKeys' \subseteq DistinctKeys'
    BY <1>2, <2>11 DEF KeysInv
  <2>16. Len(keysSeen') <= KeepKeys
    BY <2>3, <2>4
  <2> QED  BY <2>4, <2>5, <2>8, <2>12, <2>14, <2>15, <2>16
<1> QED  BY <1>4, <1>5

\* A list without repetitions, which holds all keys while it is short, has the
\* length that the dashboard promises.
LEMMA KeysAreCounted == TypeOK /\ KeysInv => ActiveSessions
<1> SUFFICES ASSUME TypeOK, KeysInv PROVE ActiveSessions
  OBVIOUS
<1> DEFINE l == Len(keysSeen)
<1>0. /\ l \in Nat /\ l <= KeepKeys /\ KeepKeys \in Nat
      /\ DOMAIN keysSeen = 1 .. l
  BY DEF TypeOK
<1>1. Cardinality(KnownKeys) = l
  <2>0. IsFiniteSet(1 .. l) /\ Cardinality(1 .. l) = l
    <3> HIDE DEF l
    <3>1. 1 \in Int /\ l \in Int /\ (1 > l => l = 0)
      BY <1>0
    <3> QED  BY <1>0, <3>1, FS_Interval
  <2> DEFINE f == [i \in 1 .. l |-> keysSeen[i]]
  <2>1. f \in Bijection(1 .. l, KnownKeys)
    BY <1>0 DEF Bijection, Injection, Surjection, IsInjective, KnownKeys, KeysInv
  <2>2. ExistsBijection(1 .. l, KnownKeys)
    BY <2>1 DEF ExistsBijection
  <2> QED  BY <2>0, <2>2, FS_Bijection
<1>2. IsFiniteSet(DistinctKeys)
  <2> DEFINE g == [i \in Decrypted |-> task[i].req]
  <2>1. g \in Surjection(Decrypted, DistinctKeys)
    BY DEF Surjection, DistinctKeys
  <2>2. IsFiniteSet(Decrypted)
    BY WithFinite DEF Decrypted
  <2> QED  BY <2>1, <2>2, FS_Surjection
<1>3. Cardinality(KnownKeys) <= Cardinality(DistinctKeys) /\ Cardinality(DistinctKeys) \in Nat
  BY <1>2, FS_Subset, FS_CardinalityType DEF KeysInv
<1>4. l = IF Cardinality(DistinctKeys) < KeepKeys THEN Cardinality(DistinctKeys) ELSE KeepKeys
  <2>0. l < KeepKeys => Cardinality(DistinctKeys) = l
    BY <1>1 DEF KeysInv
  <2> HIDE DEF l
  <2>1. CASE l < KeepKeys
    BY <2>0, <2>1
  <2>2. CASE l = KeepKeys
    BY <1>0, <1>1, <1>3, <2>2
  <2> QED  BY <1>0, <2>1, <2>2
<1> QED  BY <1>1, <1>4 DEF ActiveSessions, KeysInv
\* A packet that is decrypted keeps the invariant, whatever becomes of its task.
LEMMA DecryptInv ==
  ASSUME ProxyInv, NEW r \in Request, NEW state \in State \ {"dropped"}, Decrypt(r, state),
         dropped' = dropped + (IF state = "failed" THEN 1 ELSE 0),
         state \in {"answered", "lost"} => r \notin Forwarded
  PROVE  ProxyInv'
<1> PICK n : n = Len(task) + 1
  OBVIOUS
<1>0. /\ TypeOK /\ state \in State /\ state # "dropped"
      /\ task' = Append(task, Task(r, state, 0))
  BY DEF ProxyInv, Decrypt
<1>1. /\ Len(task) \in Nat /\ Len(task') = n
      /\ DOMAIN task = 1 .. Len(task) /\ DOMAIN task' = 1 .. n
      /\ \A i \in DOMAIN task : task'[i] = task[i]
      /\ task'[n] = [req |-> r, state |-> state, got |-> 0]
      /\ task' \in Seq([req : Request, state : State, got : Nat])
  BY <1>0, AppendedTask
<1>2. /\ received' = received + 1 /\ received < MaxPackets /\ decrypted' = decrypted + 1
      /\ received \in 0 .. MaxPackets /\ MaxPackets \in Nat
      /\ dropped \in Nat /\ decrypted \in Nat
  BY DEF ProxyInv, TypeOK, Decrypt, Packet
<1>3. /\ log' \in Seq(Request) /\ Len(log') <= KeepLog /\ LogIsNewest'
  BY LogAfterDecrypt DEF ProxyInv
<1>4. /\ keysSeen' \in Seq(Request) /\ Len(keysSeen') <= KeepKeys /\ KeysInv'
  BY KeysAfterDecrypt DEF ProxyInv
<1>5. \A i \in DOMAIN task' :
        \/ i \in DOMAIN task /\ task'[i] = task[i]
        \/ i = n
  BY <1>1
<1>6. \A i \in DOMAIN task' : Rest(i)' >= 0
  <2> SUFFICES ASSUME NEW i \in DOMAIN task' PROVE SizeOf[task'[i].req] - task'[i].got >= 0
    BY DEF Rest
  <2>1. CASE i \in DOMAIN task /\ task'[i] = task[i]
    BY <1>0, <2>1 DEF TypeOK, Rest
  <2>2. CASE i = n
    <3>1. task'[i].req = r /\ task'[i].got = 0 /\ SizeOf[r] \in Nat
      BY <1>1, <2>2
    <3> QED  BY <3>1
  <2> QED  BY <1>5, <2>1, <2>2
<1>7. TypeOK'
  <2>1. received' \in 0 .. MaxPackets /\ decrypted' \in Nat /\ dropped' \in Nat
    <3>1. dropped' = dropped \/ dropped' = dropped + 1
      BY <1>2
    <3> QED  BY <1>2, <3>1
  <2> QED  BY <1>1, <1>3, <1>4, <1>6, <2>1 DEF TypeOK
<1>8. BooksBalance'
  <2> DEFINE d == Cardinality(With({"dropped", "failed"}))
             f == Cardinality(With({"failed"}))
             one == IF state = "failed" THEN 1 ELSE 0
  <2>1. /\ Cardinality(Decrypted') = Cardinality(Decrypted) + 1
        /\ Cardinality(Decrypted) \in Nat
    BY <1>0, DecryptedGrows
  <2>2. d' = d + one /\ f' = f + one /\ d \in Nat /\ f \in Nat
    <3>1. CASE state = "failed"
      <4>1. state \in {"dropped", "failed"} /\ state \in {"failed"} /\ one = 1
        BY <3>1
      <4>2. d' = d + 1 /\ d \in Nat
        BY <1>0, <4>1, AppendedWith
      <4>3. f' = f + 1 /\ f \in Nat
        BY <1>0, <4>1, AppendedWith
      <4> QED  BY <4>1, <4>2, <4>3
    <3>2. CASE state # "failed"
      <4>1. state \notin {"dropped", "failed"} /\ state \notin {"failed"} /\ one = 0
        BY <1>0, <3>2
      <4>2. d' = d /\ d \in Nat
        BY <1>0, <4>1, AppendedWith
      <4>3. f' = f /\ f \in Nat
        BY <1>0, <4>1, AppendedWith
      <4> QED  BY <4>1, <4>2, <4>3
    <3> QED  BY <3>1, <3>2
  <2>3. /\ received = Len(task) /\ dropped = d /\ decrypted = Cardinality(Decrypted)
        /\ decrypted + dropped - received = f
    BY DEF ProxyInv, BooksBalance
  <2>4. dropped' = dropped + one /\ one \in Nat
    OBVIOUS
  <2> HIDE DEF one, d, f
  <2>5. /\ received' = Len(task') /\ dropped' = d' /\ decrypted' = Cardinality(Decrypted')
        /\ decrypted' + dropped' - received' = f'
    BY <1>1, <1>2, <2>1, <2>2, <2>3, <2>4, SMTT(30)
  <2> QED  BY <2>5 DEF BooksBalance, d, f
<1>9. WholeBlocks'
  <2> SUFFICES ASSUME NEW i \in DOMAIN task', task'[i].state \in {"opening", "reading"}
               PROVE  task'[i].got % Block = 0
    BY DEF WholeBlocks
  <2>1. CASE i \in DOMAIN task /\ task'[i] = task[i]
    BY <2>1 DEF ProxyInv, WholeBlocks
  <2>2. CASE i = n
    <3>1. task'[i].got = 0 /\ Block \in Nat \ {0}
      BY <1>1, <2>2
    <3> QED  BY <3>1
  <2> QED  BY <1>5, <2>1, <2>2
<1>10. CutWithinBlock'
  <2> SUFFICES ASSUME NEW i \in DOMAIN task', task'[i].req \in Forwarded,
                      task'[i].state \in {"answered", "lost"},
                      SizeOf[task'[i].req] - task'[i].got > 0
               PROVE  task'[i].got % Block # 0
    BY DEF CutWithinBlock, Rest
  <2>1. CASE i \in DOMAIN task /\ task'[i] = task[i]
    BY <2>1 DEF ProxyInv, CutWithinBlock, Rest
  <2>2. CASE i = n
    <3>1. task'[i].req = r /\ task'[i].state = state
      BY <1>1, <2>2
    <3> QED  BY <3>1
  <2> QED  BY <1>5, <2>1, <2>2
<1> QED  BY <1>3, <1>4, <1>7, <1>8, <1>9, <1>10 DEF ProxyInv

-----------------------------------------------------------------------------
(* A task that goes on *)

\* A task that goes on changes none of the figures.  What it needs to keep is
\* that a task which reads on has read full blocks.
LEMMA TaskInv ==
  ASSUME ProxyInv, NEW i \in DOMAIN task, Waiting(i), UNCHANGED stats,
         NEW state \in State, state \notin {"dropped", "failed"}, NEW got \in Nat,
         task' = [task EXCEPT ![i] = [req |-> task[i].req, state |-> state, got |-> got]],
         SizeOf[task[i].req] - got >= 0,
         state \in {"opening", "reading"} => got % Block = 0,
         state \in {"answered", "lost"} /\ SizeOf[task[i].req] - got > 0 => got % Block # 0
  PROVE  ProxyInv'
<1> DEFINE t == [req |-> task[i].req, state |-> state, got |-> got]
<1>0. TypeOK /\ task \in Seq([req : Request, state : State, got : Nat])
  BY DEF ProxyInv, TypeOK
<1>1. t \in [req : Request, state : State, got : Nat]
  <2>1. task[i] \in [req : Request, state : State, got : Nat]
    BY <1>0, TaskType
  <2>2. task[i].req \in Request
    BY <2>1
  <2> QED  BY <2>2
<1>2. /\ DOMAIN task' = DOMAIN task /\ Len(task') = Len(task)
      /\ task'[i] = t
      /\ \A j \in DOMAIN task : j # i => task'[j] = task[j]
      /\ \A j \in DOMAIN task : task'[j].req = task[j].req
      /\ task' \in Seq([req : Request, state : State, got : Nat])
  <2>1. t.req = task[i].req
    OBVIOUS
  <2> HIDE DEF t
  <2>2. task' = [task EXCEPT ![i] = t]
    BY DEF t
  <2> QED  BY <1>0, <1>1, <2>1, <2>2
<1>3. /\ With({"dropped", "failed"})' = With({"dropped", "failed"})
      /\ With({"failed"})' = With({"failed"})
      /\ With(State \ {"dropped"})' = With(State \ {"dropped"})
  <2>1. /\ task[i].state \in {"opening", "reading"}
        /\ task[i].state \in State
        /\ task'[i].state = state
    <3>1. task[i] \in [req : Request, state : State, got : Nat]
      BY <1>0, TaskType
    <3> QED  BY <1>2, <3>1 DEF Waiting
  <2>2. With({"dropped", "failed"})' = With({"dropped", "failed"})
    BY <1>2, <2>1, Changed
  <2>3. With({"failed"})' = With({"failed"})
    BY <1>2, <2>1, Changed
  <2>4. With(State \ {"dropped"})' = With(State \ {"dropped"})
    <3>1. task[i].state \in State \ {"dropped"} /\ task'[i].state \in State \ {"dropped"}
      BY <2>1
    <3> QED  BY <1>2, <3>1, Changed
  <2> QED  BY <2>2, <2>3, <2>4
<1>4. /\ UNCHANGED <<received, decrypted, dropped, keysSeen, log>>
      /\ Decrypted' = Decrypted /\ Decrypted \subseteq DOMAIN task
  BY <1>3 DEF stats, Decrypted, With
<1>5. TypeOK'
  <2>1. \A j \in DOMAIN task' : Rest(j)' >= 0
    BY <1>0, <1>2 DEF TypeOK, Rest
  <2> QED  BY <1>0, <1>2, <1>4, <2>1 DEF TypeOK
<1>6. BooksBalance'
  BY <1>2, <1>3, <1>4 DEF ProxyInv, BooksBalance
<1>7. LogIsNewest'
  BY <1>2, <1>4 DEF ProxyInv, LogIsNewest, DecryptedAfter
<1>8. KeysInv'
  <2>1. DistinctKeys' = DistinctKeys /\ KnownKeys' = KnownKeys
    <3>1. \A j \in Decrypted : task'[j].req = task[j].req
      BY <1>2, <1>4
    <3>2. DistinctKeys' = DistinctKeys
      BY <1>4, <3>1 DEF DistinctKeys
    <3> QED  BY <1>4, <3>2 DEF KnownKeys
  <2> QED  BY <1>2, <1>4, <2>1 DEF ProxyInv, KeysInv, DecryptedAfter
<1>9. WholeBlocks'
  <2> SUFFICES ASSUME NEW j \in DOMAIN task, task'[j].state \in {"opening", "reading"}
               PROVE  task'[j].got % Block = 0
    BY <1>2 DEF WholeBlocks
  <2>1. CASE j = i
    BY <1>2, <2>1
  <2>2. CASE j # i
    BY <1>2, <2>2 DEF ProxyInv, WholeBlocks
  <2> QED  BY <2>1, <2>2
<1>10. CutWithinBlock'
  <2> SUFFICES ASSUME NEW j \in DOMAIN task, task'[j].req \in Forwarded,
                      task'[j].state \in {"answered", "lost"},
                      SizeOf[task'[j].req] - task'[j].got > 0
               PROVE  task'[j].got % Block # 0
    BY <1>2 DEF CutWithinBlock, Rest
  <2>1. CASE j = i
    BY <1>2, <2>1
  <2>2. CASE j # i
    BY <1>2, <2>2 DEF ProxyInv, CutWithinBlock, Rest
  <2> QED  BY <2>1, <2>2
<1> QED  BY <1>5, <1>6, <1>7, <1>8, <1>9, <1>10 DEF ProxyInv
\* A task that waits for the web server: its record, and what it still misses
LEMMA WaitingTask ==
  ASSUME ProxyInv, NEW i \in DOMAIN task, Waiting(i)
  PROVE  /\ task[i] = [req |-> task[i].req, state |-> task[i].state, got |-> task[i].got]
         /\ task[i].req \in Request /\ task[i].got \in Nat
         /\ SizeOf[task[i].req] \in Nat /\ Rest(i) >= 0
         /\ task[i].got % Block = 0
<1>1. task[i] \in [req : Request, state : State, got : Nat]
  BY TaskType DEF ProxyInv
<1>2. /\ task[i] = [req |-> task[i].req, state |-> task[i].state, got |-> task[i].got]
      /\ task[i].req \in Request /\ task[i].got \in Nat
  BY <1>1
<1>3. SizeOf[task[i].req] \in Nat
  BY <1>2
<1>4. Rest(i) >= 0 /\ task[i].got % Block = 0
  BY DEF ProxyInv, TypeOK, WholeBlocks, Waiting
<1> QED  BY <1>2, <1>3, <1>4

\* The connection is open, or it failed: nothing more was read.
LEMMA StateInv ==
  ASSUME ProxyInv, NEW i \in DOMAIN task, Waiting(i), UNCHANGED stats,
         NEW state \in {"reading", "badGateway"},
         task' = [task EXCEPT ![i].state = state]
  PROVE  ProxyInv'
<1>1. /\ task[i] = [req |-> task[i].req, state |-> task[i].state, got |-> task[i].got]
      /\ task[i].got \in Nat /\ task[i].got % Block = 0
      /\ SizeOf[task[i].req] - task[i].got >= 0
  BY WaitingTask DEF Rest
<1> DEFINE g == task[i].got
<1>2. task' = [task EXCEPT ![i] = [req |-> task[i].req, state |-> state, got |-> g]]
  <2>1. [task[i] EXCEPT !.state = state] = [req |-> task[i].req, state |-> state, got |-> g]
    BY <1>1
  <2>2. task' = [task EXCEPT ![i] = [task[i] EXCEPT !.state = state]]
    OBVIOUS
  <2> QED  BY <2>1, <2>2
<1>3. state \in State /\ state \notin {"dropped", "failed", "answered", "lost"}
  BY DEF State
<1> QED  BY <1>1, <1>2, <1>3, TaskInv

\* A read keeps the invariant: the task reads on after a full block only.
LEMMA ReadInv ==
  ASSUME ProxyInv, NEW i \in DOMAIN task, NEW n \in 1 .. Block, Read(i, n)
  PROVE  ProxyInv'
<1> DEFINE g == task[i].got + n
           state == StateAfter(i, n)
<1>0. Waiting(i) /\ UNCHANGED stats /\ n <= Rest(i) /\ n \in Nat /\ Block \in Nat \ {0}
  BY DEF Read, Waiting
<1>1. /\ task[i] = [req |-> task[i].req, state |-> task[i].state, got |-> task[i].got]
      /\ task[i].got \in Nat /\ task[i].got % Block = 0
      /\ SizeOf[task[i].req] \in Nat
  BY <1>0, WaitingTask
<1>2. task' = [task EXCEPT ![i] = [req |-> task[i].req, state |-> state, got |-> g]]
  <2>1. [task[i] EXCEPT !.got = g, !.state = state]
          = [req |-> task[i].req, state |-> state, got |-> g]
    <3> HIDE DEF g, state
    <3> DEFINE u == [req |-> task[i].req, state |-> task[i].state, got |-> g]
    <3>1. [task[i] EXCEPT !.got = g] = u
      BY <1>1
    <3>2. [u EXCEPT !.state = state] = [req |-> task[i].req, state |-> state, got |-> g]
      OBVIOUS
    <3>3. [task[i] EXCEPT !.got = g, !.state = state]
            = [[task[i] EXCEPT !.got = g] EXCEPT !.state = state]
      OBVIOUS
    <3> QED  BY <3>1, <3>2, <3>3
  <2>2. task' = [task EXCEPT ![i] = [task[i] EXCEPT !.got = g, !.state = state]]
    BY DEF Read
  <2> QED  BY <2>1, <2>2
<1>3. g \in Nat /\ SizeOf[task[i].req] - g >= 0
  BY <1>0, <1>1 DEF Rest
<1>4. /\ state \in State /\ state \notin {"dropped", "failed", "opening"}
      /\ state = "reading" <=> ~ n < Block
  BY DEF StateAfter, Short, Sent, State
<1>5. CASE n < Block
  <2>1. g % Block # 0
    BY <1>0, <1>1, <1>5, PartOfBlock
  <2> HIDE DEF g, state
  <2> QED  BY <1>0, <1>2, <1>3, <1>4, <1>5, <2>1, TaskInv
<1>6. CASE ~ n < Block
  <2>1. n = Block
    BY <1>0, <1>6
  <2>2. g % Block = 0
    BY <1>0, <1>1, <2>1, OneMoreBlock
  <2>3. state = "reading"
    BY <1>4, <1>6
  <2> HIDE DEF g, state
  <2> QED  BY <1>0, <1>2, <1>3, <1>4, <2>2, <2>3, TaskInv
<1> QED  BY <1>5, <1>6

\* The end of the connection keeps the invariant: nothing was missing.
LEMMA ReadEofInv ==
  ASSUME ProxyInv, NEW i \in DOMAIN task, ReadEof(i)
  PROVE  ProxyInv'
<1> DEFINE g == task[i].got
           state == StateAfter(i, 0)
<1>0. Waiting(i) /\ UNCHANGED stats /\ Rest(i) = 0
  BY DEF ReadEof, Waiting
<1>1. /\ task[i] = [req |-> task[i].req, state |-> task[i].state, got |-> g]
      /\ g \in Nat /\ SizeOf[task[i].req] \in Nat
  BY <1>0, WaitingTask
<1>2. task' = [task EXCEPT ![i] = [req |-> task[i].req, state |-> state, got |-> g]]
  <2>1. [task[i] EXCEPT !.state = state] = [req |-> task[i].req, state |-> state, got |-> g]
    BY <1>1
  <2>2. task' = [task EXCEPT ![i] = [task[i] EXCEPT !.state = state]]
    BY DEF ReadEof
  <2> QED  BY <2>1, <2>2
<1>3. state \in State /\ state \in {"answered", "lost"}
  BY DEF StateAfter, Short, Sent, State
<1>4. SizeOf[task[i].req] - g = 0
  BY <1>0 DEF Rest
<1> HIDE DEF g, state
<1>5. SizeOf[task[i].req] - g >= 0 /\ ~ (SizeOf[task[i].req] - g > 0)
  BY <1>4
<1>6. state \notin {"dropped", "failed"} /\ state \notin {"opening", "reading"}
  BY <1>3
<1> QED  BY <1>0, <1>1, <1>2, <1>3, <1>5, <1>6, TaskInv

-----------------------------------------------------------------------------
(* The invariant and the theorems *)

\* Nothing has been received, nothing is shown.
LEMMA ProxyInitInv == Init => ProxyInv
<1> SUFFICES ASSUME Init PROVE ProxyInv
  OBVIOUS
<1>1. /\ received = 0 /\ decrypted = 0 /\ dropped = 0
      /\ keysSeen = <<>> /\ log = <<>> /\ task = <<>>
  BY DEF Init
<1>2. DOMAIN task = {} /\ DOMAIN keysSeen = {} /\ Len(task) = 0 /\ Len(keysSeen) = 0 /\ Len(log) = 0
  BY <1>1
<1>3. \A states : With(states) = {}
  BY <1>2 DEF With
<1>4. Cardinality({}) = 0
  BY FS_EmptySet
<1>5. TypeOK
  BY <1>1, <1>2 DEF TypeOK
<1>6. BooksBalance /\ LogIsNewest
  <2>1. Decrypted = {} /\ With({"dropped", "failed"}) = {} /\ With({"failed"}) = {}
    BY <1>3 DEF Decrypted
  <2>2. BooksBalance
    <3>1. /\ Cardinality(Decrypted) = 0
          /\ Cardinality(With({"dropped", "failed"})) = 0
          /\ Cardinality(With({"failed"})) = 0
      BY <1>4, <2>1
    <3>2. received = 0 /\ decrypted = 0 /\ dropped = 0 /\ Len(task) = 0
      BY <1>1, <1>2
    <3> QED  BY <3>1, <3>2 DEF BooksBalance
  <2>3. LogIsNewest
    <3>1. 0 < KeepLog
      OBVIOUS
    <3> QED  BY <1>2, <1>4, <2>1, <3>1 DEF LogIsNewest
  <2> QED  BY <2>2, <2>3
<1>7. KeysInv
  BY <1>2, <1>3 DEF KeysInv, Decrypted, DistinctKeys, KnownKeys
<1>8. WholeBlocks /\ CutWithinBlock
  BY <1>2 DEF WholeBlocks, CutWithinBlock
<1> QED  BY <1>5, <1>6, <1>7, <1>8 DEF ProxyInv

\* Every step keeps the invariant.
LEMMA ProxyStepInv == ProxyInv /\ [Next]_vars => ProxyInv'
<1> SUFFICES ASSUME ProxyInv, [Next]_vars PROVE ProxyInv'
  OBVIOUS
<1>1. ASSUME NEW r \in Request, Drop(r) PROVE ProxyInv'
  BY <1>1, DropInv
<1>2. ASSUME NEW r \in Request, Fail(r) PROVE ProxyInv'
  <2>1. "failed" \in State \ {"dropped"}
    BY DEF State
  <2> QED  BY <1>2, <2>1, DecryptInv DEF Fail
<1>3. ASSUME NEW r \in Request, Answer(r) PROVE ProxyInv'
  <2>1. Sent(SizeOf[r]) \in State \ {"dropped", "failed"}
    BY DEF Sent, State
  <2>2. dropped \in Nat
    BY DEF ProxyInv, TypeOK
  <2> QED  BY <1>3, <2>1, <2>2, DecryptInv DEF Answer
<1>4. ASSUME NEW r \in Request, Forward(r) PROVE ProxyInv'
  <2>1. "opening" \in State \ {"dropped", "failed"}
    BY DEF State
  <2>2. dropped \in Nat
    BY DEF ProxyInv, TypeOK
  <2> QED  BY <1>4, <2>1, <2>2, DecryptInv DEF Forward
<1>5. ASSUME NEW i \in DOMAIN task, Open(i) PROVE ProxyInv'
  BY <1>5, StateInv DEF Open, Waiting
<1>6. ASSUME NEW i \in DOMAIN task, BackendFails(i) PROVE ProxyInv'
  BY <1>6, StateInv DEF BackendFails
<1>7. ASSUME NEW i \in DOMAIN task, NEW n \in 1 .. Block, Read(i, n) PROVE ProxyInv'
  BY <1>7, ReadInv
<1>8. ASSUME NEW i \in DOMAIN task, ReadEof(i) PROVE ProxyInv'
  BY <1>8, ReadEofInv
<1>9. CASE UNCHANGED vars
  <2>1. UNCHANGED <<received, decrypted, dropped, keysSeen, log, task>>
    BY <1>9 DEF vars, stats
  <2>2. /\ With({"dropped", "failed"})' = With({"dropped", "failed"})
        /\ With({"failed"})' = With({"failed"})
        /\ Decrypted' = Decrypted
    BY <2>1 DEF With, Decrypted
  <2>3. TypeOK'
    BY <2>1 DEF ProxyInv, TypeOK, Rest
  <2>4. BooksBalance'
    BY <2>1, <2>2 DEF ProxyInv, BooksBalance
  <2>5. LogIsNewest'
    BY <2>1, <2>2 DEF ProxyInv, LogIsNewest, DecryptedAfter
  <2>6. KeysInv'
    <3>1. DistinctKeys' = DistinctKeys /\ KnownKeys' = KnownKeys
      BY <2>1, <2>2 DEF DistinctKeys, KnownKeys
    <3> QED  BY <2>1, <2>2, <3>1 DEF ProxyInv, KeysInv, DecryptedAfter
  <2>7. WholeBlocks' /\ CutWithinBlock'
    BY <2>1 DEF ProxyInv, WholeBlocks, CutWithinBlock, Rest
  <2> QED  BY <2>3, <2>4, <2>5, <2>6, <2>7 DEF ProxyInv
<1> QED  BY <1>1, <1>2, <1>3, <1>4, <1>5, <1>6, <1>7, <1>8, <1>9 DEF Next, Continue

\* The invariant of every run of the server proxy.
THEOREM ProxyInvariance == Spec => []ProxyInv
  BY ProxyInitInv, ProxyStepInv, PTL DEF Spec

\* The figures keep their types, and the two lists their lengths.
THEOREM ProxyTypes == Spec => []TypeOK
  BY ProxyInvariance, PTL DEF ProxyInv

\* The counters agree with the tasks, for any number of packets.
THEOREM BooksAlwaysBalance == Spec => []BooksBalance
  BY ProxyInvariance, PTL DEF ProxyInv

\* The log shows the latest requests in order, for any length of the log.
THEOREM LogAlwaysNewest == Spec => []LogIsNewest
  BY ProxyInvariance, PTL DEF ProxyInv

\* "active_sessions" counts different keys, whatever the network repeats.
THEOREM SessionsAreCounted == Spec => []ActiveSessions
  BY ProxyInvariance, KeysAreCounted, PTL DEF ProxyInv

\* A reply is cut within a block only, for any size of the block.
THEOREM RepliesCutWithinBlock == Spec => []CutWithinBlock
  BY ProxyInvariance, PTL DEF ProxyInv
=============================================================================
