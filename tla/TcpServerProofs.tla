--------------------------- MODULE TcpServerProofs ---------------------------
(***************************************************************************)
(* For any numbers of threads, limits, descriptors and clients: the types, *)
(* that every open descriptor has exactly one owner, and that the          *)
(* manager's table holds what it should and no more than its limit.        *)
(***************************************************************************)
EXTENDS TcpServer, FiniteSetTheorems, SequenceTheorems, TLAPS

-----------------------------------------------------------------------------
(* Least and greatest elements *)

LEMMA MinIn ==
  ASSUME NEW S, S \subseteq Nat, S # {}
  PROVE  Min(S) \in S
<1> DEFINE R == OpToRel(<, Nat)
<1>1. \E x \in S : \A y \in S : <<y, x>> \notin R
  <2>1. IsWellFoundedOn(R, Nat)
    BY NatLessThanWellFounded
  <2> HIDE DEF R
  <2> QED
    BY <2>1, WFMin
<1>2. PICK x \in S : \A y \in S : <<y, x>> \notin R
  BY <1>1
<1>3. \A y \in S : x =< y
  <2> SUFFICES ASSUME NEW y \in S PROVE x =< y
    OBVIOUS
  <2>1. x \in Nat /\ y \in Nat
    OBVIOUS
  <2>2. ~(y < x)
    BY <1>2, <2>1 DEF OpToRel
  <2> QED
    BY <2>1, <2>2
<1>4. \E z \in S : \A y \in S : z =< y
  BY <1>3
<1> QED
  BY <1>4 DEF Min

LEMMA MaxBounds ==
  ASSUME NEW S, S \subseteq Nat, S # {}, IsFiniteSet(S)
  PROVE  Max(S) \in S /\ \A y \in S : y <= Max(S)
<1> DEFINE HasMax(U) == \E x \in U : \A y \in U : x >= y
           Bad == {U \in SUBSET S : U # {} /\ ~HasMax(U)}
<1>1. Bad = {}
  <2> SUFFICES ASSUME Bad # {} PROVE FALSE
    OBVIOUS
  <2>1. \E U \in Bad : \A V \in Bad : <<V, U>> \notin StrictSubsetOrdering(S)
    <3>1. IsWellFoundedOn(StrictSubsetOrdering(S), FiniteSubsetsOf(S))
      BY FS_StrictSubsetOrderingWellFounded
    <3>2. Bad \subseteq FiniteSubsetsOf(S)
      BY FS_FiniteSubsetsOfFinite
    <3> HIDE DEF Bad
    <3> QED
      BY <3>1, <3>2, WFMin
  <2>2. PICK U \in Bad : \A V \in Bad : <<V, U>> \notin StrictSubsetOrdering(S)
    BY <2>1
  <2>3. PICK x \in U : x \in Nat
    OBVIOUS
  <2> DEFINE V == U \ {x}
  <2>4. V \notin Bad
    <3>1. <<V, U>> \in StrictSubsetOrdering(S)
      BY DEF StrictSubsetOrdering
    <3> QED
      BY <2>2, <3>1
  <2>5. CASE V = {}
    <3>1. \A y \in U : x >= y
      BY <2>3, <2>5
    <3> QED
      BY <3>1
  <2>6. CASE V # {}
    <3>1. PICK y \in V : \A z \in V : y >= z
      BY <2>4, <2>6
    <3>2. y \in Nat /\ \A z \in U : z \in Nat
      OBVIOUS
    <3>3. CASE x >= y
      <4>1. \A z \in U : x >= z
        BY <2>3, <3>1, <3>2, <3>3
      <4> QED
        BY <4>1
    <3>4. CASE ~(x >= y)
      <4>1. \A z \in U : y >= z
        BY <2>3, <3>1, <3>2, <3>4
      <4> QED
        BY <4>1
    <3> QED
      BY <3>3, <3>4
  <2> QED
    BY <2>5, <2>6
<1>2. \E x \in S : \A y \in S : x >= y
  BY <1>1
<1>3. Max(S) \in S /\ \A y \in S : Max(S) >= y
  BY <1>2 DEF Max
<1> HIDE DEF Bad
<1> QED
  BY <1>3

\* A pool's loops are among those the server may have.
LEMMA LoopsExist ==
  ASSUME num_threads_ \in ThreadCounts
  PROVE  /\ num_threads_ \in Nat /\ Main \in AllLoops /\ IOLoops \subseteq AllLoops
         /\ next_ \in Nat => get_next_loop \in AllLoops
<1>1. num_threads_ \in Nat /\ Max(ThreadCounts) \in Nat /\ num_threads_ <= Max(ThreadCounts)
  <2>1. /\ ThreadCounts \subseteq Nat /\ ThreadCounts # {} /\ IsFiniteSet(ThreadCounts)
    BY ConstantsAssumption DEF ConstantsAssumption
  <2> QED
    BY <2>1, MaxBounds
<1> DEFINE m == Max(ThreadCounts)
<1> HIDE DEF m
<1>2. m \in Nat /\ num_threads_ <= m /\ AllLoops = 0..m
  BY <1>1 DEF m, AllLoops
<1> QED
  BY <1>1, <1>2 DEF Main, IOLoops, get_next_loop

-----------------------------------------------------------------------------
(* Queues of set-up tasks *)

Task    == Fds \X Clients
Tasks   == [AllLoops -> Seq(Task)]
Posted(s, l, fd, k) == [s EXCEPT ![l] = Append(@, <<fd, k>>)]
Taken(s, l) == [s EXCEPT ![l] = Tail(@)]
FdsOf(s) == UNION {{s[l][i][1] : i \in DOMAIN s[l]} : l \in AllLoops}

\* No two tasks have the same fd.
Distinct(s) ==
    \A l \in AllLoops : \A i \in DOMAIN s[l] :
       \A m \in AllLoops : \A j \in DOMAIN s[m] : s[l][i][1] = s[m][j][1] => l = m /\ i = j

LEMMA PostedTasks ==
  ASSUME NEW s \in Tasks, NEW l \in AllLoops, NEW fd \in Fds, NEW k \in Clients
  PROVE  /\ Posted(s, l, fd, k) \in Tasks
         /\ FdsOf(Posted(s, l, fd, k)) = FdsOf(s) \cup {fd}
         /\ Distinct(s) /\ fd \notin FdsOf(s) => Distinct(Posted(s, l, fd, k))
<1> DEFINE q == s[l]
           task == <<fd, k>>
           q2 == Append(q, task)
           s2 == Posted(s, l, fd, k)
<1>1. s2 = [s EXCEPT ![l] = q2]
  BY DEF Posted
<1>2. q \in Seq(Task) /\ task \in Task /\ task[1] = fd /\ q2 = Append(q, task)
  BY DEF Tasks, Task
<1> HIDE DEF Task, task, q2, s2
<1>3. /\ q2 \in Seq(Task) /\ Len(q) \in Nat /\ Len(q2) = Len(q) + 1
      /\ DOMAIN q = 1..Len(q) /\ DOMAIN q2 = 1..(Len(q) + 1)
      /\ \A i \in DOMAIN q : q2[i] = q[i]
      /\ q2[Len(q) + 1] = task
  <2>1. /\ q2 \in Seq(Task) /\ Len(q2) = Len(q) + 1
        /\ \A i \in 1..Len(q) : q2[i] = q[i]
        /\ q2[Len(q) + 1] = task
    BY <1>2, AppendProperties
  <2> HIDE DEF q
  <2>2. Len(q) \in Nat /\ DOMAIN q = 1..Len(q) /\ DOMAIN q2 = 1..Len(q2)
    BY <1>2, <2>1, LenProperties
  <2> QED
    BY <2>1, <2>2
<1>4. s2 \in Tasks /\ s2[l] = q2 /\ \A m \in AllLoops : m # l => s2[m] = s[m]
  BY <1>3, <1>1 DEF Tasks
<1> DEFINE n == Len(q) + 1
<1>5. /\ n \notin DOMAIN q /\ DOMAIN s2[l] = DOMAIN s[l] \cup {n} /\ s2[l][n][1] = fd
      /\ \A i \in DOMAIN s[l] : s2[l][i] = s[l][i]
  BY <1>2, <1>3, <1>4
<1> HIDE DEF q, n
<1>6. FdsOf(s2) = FdsOf(s) \cup {fd}
  <2>1. ASSUME NEW f \in FdsOf(s2) PROVE f \in FdsOf(s) \cup {fd}
    <3>1. PICK m \in AllLoops : \E i \in DOMAIN s2[m] : f = s2[m][i][1]
      BY DEF FdsOf
    <3>2. PICK i \in DOMAIN s2[m] : f = s2[m][i][1]
      BY <3>1
    <3>3. CASE m = l /\ i = n
      BY <1>5, <3>2, <3>3
    <3>4. CASE ~(m = l /\ i = n)
      <4>1. i \in DOMAIN s[m] /\ f = s[m][i][1]
        BY <1>4, <1>5, <3>2, <3>4
      <4> QED
        BY <4>1 DEF FdsOf
    <3> QED
      BY <3>3, <3>4
  <2>2. ASSUME NEW f \in FdsOf(s) PROVE f \in FdsOf(s2)
    <3>1. PICK m \in AllLoops : \E i \in DOMAIN s[m] : f = s[m][i][1]
      BY DEF FdsOf
    <3>2. PICK i \in DOMAIN s[m] : f = s[m][i][1]
      BY <3>1
    <3>3. i \in DOMAIN s2[m] /\ f = s2[m][i][1]
      BY <1>4, <1>5, <3>2
    <3> QED
      BY <3>3 DEF FdsOf
  <2>3. fd \in FdsOf(s2)
    BY <1>5 DEF FdsOf
  <2> QED
    BY <2>1, <2>2, <2>3
<1>7. ASSUME Distinct(s), fd \notin FdsOf(s) PROVE Distinct(s2)
  <2> SUFFICES ASSUME NEW h \in AllLoops, NEW i \in DOMAIN s2[h],
                      NEW m \in AllLoops, NEW j \in DOMAIN s2[m],
                      s2[h][i][1] = s2[m][j][1]
               PROVE  h = m /\ i = j
    BY DEF Distinct
  <2>1. \A x \in AllLoops : \A y \in DOMAIN s2[x] :
           \/ x = l /\ y = n /\ s2[x][y][1] = fd
           \/ y \in DOMAIN s[x] /\ s2[x][y] = s[x][y]
    BY <1>4, <1>5
  <2>2. \A x \in AllLoops : \A y \in DOMAIN s[x] : s[x][y][1] # fd
    BY <1>7 DEF FdsOf
  <2> QED
    BY <1>7, <2>1, <2>2 DEF Distinct
<1> QED
  BY <1>4, <1>6, <1>7 DEF s2

LEMMA TakenTasks ==
  ASSUME NEW s \in Tasks, NEW l \in AllLoops, s[l] # << >>
  PROVE  /\ Taken(s, l) \in Tasks /\ Head(s[l]) \in Task /\ Head(s[l])[1] \in FdsOf(s)
         /\ Distinct(s) => /\ FdsOf(Taken(s, l)) = FdsOf(s) \ {Head(s[l])[1]}
                           /\ Distinct(Taken(s, l))
<1> DEFINE q == s[l]
           q2 == Tail(q)
           s2 == Taken(s, l)
<1>1. s2 = [s EXCEPT ![l] = q2] /\ q2 = Tail(q)
  BY DEF Taken
<1>2. q \in Seq(Task) /\ q # << >>
  BY DEF Tasks
<1> HIDE DEF Task, q2, s2
<1>3. /\ q2 \in Seq(Task) /\ Len(q) \in Nat \ {0} /\ Len(q2) = Len(q) - 1
      /\ DOMAIN q = 1..Len(q) /\ DOMAIN q2 = 1..(Len(q) - 1)
      /\ \A i \in DOMAIN q2 : q2[i] = q[i + 1]
      /\ Head(q) = q[1] /\ Head(q) \in Task
  <2>1. q2 \in Seq(Task) /\ Len(q2) = Len(q) - 1 /\ Head(q) \in Task
        /\ \A i \in 1..Len(q2) : q2[i] = q[i + 1]
    BY <1>2, <1>1, HeadTailProperties
  <2>2. Len(q) \in Nat \ {0} /\ DOMAIN q = 1..Len(q) /\ DOMAIN q2 = 1..Len(q2)
    BY <1>2, <2>1, EmptySeq, LenProperties
  <2>3. Head(q) = q[1]
    BY <1>2
  <2> QED
    BY <2>1, <2>2, <2>3
<1>4. s2 \in Tasks /\ s2[l] = q2 /\ \A m \in AllLoops : m # l => s2[m] = s[m]
  BY <1>3, <1>1 DEF Tasks
<1>5. 1 \in DOMAIN s[l] /\ s[l][1] = Head(s[l])
  BY <1>3
<1>6. Head(s[l])[1] \in FdsOf(s)
  <2>1. Head(s[l])[1] \in {s[l][i][1] : i \in DOMAIN s[l]}
    BY <1>5
  <2> QED
    BY <2>1 DEF FdsOf
<1> DEFINE Old(m, i) == IF m = l THEN i + 1 ELSE i
<1>7. ASSUME NEW m \in AllLoops, NEW i \in DOMAIN s2[m]
      PROVE  /\ Old(m, i) \in DOMAIN s[m] /\ s2[m][i] = s[m][Old(m, i)]
             /\ m = l => i \in Nat \ {0} /\ Old(m, i) = i + 1
  <2>1. CASE m = l
    <3>1. i \in DOMAIN q2 /\ s2[m][i] = q2[i]
      BY <1>4, <2>1
    <3> QED
      BY <1>3, <2>1, <3>1
  <2>2. CASE m # l
    BY <1>4, <2>2
  <2> QED
    BY <2>1, <2>2
<1>8. ASSUME NEW m \in AllLoops, NEW i \in DOMAIN s[m], ~(m = l /\ i = 1)
      PROVE  \E j \in DOMAIN s2[m] : s2[m][j] = s[m][i]
  <2>1. CASE m = l
    <3>1. i - 1 \in DOMAIN q2 /\ q2[i - 1] = q[i]
      BY <1>3, <1>8, <2>1
    <3> QED
      BY <1>4, <2>1, <3>1
  <2>2. CASE m # l
    BY <1>4, <2>2
  <2> QED
    BY <2>1, <2>2
<1> HIDE DEF q
<1>9. ASSUME Distinct(s) PROVE FdsOf(s2) = FdsOf(s) \ {Head(s[l])[1]}
  <2>1. ASSUME NEW f \in FdsOf(s2) PROVE f \in FdsOf(s) /\ f # Head(s[l])[1]
    <3>1. PICK m \in AllLoops : \E i \in DOMAIN s2[m] : f = s2[m][i][1]
      BY DEF FdsOf
    <3>2. PICK i \in DOMAIN s2[m] : f = s2[m][i][1]
      BY <3>1
    <3>3. PICK j \in DOMAIN s[m] : s2[m][i] = s[m][j] /\ ~(m = l /\ j = 1)
      BY <1>7, <3>2
    <3>4. f = s[m][j][1]
      BY <3>2, <3>3
    <3>5. f # s[l][1][1]
      BY <1>5, <1>9, <3>3, <3>4 DEF Distinct
    <3> QED
      BY <1>5, <3>4, <3>5 DEF FdsOf
  <2>2. ASSUME NEW f \in FdsOf(s), f # Head(s[l])[1] PROVE f \in FdsOf(s2)
    <3>1. PICK m \in AllLoops : \E i \in DOMAIN s[m] : f = s[m][i][1]
      BY DEF FdsOf
    <3>2. PICK i \in DOMAIN s[m] : f = s[m][i][1]
      BY <3>1
    <3>3. PICK j \in DOMAIN s2[m] : s2[m][j] = s[m][i]
      BY <1>5, <1>8, <2>2, <3>2
    <3> QED
      BY <3>2, <3>3 DEF FdsOf
  <2> QED
    BY <2>1, <2>2
<1>10. ASSUME Distinct(s) PROVE Distinct(s2)
  <2> SUFFICES ASSUME NEW k \in AllLoops, NEW i \in DOMAIN s2[k],
                      NEW m \in AllLoops, NEW j \in DOMAIN s2[m],
                      s2[k][i][1] = s2[m][j][1]
               PROVE  k = m /\ i = j
    BY DEF Distinct
  <2>1. k = m /\ Old(k, i) = Old(m, j)
    <3>1. /\ Old(k, i) \in DOMAIN s[k] /\ s2[k][i] = s[k][Old(k, i)]
          /\ Old(m, j) \in DOMAIN s[m] /\ s2[m][j] = s[m][Old(m, j)]
      BY <1>7
    <3> HIDE DEF Old
    <3> QED
      BY <1>10, <3>1 DEF Distinct
  <2>2. CASE k = l
    BY <1>7, <2>1, <2>2
  <2>3. CASE k # l
    BY <2>1, <2>3
  <2> QED
    BY <2>2, <2>3
<1> QED
  BY <1>3, <1>4, <1>6, <1>9, <1>10 DEF q, s2

-----------------------------------------------------------------------------
(* The inductive invariant *)

\* A server that has not started has nothing posted to its loops.
Idle == (accepting => started_) /\ (~started_ => \A l \in AllLoops : setups[l] = << >>)

\* A removal is posted for a connection that has been closed.
RemovalsOfClosed == \A i \in DOMAIN removals : conn[removals[i]].closes > 0

IInv ==
    /\ TypeOK /\ Idle
    /\ FdsAccounted
    /\ TableExact /\ RemovalsOfClosed

\* The fds of connections that are not destroyed, and that no two share one.
OwnedFds(cs) == {cs[c].fd : c \in {d \in DOMAIN cs : ~cs[d].destroyed}}

Unshared(cs) ==
    \A c \in DOMAIN cs : \A d \in DOMAIN cs :
       ~cs[c].destroyed /\ ~cs[d].destroyed /\ cs[c].fd = cs[d].fd => c = d

\* FdsAccounted in these terms.
Accounted(open, s, cs) ==
    /\ open = FdsOf(s) \cup OwnedFds(cs)
    /\ FdsOf(s) \cap OwnedFds(cs) = {}
    /\ Unshared(cs) /\ Distinct(s)

LEMMA FdsAccountedIs == FdsAccounted <=> Accounted(open_fds, setups, conn)
<1>1. SetUpFds = FdsOf(setups) /\ {conn[c].fd : c \in Live} = OwnedFds(conn)
  BY DEF SetUpFds, FdsOf, OwnedFds, Live, Ids
<1>2. (\A c \in Live : conn[c].fd \notin SetUpFds /\ \A d \in Live \ {c} : conn[d].fd # conn[c].fd)
      <=> FdsOf(setups) \cap OwnedFds(conn) = {} /\ Unshared(conn)
  BY <1>1 DEF OwnedFds, Unshared, Live, Ids
<1> QED
  BY <1>1, <1>2 DEF FdsAccounted, Accounted, Distinct

LEMMA FdsAccountedNext == Accounted(open_fds', setups', conn') => FdsAccounted'
<1>1. (FdsAccounted <=> Accounted(open_fds, setups, conn))'
  BY FdsAccountedIs, PTL
<1> QED
  BY <1>1

\* Steps that move no fd and destroy nothing.
LEMMA OwnersKept ==
  ASSUME NEW cs, NEW ds, DOMAIN ds = DOMAIN cs,
         \A c \in DOMAIN cs : ds[c].fd = cs[c].fd /\ ds[c].destroyed = cs[c].destroyed
  PROVE  OwnedFds(ds) = OwnedFds(cs) /\ (Unshared(cs) => Unshared(ds))
  BY DEF OwnedFds, Unshared

LEMMA InitIInv == Init => IInv
<1> SUFFICES ASSUME Init PROVE IInv
  OBVIOUS
<1>1. DOMAIN conn = {} /\ DOMAIN removals = {} /\ conn = << >> /\ removals = << >>
  BY DEF Init
<1>2. max_connections_ \in Nat
  BY ConstantsAssumption DEF Init, ConstantsAssumption
<1>3. FdsOf(setups) = {} /\ OwnedFds(conn) = {} /\ Unshared(conn) /\ Distinct(setups)
  BY <1>1 DEF Init, FdsOf, OwnedFds, Unshared, Distinct
<1>4. FdsAccounted
  BY <1>3, FdsAccountedIs DEF Accounted, Init
<1>5. TypeOK
  <2>1. \A S : << >> \in Seq(S)
    BY EmptySeq
  <2>2. setups \in [AllLoops -> Seq(Fds \X Clients)]
    BY <2>1 DEF Init
  <2> QED
    BY <2>1, <2>2 DEF Init, TypeOK
<1>6. TableExact /\ RemovalsOfClosed /\ Idle
  BY <1>1, <1>2, FS_EmptySet DEF Init, TableExact, RemovalsOfClosed, Ids, Idle
<1> QED
  BY <1>4, <1>5, <1>6 DEF IInv

-----------------------------------------------------------------------------
(* New connections *)

\* What TypeOK says of sequences and their indices.
LEMMA SequenceFacts ==
  ASSUME TypeOK
  PROVE  /\ Len(conn) \in Nat /\ Ids = 1..Len(conn) /\ DOMAIN conn = Ids
         /\ \A c \in Ids : conn[c] \in Connections
         /\ Len(removals) \in Nat /\ DOMAIN removals = 1..Len(removals)
         /\ \A i \in DOMAIN removals : removals[i] \in Ids
         /\ setups \in Tasks
         /\ IsFiniteSet(connections_) /\ Cardinality(connections_) \in Nat
         /\ max_connections_ \in Nat
<1>1. conn \in Seq(Connections) /\ removals \in Seq(Ids) /\ connections_ \subseteq Ids
  BY DEF TypeOK
<1>2. Len(conn) \in Nat /\ conn \in [1..Len(conn) -> Connections] /\ DOMAIN conn = 1..Len(conn)
  BY <1>1, LenProperties
<1>3. /\ Len(removals) \in Nat /\ removals \in [1..Len(removals) -> Ids]
      /\ DOMAIN removals = 1..Len(removals)
  BY <1>1, LenProperties
<1>4. IsFiniteSet(Ids)
  BY <1>2, FS_Interval DEF Ids
<1>5. IsFiniteSet(connections_) /\ Cardinality(connections_) \in Nat
  BY <1>1, <1>4, FS_Subset, FS_CardinalityType
<1>6. max_connections_ \in Nat
  BY ConstantsAssumption DEF TypeOK, ConstantsAssumption
<1> HIDE DEF Connections
<1>7. \A c \in 1..Len(conn) : conn[c] \in Connections
  BY <1>2
<1>8. \A i \in 1..Len(removals) : removals[i] \in Ids
  BY <1>3
<1> QED
  BY <1>2, <1>3, <1>5, <1>6, <1>7, <1>8 DEF Ids, Tasks, Task, TypeOK

\* The set-up task keeps the invariant of the connections and the table, and
\* gives the fd to the new connection or closes it.
LEMMA SetUpKeeps ==
  ASSUME IInv, NEW fd \in Fds, NEW k \in Clients, NEW l \in AllLoops,
         NEW opened \in SUBSET Fds, SetUp(fd, k, l, opened), fd \notin OwnedFds(conn),
         UNCHANGED <<num_threads_, max_connections_, removals>>
  PROVE  /\ open_fds' \subseteq Fds /\ conn' \in Seq(Connections) /\ removals' \in Seq(Ids')
         /\ connections_' \subseteq Ids' /\ refused' \subseteq Clients
         /\ TableExact' /\ RemovalsOfClosed'
         /\ Unshared(conn')
         /\ \/ open_fds' = opened \ {fd} /\ OwnedFds(conn') = OwnedFds(conn)
            \/ open_fds' = opened /\ OwnedFds(conn') = OwnedFds(conn) \cup {fd}
<1>1. TypeOK /\ TableExact /\ RemovalsOfClosed /\ Unshared(conn)
  BY FdsAccountedIs DEF IInv, Accounted
<1>2. /\ Len(conn) \in Nat /\ Ids = 1..Len(conn) /\ DOMAIN conn = Ids
      /\ \A c \in Ids : conn[c] \in Connections
      /\ \A i \in DOMAIN removals : removals[i] \in Ids
      /\ IsFiniteSet(connections_) /\ Cardinality(connections_) \in Nat
      /\ max_connections_ \in Nat
      /\ conn \in Seq(Connections) /\ removals \in Seq(Ids) /\ connections_ \subseteq Ids
      /\ refused \subseteq Clients
  BY <1>1, SequenceFacts DEF TypeOK
<1>3. CASE Full
  <2>1. /\ refused' = refused \cup {k} /\ open_fds' = opened \ {fd}
        /\ connections_' = connections_ /\ conn' = conn
    BY <1>3 DEF SetUp, Refuse
  <2>2. Ids' = Ids
    BY <2>1 DEF Ids
  <2>3. TableExact' /\ RemovalsOfClosed'
    BY <1>1, <2>1, <2>2 DEF TableExact, RemovalsOfClosed
  <2> QED
    BY <1>1, <1>2, <2>1, <2>2, <2>3
<1>4. CASE ~Full
  <2> DEFINE n == Len(conn) + 1
  <2>1. PICK session \in BOOLEAN :
            conn' = Append(conn, [fd |-> fd, loop |-> l, client |-> k, state_ |-> "kConnected",
                                  session |-> session, closes |-> 0, destroyed |-> FALSE])
    BY <1>4 DEF SetUp, Establish
  <2> DEFINE new == [fd |-> fd, loop |-> l, client |-> k, state_ |-> "kConnected",
                     session |-> session, closes |-> 0, destroyed |-> FALSE]
  <2>2. /\ new \in Connections /\ new.fd = fd /\ new.closes = 0 /\ new.destroyed = FALSE
    <3>1. 0 \in 0..MaxCloses
      BY ConstantsAssumption DEF ConstantsAssumption
    <3> QED
      BY <3>1 DEF Connections
  <2>3. connections_' = connections_ \cup {n} /\ open_fds' = opened /\ refused' = refused
    BY <1>4 DEF SetUp, Establish
  <2> HIDE DEF new
  <2>4. conn' = Append(conn, new)
    BY <2>1 DEF new
  <2>5. /\ conn' \in Seq(Connections) /\ Len(conn') = n
        /\ conn'[n] = new /\ \A c \in Ids : conn'[c] = conn[c]
    BY <1>2, <2>2, <2>4, AppendProperties
  <2>6. Ids' = Ids \cup {n} /\ n \notin Ids
    <3>1. DOMAIN conn' = 1..n
      BY <2>5, LenProperties
    <3> QED
      BY <1>2, <3>1 DEF Ids
  <2>7. removals' \in Seq(Ids')
    <3>1. Ids \subseteq Ids'
      BY <2>6
    <3> QED
      BY <1>2, <3>1, SeqMonotonic
  <2> HIDE DEF n
  <2>8. Cardinality(connections_') <= max_connections_
    <3>1. Cardinality(connections_) < max_connections_
      BY <1>2, <1>4 DEF Full
    <3>2. Cardinality(connections_ \cup {n}) = Cardinality(connections_) + 1
      BY <1>2, <2>6, FS_AddElement
    <3> QED
      BY <1>2, <2>3, <3>1, <3>2
  <2>9. RemovalsOfClosed'
    BY <1>1, <1>2, <2>5 DEF RemovalsOfClosed
  <2>10. TableExact'
    <3>1. \A c \in Ids' :
             IF conn'[c].closes = 0 THEN c \in connections_' /\ ~conn'[c].destroyed
                                    ELSE c \in connections_' => c \in Range(removals)
      BY <1>1, <2>2, <2>3, <2>5, <2>6 DEF TableExact
    <3>2. \A i \in DOMAIN removals : ~conn'[removals[i]].destroyed
      BY <1>1, <1>2, <2>5 DEF TableExact
    <3> QED
      BY <2>8, <3>1, <3>2 DEF TableExact
  <2>11. OwnedFds(conn') = OwnedFds(conn) \cup {fd} /\ Unshared(conn')
    <3>1. DOMAIN conn' = DOMAIN conn \cup {n} /\ DOMAIN conn = Ids
      BY <1>2, <2>6 DEF Ids
    <3>2. OwnedFds(conn') = OwnedFds(conn) \cup {fd}
      BY <2>2, <2>5, <2>6, <3>1 DEF OwnedFds
    <3>3. \A c \in Ids : ~conn[c].destroyed => conn[c].fd # fd
      BY <3>1 DEF OwnedFds
    <3>4. Unshared(conn')
      BY <1>1, <2>2, <2>5, <3>1, <3>3 DEF Unshared
    <3> QED
      BY <3>2, <3>4
  <2> QED
    BY <1>2, <2>3, <2>5, <2>6, <2>7, <2>9, <2>10, <2>11
<1> QED
  BY <1>3, <1>4

-----------------------------------------------------------------------------
(* The steps *)

LEMMA AcceptKeeps ==
  ASSUME IInv, Accept PROVE IInv'
<1>1. PICK fd, k, l : fd = Min(Fds \ open_fds) /\ k = Head(backlog) /\ l = get_next_loop
  OBVIOUS
<1>2. /\ TypeOK /\ Idle /\ TableExact /\ RemovalsOfClosed
      /\ Accounted(open_fds, setups, conn) /\ setups \in Tasks
  BY FdsAccountedIs, SequenceFacts DEF IInv
<1>3. fd \in Fds /\ fd \notin open_fds
  <2>1. Fds \ open_fds \subseteq Nat /\ Fds \ open_fds # {}
    BY <1>2, ConstantsAssumption DEF Accept, TypeOK, ConstantsAssumption
  <2> QED
    BY <1>1, <2>1, MinIn
<1>4. k \in Clients /\ backlog' = Tail(backlog) /\ backlog' \in Seq(Clients)
  <2>1. backlog \in Seq(Clients) /\ backlog # << >> /\ backlog' = Tail(backlog)
    BY <1>2 DEF Accept, TypeOK
  <2> QED
    BY <1>1, <2>1, HeadTailProperties
<1>5. num_threads_ \in ThreadCounts /\ next_ \in Nat /\ open_fds \subseteq Fds
  BY <1>2 DEF TypeOK
<1>6. l \in AllLoops
  BY <1>5, <1>1, LoopsExist
<1>7. /\ next_' = IF l = Main THEN next_ ELSE next_ + 1
      /\ IF l = Main
         THEN SetUp(fd, k, l, open_fds \cup {fd}) /\ UNCHANGED setups
         ELSE /\ setups' = [setups EXCEPT ![l] = Append(@, <<fd, k>>)]
              /\ open_fds' = open_fds \cup {fd}
              /\ UNCHANGED <<connections_, conn, refused>>
      /\ accepting
      /\ UNCHANGED <<num_threads_, max_connections_, started_, accepting, removals>>
  BY <1>1 DEF Accept
<1>8. fd \notin FdsOf(setups) /\ fd \notin OwnedFds(conn)
  BY <1>2, <1>3 DEF Accounted
<1>9. started_ /\ started_' /\ accepting' /\ next_' \in Nat
  BY <1>2, <1>5, <1>7 DEF Idle
<1>10. CASE l = Main
  <2>1. SetUp(fd, k, l, open_fds \cup {fd}) /\ UNCHANGED setups
    BY <1>7, <1>10
  <2>2. open_fds \cup {fd} \in SUBSET Fds
    BY <1>3, <1>5
  <2>3. /\ open_fds' \subseteq Fds /\ conn' \in Seq(Connections) /\ removals' \in Seq(Ids')
        /\ connections_' \subseteq Ids' /\ refused' \subseteq Clients
        /\ TableExact' /\ RemovalsOfClosed' /\ Unshared(conn')
        /\ \/ open_fds' = open_fds /\ OwnedFds(conn') = OwnedFds(conn)
           \/ open_fds' = open_fds \cup {fd} /\ OwnedFds(conn') = OwnedFds(conn) \cup {fd}
    <3>1. (open_fds \cup {fd}) \ {fd} = open_fds
      BY <1>3
    <3>2. UNCHANGED <<num_threads_, max_connections_, removals>>
      BY <1>7
    <3> QED
      BY <1>3, <1>4, <1>6, <1>8, <2>1, <2>2, <3>1, <3>2, SetUpKeeps
  <2>4. Accounted(open_fds', setups', conn')
    BY <1>2, <1>8, <2>1, <2>3 DEF Accounted
  <2>5. FdsAccounted'
    BY <2>4, FdsAccountedNext
  <2>6. TypeOK'
    BY <1>2, <1>4, <1>7, <1>9, <2>1, <2>3 DEF TypeOK
  <2> QED
    BY <1>9, <2>3, <2>5, <2>6 DEF IInv, Idle
<1>11. CASE l # Main
  <2>1. /\ setups' = [setups EXCEPT ![l] = Append(@, <<fd, k>>)]
        /\ open_fds' = open_fds \cup {fd}
        /\ UNCHANGED <<connections_, conn, refused>>
    BY <1>7, <1>11
  <2>2. /\ setups' \in Tasks /\ FdsOf(setups') = FdsOf(setups) \cup {fd}
        /\ Distinct(setups')
    <3>1. setups' = Posted(setups, l, fd, k)
      BY <2>1 DEF Posted
    <3>2. Distinct(setups) /\ setups \in Tasks
      BY <1>2 DEF Accounted
    <3> QED
      BY <1>3, <1>4, <1>6, <1>8, <3>1, <3>2, PostedTasks
  <2>3. Accounted(open_fds', setups', conn')
    BY <1>2, <1>8, <2>1, <2>2 DEF Accounted
  <2>4. FdsAccounted'
    BY <2>3, FdsAccountedNext
  <2>5. Ids' = Ids
    BY <2>1 DEF Ids
  <2>6. TypeOK'
    BY <1>2, <1>3, <1>4, <1>7, <1>9, <2>1, <2>2, <2>5 DEF TypeOK, Tasks, Task
  <2>7. TableExact' /\ RemovalsOfClosed'
    BY <1>2, <1>7, <2>1, <2>5 DEF TableExact, RemovalsOfClosed
  <2> QED
    BY <1>9, <2>4, <2>6, <2>7 DEF IInv, Idle
<1> QED
  BY <1>10, <1>11

LEMMA RunSetUpKeeps ==
  ASSUME IInv, NEW l \in IOLoops, RunSetUp(l) PROVE IInv'
<1> DEFINE fd == Head(setups[l])[1]
           k  == Head(setups[l])[2]
<1>1. /\ TypeOK /\ Idle /\ TableExact /\ RemovalsOfClosed
      /\ Accounted(open_fds, setups, conn) /\ setups \in Tasks
  BY FdsAccountedIs, SequenceFacts DEF IInv
<1>2. l \in AllLoops
  BY <1>1, LoopsExist DEF TypeOK
<1>3. /\ setups[l] # << >> /\ SetUp(fd, k, l, open_fds)
      /\ setups' = [setups EXCEPT ![l] = Tail(@)]
      /\ UNCHANGED <<pool_vars, backlog, removals>>
  BY DEF RunSetUp
<1>4. /\ setups' \in Tasks /\ Head(setups[l]) \in Task /\ fd \in FdsOf(setups)
      /\ FdsOf(setups') = FdsOf(setups) \ {fd} /\ Distinct(setups')
  <2>1. Distinct(setups) /\ setups \in Tasks
    BY <1>1 DEF Accounted
  <2>2. setups' = Taken(setups, l)
    BY <1>3 DEF Taken
  <2> QED
    BY <1>2, <1>3, <2>1, <2>2, TakenTasks
<1>5. fd \in Fds /\ k \in Clients
  BY <1>4 DEF Task
<1>6. UNCHANGED <<num_threads_, max_connections_, started_, accepting, next_, backlog, removals>>
  BY <1>3 DEF pool_vars
<1>7. started_
  BY <1>1, <1>2, <1>3 DEF Idle
<1> HIDE DEF fd, k
<1>8. fd \notin OwnedFds(conn) /\ open_fds \in SUBSET Fds
  BY <1>1, <1>4 DEF Accounted, TypeOK
<1>9. /\ open_fds' \subseteq Fds /\ conn' \in Seq(Connections) /\ removals' \in Seq(Ids')
      /\ connections_' \subseteq Ids' /\ refused' \subseteq Clients
      /\ TableExact' /\ RemovalsOfClosed' /\ Unshared(conn')
      /\ \/ open_fds' = open_fds \ {fd} /\ OwnedFds(conn') = OwnedFds(conn)
         \/ open_fds' = open_fds /\ OwnedFds(conn') = OwnedFds(conn) \cup {fd}
  BY <1>2, <1>3, <1>5, <1>6, <1>8, SetUpKeeps
<1>10. Accounted(open_fds', setups', conn')
  BY <1>1, <1>4, <1>8, <1>9 DEF Accounted
<1>11. FdsAccounted'
  BY <1>10, FdsAccountedNext
<1>12. TypeOK'
  BY <1>1, <1>4, <1>6, <1>7, <1>9 DEF TypeOK, Tasks, Task
<1> QED
  BY <1>1, <1>6, <1>7, <1>9, <1>11, <1>12 DEF IInv, Idle

\* A step that changes one connection, not its fd, and neither opens nor closes
\* an fd nor destroys a connection.
LEMMA ChangeKeepsTypes ==
  ASSUME IInv, NEW c \in Ids, NEW new \in Connections, conn' = [conn EXCEPT ![c] = new],
         new.fd = conn[c].fd, new.destroyed = conn[c].destroyed,
         removals' \in Seq(Ids), connections_' \subseteq connections_,
         UNCHANGED <<pool_vars, backlog, open_fds, setups, refused>>
  PROVE  /\ TypeOK' /\ Idle' /\ FdsAccounted' /\ Ids' = Ids
         /\ conn'[c] = new /\ \A d \in Ids : d # c => conn'[d] = conn[d]
         /\ Cardinality(connections_') <= max_connections_'
<1>1. /\ TypeOK /\ Idle /\ TableExact /\ Accounted(open_fds, setups, conn)
  BY FdsAccountedIs DEF IInv
<1>2. /\ Len(conn) \in Nat /\ Ids = 1..Len(conn) /\ DOMAIN conn = Ids
      /\ conn \in Seq(Connections)
      /\ IsFiniteSet(connections_) /\ Cardinality(connections_) \in Nat
      /\ max_connections_ \in Nat
  BY <1>1, SequenceFacts DEF TypeOK
<1>3. /\ conn' \in Seq(Connections) /\ DOMAIN conn' = Ids
      /\ conn'[c] = new /\ \A d \in Ids : d # c => conn'[d] = conn[d]
  BY <1>2, ExceptSeq
<1>4. Ids' = Ids
  BY <1>3 DEF Ids
<1>5. TypeOK' /\ Idle'
  BY <1>1, <1>3, <1>4 DEF TypeOK, Idle, pool_vars
<1>6. OwnedFds(conn') = OwnedFds(conn) /\ Unshared(conn')
  BY <1>1, <1>2, <1>3, OwnersKept DEF Accounted
<1>7. FdsAccounted'
  <2>1. Accounted(open_fds', setups', conn')
    BY <1>1, <1>6 DEF Accounted
  <2> QED
    BY <2>1, FdsAccountedNext
<1>8. Cardinality(connections_') <= max_connections_'
  <2>1. Cardinality(connections_) <= max_connections_ /\ max_connections_' = max_connections_
    BY <1>1 DEF TableExact, pool_vars
  <2>2. /\ Cardinality(connections_') <= Cardinality(connections_)
        /\ Cardinality(connections_') \in Nat
    BY <1>2, FS_Subset, FS_CardinalityType
  <2> QED
    BY <1>2, <2>1, <2>2
<1> QED
  BY <1>3, <1>4, <1>5, <1>7, <1>8

LEMMA SessionEndKeeps ==
  ASSUME IInv, NEW c \in Ids, SessionEnd(c) PROVE IInv'
<1> DEFINE new == [conn[c] EXCEPT !.session = FALSE,
                                  !.state_ = IF @ = "kConnected" THEN "kDisconnecting" ELSE @]
<1>1. /\ TypeOK /\ TableExact /\ RemovalsOfClosed /\ conn[c] \in Connections
      /\ conn \in Seq(Connections) /\ DOMAIN conn = Ids
      /\ \A i \in DOMAIN removals : removals[i] \in Ids
      /\ removals \in Seq(Ids)
  BY SequenceFacts DEF IInv, TypeOK
<1>2. conn' = [conn EXCEPT ![c] = new]
  BY <1>1 DEF SessionEnd, Connections
<1>3. /\ new \in Connections /\ new.fd = conn[c].fd /\ new.destroyed = conn[c].destroyed
      /\ new.closes = conn[c].closes
  BY <1>1 DEF Connections
<1>4. UNCHANGED <<pool_vars, backlog, open_fds, setups, connections_, refused, removals>>
  BY DEF SessionEnd
<1> HIDE DEF new
<1>5. /\ TypeOK' /\ Idle' /\ FdsAccounted' /\ Ids' = Ids
      /\ conn'[c] = new /\ \A d \in Ids : d # c => conn'[d] = conn[d]
      /\ Cardinality(connections_') <= max_connections_'
  BY <1>1, <1>2, <1>3, <1>4, ChangeKeepsTypes
<1>6. \A d \in Ids : conn'[d].closes = conn[d].closes /\ conn'[d].destroyed = conn[d].destroyed
  BY <1>3, <1>5
<1>7. TableExact' /\ RemovalsOfClosed'
  BY <1>1, <1>4, <1>5, <1>6 DEF TableExact, RemovalsOfClosed
<1> QED
  BY <1>5, <1>7 DEF IInv

LEMMA HandleCloseKeeps ==
  ASSUME IInv, NEW c \in Ids, handle_close(c) PROVE IInv'
<1> DEFINE new == [conn[c] EXCEPT !.state_ = "kDisconnected", !.closes = @ + 1]
<1>1. /\ TypeOK /\ TableExact /\ RemovalsOfClosed /\ conn[c] \in Connections
      /\ conn \in Seq(Connections) /\ DOMAIN conn = Ids
      /\ Len(removals) \in Nat /\ DOMAIN removals = 1..Len(removals)
      /\ \A i \in DOMAIN removals : removals[i] \in Ids
      /\ removals \in Seq(Ids)
  BY SequenceFacts DEF IInv, TypeOK
<1>2. ~conn[c].destroyed /\ conn[c].closes < MaxCloses /\ MaxCloses \in Nat
  BY ConstantsAssumption DEF handle_close, ConstantsAssumption
<1>3. /\ new \in Connections /\ new.fd = conn[c].fd /\ new.destroyed = conn[c].destroyed
      /\ new.closes > 0 /\ ~new.destroyed
  <2>1. conn[c].closes + 1 \in 0..MaxCloses /\ conn[c].closes + 1 > 0
    BY <1>1, <1>2 DEF Connections
  <2> QED
    BY <1>1, <1>2, <2>1 DEF Connections
<1>4. UNCHANGED <<pool_vars, backlog, open_fds, setups, refused>>
  BY DEF handle_close
<1>5. CASE conn[c].loop = Main
  <2>1. conn' = [conn EXCEPT ![c] = new] /\ connections_' = connections_ \ {c}
        /\ removals' = removals
    BY <1>1, <1>5 DEF handle_close, Removed, Connections
  <2> HIDE DEF new
  <2>2. /\ TypeOK' /\ Idle' /\ FdsAccounted' /\ Ids' = Ids
        /\ conn'[c] = new /\ \A d \in Ids : d # c => conn'[d] = conn[d]
        /\ Cardinality(connections_') <= max_connections_'
    <3>1. removals' \in Seq(Ids) /\ connections_' \subseteq connections_
      BY <1>1, <2>1
    <3> QED
      BY <1>3, <1>4, <2>1, <3>1, ChangeKeepsTypes
  <2>3. RemovalsOfClosed'
    BY <1>1, <1>3, <2>1, <2>2 DEF RemovalsOfClosed
  <2>4. TableExact'
    <3>1. \A d \in Ids :
             IF conn'[d].closes = 0 THEN d \in connections_' /\ ~conn'[d].destroyed
                                    ELSE d \in connections_' => d \in Range(removals)
      BY <1>1, <1>3, <2>1, <2>2 DEF TableExact
    <3>2. \A i \in DOMAIN removals : ~conn'[removals[i]].destroyed
      BY <1>1, <1>3, <2>2 DEF TableExact
    <3> QED
      BY <2>1, <2>2, <3>1, <3>2 DEF TableExact
  <2> QED
    BY <2>2, <2>3, <2>4 DEF IInv
<1>6. CASE conn[c].loop # Main
  <2>1. conn' = [conn EXCEPT ![c] = new] /\ removals' = Append(removals, c)
        /\ connections_' = connections_
    BY <1>1, <1>6 DEF handle_close, Connections
  <2> HIDE DEF new
  <2> DEFINE n == Len(removals) + 1
  <2>2. /\ removals' \in Seq(Ids) /\ Len(removals') = n
        /\ \A i \in DOMAIN removals : removals'[i] = removals[i]
        /\ removals'[n] = c
    BY <1>1, <2>1, AppendProperties
  <2>3. DOMAIN removals' = DOMAIN removals \cup {n}
    <3>1. DOMAIN removals' = 1..n
      BY <2>2, LenProperties
    <3> QED
      BY <1>1, <3>1
  <2> HIDE DEF n
  <2>4. /\ TypeOK' /\ Idle' /\ FdsAccounted' /\ Ids' = Ids
        /\ conn'[c] = new /\ \A d \in Ids : d # c => conn'[d] = conn[d]
        /\ Cardinality(connections_') <= max_connections_'
    <3>1. connections_' \subseteq connections_
      BY <2>1
    <3> QED
      BY <1>3, <1>4, <2>1, <2>2, <3>1, ChangeKeepsTypes
  <2>5. \A d \in Ids : d = c \/ d \in Range(removals) => d \in Range(removals')
    BY <2>2, <2>3 DEF Range
  <2>6. RemovalsOfClosed'
    BY <1>1, <1>3, <2>2, <2>3, <2>4 DEF RemovalsOfClosed
  <2>7. TableExact'
    <3>1. \A d \in Ids :
             IF conn'[d].closes = 0 THEN d \in connections_' /\ ~conn'[d].destroyed
                                    ELSE d \in connections_' => d \in Range(removals')
      BY <1>1, <1>3, <2>1, <2>4, <2>5 DEF TableExact
    <3>2. \A i \in DOMAIN removals' : ~conn'[removals'[i]].destroyed
      <4> SUFFICES ASSUME NEW i \in DOMAIN removals'
                   PROVE  ~conn'[removals'[i]].destroyed
        OBVIOUS
      <4>1. PICK d \in Ids : d = removals'[i] /\ (d # c => ~conn[d].destroyed)
        BY <1>1, <2>2, <2>3 DEF TableExact
      <4>2. ~new.destroyed
        BY <1>1, <1>3
      <4> QED
        BY <2>4, <4>1, <4>2
    <3> QED
      BY <2>4, <3>1, <3>2 DEF TableExact
  <2> QED
    BY <2>4, <2>6, <2>7 DEF IInv
<1> QED
  BY <1>5, <1>6

LEMMA RunRemovalKeeps ==
  ASSUME IInv, RunRemoval PROVE IInv'
<1>1. PICK c : c = Head(removals)
  OBVIOUS
<1>2. /\ TypeOK /\ TableExact /\ RemovalsOfClosed
      /\ conn \in Seq(Connections) /\ DOMAIN conn = Ids
      /\ \A d \in Ids : conn[d] \in Connections
      /\ Len(removals) \in Nat /\ DOMAIN removals = 1..Len(removals)
      /\ \A i \in DOMAIN removals : removals[i] \in Ids
      /\ removals \in Seq(Ids) /\ removals # << >>
  BY SequenceFacts DEF IInv, TypeOK, RunRemoval
<1>3. /\ removals' = Tail(removals) /\ removals' \in Seq(Ids) /\ c \in Ids /\ c = removals[1]
      /\ DOMAIN removals' = 1..(Len(removals) - 1) /\ 1 \in DOMAIN removals
      /\ \A i \in DOMAIN removals' : i + 1 \in DOMAIN removals /\ removals'[i] = removals[i + 1]
  <2>1. removals' = Tail(removals)
    BY DEF RunRemoval
  <2>2. /\ Tail(removals) \in Seq(Ids) /\ Len(Tail(removals)) = Len(removals) - 1
        /\ \A i \in 1..Len(Tail(removals)) : Tail(removals)[i] = removals[i + 1]
        /\ Head(removals) \in Ids
    BY <1>2, HeadTailProperties
  <2>3. Head(removals) = removals[1] /\ Len(removals) \in Nat \ {0}
    BY <1>2, EmptySeq
  <2>4. DOMAIN removals' = 1..Len(removals')
    BY <2>1, <2>2, LenProperties
  <2> QED
    BY <1>1, <1>2, <2>1, <2>2, <2>3, <2>4
<1>4. \A d \in Range(removals) : d # c => d \in Range(removals')
  <2> SUFFICES ASSUME NEW i \in DOMAIN removals, removals[i] # c
               PROVE  removals[i] \in Range(removals')
    BY DEF Range
  <2>1. i - 1 \in DOMAIN removals' /\ removals'[i - 1] = removals[i]
    BY <1>2, <1>3
  <2> QED
    BY <2>1 DEF Range
<1> DEFINE new == [conn[c] EXCEPT !.state_ = "kDisconnected"]
<1>5. /\ conn' = [conn EXCEPT ![c] = new] /\ connections_' = connections_ \ {c}
      /\ UNCHANGED <<pool_vars, backlog, open_fds, setups, refused>>
  BY <1>1, <1>2, <1>3 DEF RunRemoval, Removed
<1>6. /\ new \in Connections /\ new.fd = conn[c].fd /\ new.destroyed = conn[c].destroyed
      /\ new.closes = conn[c].closes /\ conn[c].closes > 0
  <2>1. conn[c].closes > 0
    BY <1>2, <1>3 DEF RemovalsOfClosed
  <2>2. conn[c] \in Connections
    BY <1>2, <1>3
  <2> QED
    BY <2>1, <2>2 DEF Connections
<1> HIDE DEF new
<1>7. /\ TypeOK' /\ Idle' /\ FdsAccounted' /\ Ids' = Ids
      /\ conn'[c] = new /\ \A d \in Ids : d # c => conn'[d] = conn[d]
      /\ Cardinality(connections_') <= max_connections_'
  <2>1. connections_' \subseteq connections_
    BY <1>5
  <2> QED
    BY <1>3, <1>5, <1>6, <2>1, ChangeKeepsTypes
<1>8. \A d \in Ids : conn'[d].closes = conn[d].closes /\ conn'[d].destroyed = conn[d].destroyed
  BY <1>6, <1>7
<1>9. RemovalsOfClosed' /\ \A i \in DOMAIN removals' : ~conn'[removals'[i]].destroyed
  <2>1. \A i \in DOMAIN removals : conn[removals[i]].closes > 0 /\ ~conn[removals[i]].destroyed
    BY <1>2 DEF RemovalsOfClosed, TableExact
  <2>2. \A i \in DOMAIN removals' : /\ conn'[removals'[i]].closes > 0
                                   /\ ~conn'[removals'[i]].destroyed
    <3> SUFFICES ASSUME NEW i \in DOMAIN removals'
                 PROVE  conn'[removals'[i]].closes > 0 /\ ~conn'[removals'[i]].destroyed
      OBVIOUS
    <3>1. PICK d \in Ids : d = removals'[i] /\ conn[d].closes > 0 /\ ~conn[d].destroyed
      BY <1>2, <1>3, <2>1
    <3> QED
      BY <1>8, <3>1
  <2> QED
    BY <2>2 DEF RemovalsOfClosed
<1>10. \A d \in Ids :
          IF conn'[d].closes = 0 THEN d \in connections_' /\ ~conn'[d].destroyed
                                 ELSE d \in connections_' => d \in Range(removals')
  <2> SUFFICES ASSUME NEW d \in Ids
               PROVE  IF conn'[d].closes = 0 THEN d \in connections_' /\ ~conn'[d].destroyed
                                             ELSE d \in connections_' => d \in Range(removals')
    OBVIOUS
  <2>1. IF conn[d].closes = 0 THEN d \in connections_ /\ ~conn[d].destroyed
                              ELSE d \in connections_ => d \in Range(removals)
    BY <1>2 DEF TableExact
  <2>2. d # c \/ conn[d].closes # 0
    BY <1>6, <1>2, <1>3 DEF Connections
  <2> QED
    BY <1>4, <1>5, <1>8, <2>1, <2>2
<1> QED
  BY <1>7, <1>9, <1>10 DEF IInv, TableExact

LEMMA DestroyKeeps ==
  ASSUME IInv, NEW c \in Ids, Destroy(c) PROVE IInv'
<1> DEFINE new == [conn[c] EXCEPT !.destroyed = TRUE]
<1>1. /\ TypeOK /\ Idle /\ TableExact /\ RemovalsOfClosed
      /\ Accounted(open_fds, setups, conn)
      /\ conn \in Seq(Connections) /\ DOMAIN conn = Ids /\ Ids = 1..Len(conn)
      /\ conn[c] \in Connections
      /\ \A i \in DOMAIN removals : removals[i] \in Ids
  BY FdsAccountedIs, SequenceFacts DEF IInv, TypeOK
<1>2. /\ conn' = [conn EXCEPT ![c] = new] /\ open_fds' = open_fds \ {conn[c].fd}
      /\ UNCHANGED <<pool_vars, backlog, setups, connections_, refused, removals>>
      /\ ~conn[c].destroyed /\ c \notin connections_ /\ c \notin Range(removals)
  BY <1>1 DEF Destroy, Referenced
<1>3. new \in Connections /\ new.destroyed /\ new.fd = conn[c].fd /\ new.closes = conn[c].closes
  BY <1>1 DEF Connections
<1> HIDE DEF new
<1>4. /\ conn' \in Seq(Connections) /\ DOMAIN conn' = Ids
      /\ conn'[c] = new /\ \A d \in Ids : d # c => conn'[d] = conn[d]
  BY <1>1, <1>2, <1>3, ExceptSeq
<1>5. Ids' = Ids
  BY <1>4 DEF Ids
<1>6. TypeOK' /\ Idle'
  BY <1>1, <1>2, <1>4, <1>5 DEF TypeOK, Idle, pool_vars
<1>7. FdsAccounted'
  <2>1. conn[c].fd \in OwnedFds(conn) /\ conn[c].fd \notin FdsOf(setups)
    BY <1>1, <1>2 DEF OwnedFds, Accounted
  <2>2. OwnedFds(conn') = OwnedFds(conn) \ {conn[c].fd} /\ Unshared(conn')
    BY <1>1, <1>2, <1>3, <1>4 DEF OwnedFds, Unshared, Accounted
  <2>3. Accounted(open_fds', setups', conn')
    BY <1>1, <1>2, <2>1, <2>2 DEF Accounted
  <2> QED
    BY <2>3, FdsAccountedNext
<1>8. RemovalsOfClosed' /\ \A i \in DOMAIN removals : removals[i] # c
  BY <1>1, <1>2, <1>3, <1>4 DEF RemovalsOfClosed, Range
<1>9. conn[c].closes # 0
  BY <1>1, <1>2 DEF TableExact
<1>10. TableExact'
  <2>1. \A d \in Ids :
           IF conn'[d].closes = 0 THEN d \in connections_ /\ ~conn'[d].destroyed
                                  ELSE d \in connections_ => d \in Range(removals)
    BY <1>1, <1>2, <1>3, <1>4, <1>9 DEF TableExact
  <2>2. \A i \in DOMAIN removals : ~conn'[removals[i]].destroyed
    BY <1>1, <1>4, <1>8 DEF TableExact
  <2>3. Cardinality(connections_) <= max_connections_ /\ UNCHANGED max_connections_
    BY <1>1, <1>2 DEF TableExact, pool_vars
  <2> QED
    BY <1>2, <1>5, <2>1, <2>2, <2>3 DEF TableExact
<1> QED
  BY <1>6, <1>7, <1>8, <1>10 DEF IInv

\* Steps outside the descriptors, the connections and the removals.
LEMMA FrameKeeps ==
  ASSUME IInv, UNCHANGED <<fd_vars, removals, num_threads_, max_connections_, next_>>,
         \/ UNCHANGED <<started_, accepting>>
         \/ started_' = TRUE /\ accepting' = TRUE,
         backlog' \in Seq(Clients)
  PROVE  IInv'
<1>1. Ids' = Ids
  BY DEF fd_vars, Ids
<1>2. FdsAccounted'
  <2>1. Accounted(open_fds', setups', conn')
    BY FdsAccountedIs DEF IInv, fd_vars, Accounted
  <2> QED
    BY <2>1, FdsAccountedNext
<1>3. TableExact' /\ RemovalsOfClosed'
  BY <1>1 DEF IInv, TableExact, RemovalsOfClosed, fd_vars
<1>4. /\ UNCHANGED <<open_fds, setups, conn, connections_, refused, removals>>
      /\ UNCHANGED <<num_threads_, max_connections_, next_>>
  BY DEF fd_vars
<1>5. started_' \in BOOLEAN /\ accepting' \in BOOLEAN
  <2>1. started_ \in BOOLEAN /\ accepting \in BOOLEAN
    BY DEF IInv, TypeOK
  <2> QED
    BY <2>1
<1>6. TypeOK /\ Idle /\ (~started_' => ~started_ /\ accepting' = accepting)
  BY DEF IInv
<1>7. TypeOK'
  BY <1>1, <1>4, <1>5, <1>6 DEF TypeOK
<1>8. Idle'
  BY <1>1, <1>4, <1>6 DEF Idle
<1> QED
  BY <1>2, <1>3, <1>7, <1>8 DEF IInv

LEMMA NextIInv == IInv /\ [Next]_vars => IInv'
<1> SUFFICES ASSUME IInv, [Next]_vars PROVE IInv'
  OBVIOUS
<1>1. backlog \in Seq(Clients)
  BY DEF IInv, TypeOK
<1>2. CASE UNCHANGED vars
  BY <1>1, <1>2, FrameKeeps DEF vars, pool_vars
<1>3. CASE start
  BY <1>1, <1>3, FrameKeeps DEF start
<1>4. ASSUME NEW k \in Clients, Connect(k) PROVE IInv'
  <2>1. backlog' \in Seq(Clients)
    BY <1>1, <1>4, AppendProperties DEF Connect
  <2> QED
    BY <1>4, <2>1, FrameKeeps DEF Connect, pool_vars
<1> QED
  BY <1>2, <1>3, <1>4, AcceptKeeps, RunSetUpKeeps, RunRemovalKeeps, SessionEndKeeps,
     HandleCloseKeeps, DestroyKeeps DEF Next

-----------------------------------------------------------------------------
(* The theorems *)

THEOREM InductiveInvariant == Spec => []IInv
  BY InitIInv, NextIInv, PTL DEF Spec

\* Types, whatever the numbers of threads, limits, descriptors and clients; and
\* a server that has not started has accepted nothing.
THEOREM TypeCorrect == Spec => []TypeOK
<1>1. IInv => TypeOK
  BY DEF IInv
<1> QED
  BY <1>1, InductiveInvariant, PTL

\* Every open descriptor is with exactly one task or one connection: none leaks,
\* none is shared, none is closed under its owner.
THEOREM DescriptorsAreAccounted == Spec => []FdsAccounted
<1>1. IInv => FdsAccounted
  BY DEF IInv
<1> QED
  BY <1>1, InductiveInvariant, PTL

\* However many loops set connections up at once, the table keeps its limit; it
\* holds every connection that is not closed, and a closed one only while its
\* removal is under way; a removal finds its connection alive.
THEOREM TableIsExact == Spec => []TableExact
<1>1. IInv => TableExact
  BY DEF IInv
<1> QED
  BY <1>1, InductiveInvariant, PTL
=============================================================================
