--------------------------- MODULE CaptureProofs ---------------------------
(***************************************************************************)
(* Proofs about Capture, for any set of ports, processes and destinations, *)
(* any hash size, any rules and any behaviour of the environment.          *)
(***************************************************************************)
EXTENDS Capture, FiniteSetTheorems, TLAPS

\* A source port always falls into a bucket of the table.
LEMMA HashInBucket == \A p \in Port : Hash(p) \in Bucket
BY TableAssumption DEF Hash, Bucket

\* The list walk of Get and Remove stops at an entry for the port.
LEMMA FirstIsMatch ==
    ASSUME NEW t, NEW p, IsTracked(t, p),
           \A i, j \in Matches(t, p) : i = j
    PROVE  FirstOf(Matches(t, p)) \in Matches(t, p)
<1>1. PICK i \in Matches(t, p) : TRUE BY DEF IsTracked
<1>2. i \in Nat BY <1>1 DEF Matches
<1>3. \A j \in Matches(t, p) : i <= j BY <1>1, <1>2
<1> QED BY <1>1, <1>3 DEF FirstOf

\* ... which is then the only one.
LEMMA GetIs ==
    ASSUME NEW t, NEW p, \A i, j \in Matches(t, p) : i = j, NEW k \in Matches(t, p)
    PROVE  Get(t, p) = t[Hash(p)][k]
<1>1. IsTracked(t, p) BY DEF IsTracked
<1>2. FirstOf(Matches(t, p)) = k BY <1>1, FirstIsMatch
<1> QED BY <1>2 DEF Get

\* Entries for other ports keep their positions in other buckets and only move
\* within p's own bucket; so Remove forgets p, and for no other port changes
\* what is found.
LEMMA RemoveForgets ==
    ASSUME NEW t \in Table, NEW p \in Port, IsTracked(t, p),
           \A q \in Port : \A i, j \in Matches(t, q) : i = j
    PROVE  /\ Remove(t, p) \in Table
           /\ \A q \in Port : IsTracked(Remove(t, p), q) <=> q # p /\ IsTracked(t, q)
           /\ \A q \in Port : \A i, j \in Matches(Remove(t, p), q) : i = j
           /\ \A q \in Port : q # p /\ IsTracked(t, q) => Get(Remove(t, p), q) = Get(t, q)
<1> DEFINE c == t[Hash(p)]
           k == FirstOf(Matches(t, p))
           d == Unlink(c, k)
           u == Remove(t, p)
<1>1. Hash(p) \in Bucket /\ c \in Seq(Entry) BY HashInBucket DEF Table
<1>2. k \in Matches(t, p) BY FirstIsMatch
<1>3. k \in 1..Len(c) /\ c[k].src_port = p BY <1>2 DEF Matches
<1>4. /\ d \in Seq(Entry) /\ Len(d) = Len(c) - 1
      /\ \A j \in 1..Len(d) : d[j] = IF j < k THEN c[j] ELSE c[j + 1]
  <2>1. Len(c) \in Nat /\ Len(c) - 1 \in Nat BY <1>1, <1>3
  <2>2. \A j \in 1..(Len(c) - 1) : (IF j < k THEN c[j] ELSE c[j + 1]) \in Entry
    BY <1>1, <1>3, <2>1
  <2> QED BY <2>1, <2>2 DEF Unlink
<1>5. u = [t EXCEPT ![Hash(p)] = d] BY DEF Remove
<1>6. u \in Table BY <1>1, <1>4, <1>5 DEF Table
<1>7. u[Hash(p)] = d BY <1>1, <1>5 DEF Table
<1>8. ASSUME NEW q \in Port, Hash(q) # Hash(p) PROVE Matches(u, q) = Matches(t, q)
  BY <1>1, <1>5, <1>8, HashInBucket DEF Matches, Table
<1>9. ASSUME NEW q \in Port, Hash(q) = Hash(p)
      PROVE  /\ \A i \in Matches(u, q) : (IF i < k THEN i ELSE i + 1) \in Matches(t, q)
             /\ q # p => \A i \in Matches(t, q) :
                           (IF i < k THEN i ELSE i - 1) \in Matches(u, q)
  <2>1. Matches(u, q) = {i \in 1..Len(d) : d[i].src_port = q} BY <1>7, <1>9 DEF Matches
  <2>2. Matches(t, q) = {i \in 1..Len(c) : c[i].src_port = q} BY <1>9 DEF Matches
  <2>3. Len(c) \in Nat BY <1>1
  <2>4. \A i \in Matches(u, q) : (IF i < k THEN i ELSE i + 1) \in Matches(t, q)
    BY <2>1, <2>2, <2>3, <1>3, <1>4
  <2>5. ASSUME q # p, NEW i \in Matches(t, q)
        PROVE  (IF i < k THEN i ELSE i - 1) \in Matches(u, q)
    <3>1. i # k /\ i \in 1..Len(c) BY <2>2, <2>5, <1>3
    <3> QED BY <3>1, <2>1, <2>2, <2>3, <1>3, <1>4
  <2> QED BY <2>4, <2>5
<1>10. \A q \in Port : \A i, j \in Matches(u, q) : i = j
  <2> SUFFICES ASSUME NEW q \in Port, NEW i \in Matches(u, q), NEW j \in Matches(u, q)
               PROVE  i = j
    OBVIOUS
  <2>1. CASE Hash(q) # Hash(p) BY <2>1, <1>8
  <2>2. CASE Hash(q) = Hash(p)
    <3>1. (IF i < k THEN i ELSE i + 1) = (IF j < k THEN j ELSE j + 1) BY <2>2, <1>9
    <3>2. i \in Nat /\ j \in Nat /\ k \in Nat BY <1>3 DEF Matches
    <3> QED BY <3>1, <3>2
  <2> QED BY <2>1, <2>2
<1>11. ASSUME NEW q \in Port PROVE IsTracked(u, q) <=> q # p /\ IsTracked(t, q)
  <2>1. CASE Hash(q) # Hash(p) BY <2>1, <1>8 DEF IsTracked
  <2>2. CASE Hash(q) = Hash(p) /\ q # p BY <2>2, <1>9 DEF IsTracked
  <2>3. CASE q = p
    <3> SUFFICES ASSUME NEW i \in Matches(u, p) PROVE FALSE BY <2>3 DEF IsTracked
    <3>1. (IF i < k THEN i ELSE i + 1) \in Matches(t, p) BY <1>9
    <3>2. (IF i < k THEN i ELSE i + 1) = k BY <3>1, <1>2
    <3>3. i \in Nat /\ k \in Nat BY <1>3 DEF Matches
    <3> QED BY <3>2, <3>3
  <2> QED BY <2>1, <2>2, <2>3
<1>12. ASSUME NEW q \in Port, q # p, IsTracked(t, q) PROVE Get(u, q) = Get(t, q)
  <2>1. CASE Hash(q) # Hash(p)
    <3>1. u[Hash(q)] = t[Hash(q)] BY <1>1, <1>5, <2>1, HashInBucket DEF Table
    <3>2. Matches(u, q) = Matches(t, q) BY <1>8, <2>1
    <3> QED BY <3>1, <3>2 DEF Get
  <2>2. CASE Hash(q) = Hash(p)
    <3>1. PICK i \in Matches(t, q) : TRUE BY <1>12 DEF IsTracked
    <3>2. i \in 1..Len(c) /\ c[i].src_port = q BY <2>2, <3>1 DEF Matches
    <3>3. i # k BY <1>3, <1>12, <3>2
    <3> DEFINE m == IF i < k THEN i ELSE i - 1
    <3>4. m \in Matches(u, q) BY <1>9, <1>12, <2>2
    <3>5. m \in 1..Len(d) BY <1>7, <2>2, <3>4 DEF Matches
    <3>6. d[m] = c[i]
      <4>1. d[m] = IF m < k THEN c[m] ELSE c[m + 1] BY <1>4, <3>5
      <4>2. i < k => m = i /\ m < k BY <1>3, <3>2
      <4>3. ~(i < k) => m + 1 = i /\ ~(m < k) BY <1>1, <1>3, <3>2, <3>3
      <4> HIDE DEF d, c, k, m
      <4> QED BY <4>1, <4>2, <4>3
    <3>7. Get(t, q) = c[i] BY <2>2, GetIs
    <3>8. Get(u, q) = d[m]
      <4> HIDE DEF d, m, u
      <4>1. Get(u, q) = u[Hash(q)][m] BY <1>10, <3>4, GetIs
      <4> QED BY <1>7, <2>2, <4>1
    <3> QED BY <3>6, <3>7, <3>8
  <2> QED BY <2>1, <2>2
<1> QED BY <1>6, <1>10, <1>11, <1>12

\* Add of a port that is not in the table files exactly one entry for it.
LEMMA AddFiles ==
    ASSUME NEW t \in Table, NEW p \in Port, NEW ip \in Ip, NEW dp \in DstPort,
           ~IsTracked(t, p),
           \A q \in Port : \A i, j \in Matches(t, q) : i = j
    PROVE  /\ SameKey(t, p, ip) = {}
           /\ Add(t, p, ip, dp) \in Table
           /\ \A q \in Port : IsTracked(Add(t, p, ip, dp), q) <=> q = p \/ IsTracked(t, q)
           /\ \A q \in Port : \A i, j \in Matches(Add(t, p, ip, dp), q) : i = j
           /\ \A q \in Port : q # p /\ IsTracked(t, q) =>
                 Get(Add(t, p, ip, dp), q) = Get(t, q)
           /\ Get(Add(t, p, ip, dp), p).orig_dest_ip = ip
           /\ Get(Add(t, p, ip, dp), p).orig_dest_port = dp
<1> DEFINE c == t[Hash(p)]
           e == [src_port |-> p, orig_dest_ip |-> ip, orig_dest_port |-> dp, pid |-> NoPid]
           d == <<e>> \o c
           u == Add(t, p, ip, dp)
<1>1. Hash(p) \in Bucket /\ c \in Seq(Entry) BY HashInBucket DEF Table
<1>2. SameKey(t, p, ip) = {} BY DEF SameKey, IsTracked
<1>3. u = [t EXCEPT ![Hash(p)] = d] BY <1>2 DEF Add
<1>4. e \in Entry BY DEF Entry
<1>5. /\ d \in Seq(Entry) /\ Len(d) = Len(c) + 1
      /\ \A j \in 1..Len(d) : d[j] = IF j = 1 THEN e ELSE c[j - 1]
  BY <1>1, <1>4
<1>6. u \in Table BY <1>1, <1>3, <1>5 DEF Table
<1>7. u[Hash(p)] = d BY <1>1, <1>3 DEF Table
<1>8. ASSUME NEW q \in Port, Hash(q) # Hash(p) PROVE Matches(u, q) = Matches(t, q)
  BY <1>1, <1>3, <1>8, HashInBucket DEF Matches, Table
<1>9. ASSUME NEW q \in Port, Hash(q) = Hash(p)
      PROVE  /\ \A i \in Matches(u, q) :
                   IF i = 1 THEN q = p ELSE i - 1 \in Matches(t, q)
             /\ \A i \in Matches(t, q) : i + 1 \in Matches(u, q)
             /\ q = p => 1 \in Matches(u, q)
  <2>1. Matches(u, q) = {i \in 1..Len(d) : d[i].src_port = q} BY <1>7, <1>9 DEF Matches
  <2>2. Matches(t, q) = {i \in 1..Len(c) : c[i].src_port = q} BY <1>9 DEF Matches
  <2>3. Len(c) \in Nat BY <1>1
  <2> QED BY <2>1, <2>2, <2>3, <1>5
<1>10. \A q \in Port : \A i, j \in Matches(u, q) : i = j
  <2> SUFFICES ASSUME NEW q \in Port, NEW i \in Matches(u, q), NEW j \in Matches(u, q)
               PROVE  i = j
    OBVIOUS
  <2>1. CASE Hash(q) # Hash(p) BY <2>1, <1>8
  <2>2. CASE Hash(q) = Hash(p)
    <3>1. i \in Nat /\ j \in Nat BY DEF Matches
    <3>2. CASE q = p
      <4>1. Matches(t, p) = {} BY DEF IsTracked
      <4> QED BY <4>1, <3>2, <1>9
    <3>3. CASE q # p
      <4>1. i # 1 /\ j # 1 /\ i - 1 \in Matches(t, q) /\ j - 1 \in Matches(t, q)
        BY <3>3, <2>2, <1>9
      <4>2. i - 1 = j - 1 BY <4>1
      <4> QED BY <4>2, <3>1
    <3> QED BY <3>2, <3>3
  <2> QED BY <2>1, <2>2
<1>11. ASSUME NEW q \in Port PROVE IsTracked(u, q) <=> q = p \/ IsTracked(t, q)
  <2>1. CASE Hash(q) # Hash(p)
    <3>1. q # p BY <2>1
    <3> QED BY <3>1, <2>1, <1>8 DEF IsTracked
  <2>2. CASE Hash(q) = Hash(p)
    <3>1. IsTracked(u, q) => q = p \/ IsTracked(t, q)
      BY <2>2, <1>9 DEF IsTracked
    <3>2. q = p \/ IsTracked(t, q) => IsTracked(u, q)
      BY <2>2, <1>9 DEF IsTracked
    <3> QED BY <3>1, <3>2
  <2> QED BY <2>1, <2>2
<1>12. ASSUME NEW q \in Port, q # p, IsTracked(t, q) PROVE Get(u, q) = Get(t, q)
  <2>1. CASE Hash(q) # Hash(p)
    <3>1. u[Hash(q)] = t[Hash(q)] BY <1>1, <1>3, <2>1, HashInBucket DEF Table
    <3>2. Matches(u, q) = Matches(t, q) BY <1>8, <2>1
    <3> QED BY <3>1, <3>2 DEF Get
  <2>2. CASE Hash(q) = Hash(p)
    <3>1. PICK i \in Matches(t, q) : TRUE BY <1>12 DEF IsTracked
    <3>2. i \in 1..Len(c) BY <2>2, <3>1 DEF Matches
    <3>3. i + 1 \in Matches(u, q) BY <1>9, <2>2
    <3>4. d[i + 1] = c[i]
      <4>1. i + 1 \in 1..Len(d) /\ i + 1 # 1 /\ (i + 1) - 1 = i BY <1>1, <1>5, <3>2
      <4> HIDE DEF d, c, e
      <4> QED BY <1>5, <4>1
    <3>5. Get(t, q) = c[i] BY <2>2, GetIs
    <3>6. Get(u, q) = d[i + 1]
      <4> HIDE DEF d, u
      <4>1. Get(u, q) = u[Hash(q)][i + 1] BY <1>10, <3>3, GetIs
      <4> QED BY <1>7, <2>2, <4>1
    <3> QED BY <3>4, <3>5, <3>6
  <2> QED BY <2>1, <2>2
<1>13. Get(u, p) = e
  <2>1. 1 \in Matches(u, p) BY <1>9
  <2>2. 1 \in 1..Len(d) BY <1>1, <1>5
  <2>3. d[1] = e BY <1>5, <2>2
  <2> HIDE DEF d, u, e
  <2>4. Get(u, p) = u[Hash(p)][1] BY <1>10, <2>1, GetIs
  <2> QED BY <1>7, <2>3, <2>4
<1> QED BY <1>2, <1>6, <1>10, <1>11, <1>12, <1>13

\* Two entries lead to the same destination.
SameDest(e, f) ==
    e.orig_dest_ip = f.orig_dest_ip /\ e.orig_dest_port = f.orig_dest_port

\* SetProcessInfo writes a PID into p's entry and moves nothing.
LEMMA SetProcessInfoKeeps ==
    ASSUME NEW t \in Table, NEW p \in Port, NEW a \in App \cup {NoPid}, IsTracked(t, p),
           \A q \in Port : \A i, j \in Matches(t, q) : i = j
    PROVE  /\ SetProcessInfo(t, p, a) \in Table
           /\ \A q \in Port : Matches(SetProcessInfo(t, p, a), q) = Matches(t, q)
           /\ \A q \in Port : IsTracked(t, q) =>
                 SameDest(Get(SetProcessInfo(t, p, a), q), Get(t, q))
<1> DEFINE c == t[Hash(p)]
           k == FirstOf(Matches(t, p))
           e == [c[k] EXCEPT !.pid = a]
           d == [c EXCEPT ![k] = e]
           u == SetProcessInfo(t, p, a)
<1>1. Hash(p) \in Bucket /\ c \in Seq(Entry) BY HashInBucket DEF Table
<1>2. k \in 1..Len(c) BY FirstIsMatch DEF Matches
<1>3. e \in Entry /\ e.src_port = c[k].src_port /\ SameDest(e, c[k])
  <2>1. c[k] \in Entry BY <1>1, <1>2
  <2> QED BY <2>1 DEF Entry, SameDest
<1>4. d \in Seq(Entry) /\ Len(d) = Len(c) BY <1>1, <1>2, <1>3
<1>5. \A i \in 1..Len(c) : d[i].src_port = c[i].src_port /\ SameDest(d[i], c[i])
  <2>1. \A i \in 1..Len(c) : d[i] = IF i = k THEN e ELSE c[i] BY <1>1, <1>2, <1>3
  <2> HIDE DEF d, e
  <2> QED BY <1>3, <2>1 DEF SameDest
<1>6. u = [t EXCEPT ![Hash(p)] = d] BY DEF SetProcessInfo
<1>7. u \in Table BY <1>1, <1>4, <1>6 DEF Table
<1>8. ASSUME NEW q \in Port PROVE Matches(u, q) = Matches(t, q)
  <2>1. CASE Hash(q) # Hash(p)
    BY <1>1, <1>6, <2>1, HashInBucket DEF Matches, Table
  <2>2. CASE Hash(q) = Hash(p)
    <3>1. u[Hash(q)] = d BY <1>1, <1>6, <2>2 DEF Table
    <3> HIDE DEF d
    <3> QED BY <3>1, <2>2, <1>4, <1>5 DEF Matches
  <2> QED BY <2>1, <2>2
<1>9. ASSUME NEW q \in Port, IsTracked(t, q) PROVE SameDest(Get(u, q), Get(t, q))
  <2> HIDE DEF d, u
  <2>1. PICK i \in Matches(t, q) : TRUE BY <1>9 DEF IsTracked
  <2>2. Get(t, q) = t[Hash(q)][i] /\ Get(u, q) = u[Hash(q)][i]
    BY <1>8, <2>1, GetIs
  <2>3. CASE Hash(q) # Hash(p)
    <3>1. u[Hash(q)] = t[Hash(q)] BY <1>1, <1>6, <2>3, HashInBucket DEF Table
    <3> QED BY <2>2, <3>1 DEF SameDest
  <2>4. CASE Hash(q) = Hash(p)
    <3>1. u[Hash(q)] = d BY <1>1, <1>6, <2>4 DEF Table
    <3>2. i \in 1..Len(c) BY <2>1, <2>4 DEF Matches
    <3> QED BY <1>5, <2>2, <2>4, <3>1, <3>2
  <2> QED BY <2>3, <2>4
<1> QED BY <1>7, <1>8, <1>9

\* The three table effects of the loop, in the words of the invariant: the
\* set of tracked ports, the number of them, one entry for each.
LEMMA RemoveTracked ==
    ASSUME TypeOK, OneEntryPerPort, NEW p \in Port, IsTracked(table, p),
           table' = Remove(table, p)
    PROVE  /\ table' \in Table /\ OneEntryPerPort' /\ Tracked' = Tracked \ {p} /\ p \in Tracked
           /\ \A q \in Tracked : q # p => SameDest(Get(table', q), Get(table, q))
<1>1. table \in Table BY DEF TypeOK
<1>2. \A q \in Port : \A i, j \in Matches(table, q) : i = j BY DEF OneEntryPerPort
<1> QED BY <1>1, <1>2, RemoveForgets DEF OneEntryPerPort, Tracked, SameDest

\* Add makes a port tracked, and no other.
LEMMA AddTracked ==
    ASSUME TypeOK, OneEntryPerPort, NEW p \in Port, ~IsTracked(table, p),
           NEW ip \in Ip, NEW dp \in DstPort, NEW a \in App \cup {NoPid},
           table' = SetProcessInfo(Add(table, p, ip, dp), p, a)
    PROVE  /\ table' \in Table /\ OneEntryPerPort'
           /\ Tracked' = Tracked \cup {p} /\ p \notin Tracked
           /\ SameKey(table, p, ip) = {}
           /\ \A q \in Tracked : SameDest(Get(table', q), Get(table, q))
           /\ Get(table', p).orig_dest_ip = ip /\ Get(table', p).orig_dest_port = dp
<1> DEFINE m == Add(table, p, ip, dp)
<1>1. table \in Table BY DEF TypeOK
<1>2. \A q \in Port : \A i, j \in Matches(table, q) : i = j BY DEF OneEntryPerPort
<1>3. /\ SameKey(table, p, ip) = {}
      /\ m \in Table
      /\ \A q \in Port : IsTracked(m, q) <=> q = p \/ IsTracked(table, q)
      /\ \A q \in Port : \A i, j \in Matches(m, q) : i = j
      /\ \A q \in Port : q # p /\ IsTracked(table, q) => Get(m, q) = Get(table, q)
      /\ Get(m, p).orig_dest_ip = ip /\ Get(m, p).orig_dest_port = dp
  BY <1>1, <1>2, AddFiles
<1> HIDE DEF m
<1>4. /\ table' \in Table
      /\ \A q \in Port : Matches(table', q) = Matches(m, q)
      /\ \A q \in Port : IsTracked(m, q) => SameDest(Get(table', q), Get(m, q))
  <2>1. table' = SetProcessInfo(m, p, a) BY DEF m
  <2>2. IsTracked(m, p) BY <1>3
  <2> QED BY <1>3, <2>1, <2>2, SetProcessInfoKeeps
<1>5. OneEntryPerPort' BY <1>3, <1>4 DEF OneEntryPerPort
<1>6. \A q \in Port : IsTracked(table', q) <=> IsTracked(m, q) BY <1>4 DEF IsTracked
<1>7. Tracked' = Tracked \cup {p} BY <1>3, <1>6 DEF Tracked
<1>8. \A q \in Tracked : SameDest(Get(table', q), Get(table, q))
  BY <1>3, <1>4 DEF Tracked
<1>9. Get(table', p).orig_dest_ip = ip /\ Get(table', p).orig_dest_port = dp
  BY <1>3, <1>4 DEF SameDest
<1> QED BY <1>3, <1>4, <1>5, <1>7, <1>8, <1>9 DEF Tracked

\* An unchanged table tracks the same ports.
LEMMA SameTable ==
    ASSUME OneEntryPerPort, UNCHANGED table
    PROVE  OneEntryPerPort' /\ Tracked' = Tracked
BY DEF OneEntryPerPort, Tracked

\* What the environment records of a packet is a connection again.
LEMMA RecordTyped ==
    ASSUME TypeOK, NEW p \in Port, NEW fin \in BOOLEAN, conn[p] # NoConn,
           NEW way \in {"none", "direct", "relay", "block"}, Record(p, fin, way)
    PROVE  conn' \in [Port -> Conn \cup {NoConn}]
<1>1. conn[p] \in Conn /\ conn \in [Port -> Conn \cup {NoConn}] BY DEF TypeOK
<1> QED BY <1>1 DEF Record, Conn

\* The PID CheckProcessRule works with, and what it leaves behind, are typed.
LEMMA JudgeTyped ==
    ASSUME TypeOK, NEW p \in Port, NEW fin \in BOOLEAN,
           NEW verdict \in {"direct", "relay", "block"}, Judge(p, fin, verdict)
    PROVE  /\ conn[p] \in Conn
           /\ FindPid(p) \in App \cup {NoPid}
           /\ pidCache' \in [Port -> App \cup {NoPid, Miss}]
           /\ targetPid' \in App \cup {NoPid}
           /\ conn' \in [Port -> Conn \cup {NoConn}]
<1>1. conn[p] \in Conn BY DEF Judge, Verdict, ClientSends, TypeOK
<1>2. FindPid(p) \in App \cup {NoPid} BY <1>1 DEF FindPid, TypeOK, Conn
<1>3. pidCache' \in [Port -> App \cup {NoPid, Miss}]
  <2>1. pidCache' = CachedPid(p) BY DEF Judge, Verdict
  <2> QED BY <2>1, <1>2 DEF CachedPid, TypeOK
<1>4. targetPid' \in App \cup {NoPid}
  <2>1. LearnTarget(FindPid(p)) BY DEF Judge, Verdict
  <2>2. TargetCandidates \subseteq App /\ TargetPath \subseteq App
    BY CaptureAssumption DEF TargetCandidates
  <2> QED BY <2>1, <2>2, <1>2 DEF LearnTarget, TypeOK
<1>5. conn' \in [Port -> Conn \cup {NoConn}]
  <2>1. Record(p, fin, verdict) /\ conn[p] # NoConn BY DEF Judge, Verdict, ClientSends
  <2> QED BY <2>1, RecordTyped
<1> QED BY <1>1, <1>2, <1>3, <1>4, <1>5

\* The invariant: the five facts need each other.  One entry per port makes
\* Remove forget the port; that keeps the count exact, the monitor ahead of
\* the table and direct ports out of it.
IInv ==
    /\ TypeOK
    /\ OneEntryPerPort
    /\ DirectIsUntracked
    /\ TrackedIsMonitored
    /\ CountExact

\* The set forms of the last two facts, and that the port set is finite.
LEMMA DirectSets ==
    ASSUME TypeOK
    PROVE  DirectIsUntracked <=> direct \subseteq decided \ Tracked
BY DEF DirectIsUntracked, Tracked, TypeOK

\* The same after a step.
LEMMA DirectSetsPrimed ==
    ASSUME TypeOK'
    PROVE  DirectIsUntracked' <=> direct' \subseteq decided' \ Tracked'
BY DEF DirectIsUntracked, Tracked, TypeOK

\* The tracked ports are finitely many.
LEMMA TrackedFinite == IsFiniteSet(Tracked)
<1>1. Tracked \subseteq Port BY DEF Tracked
<1> QED BY <1>1, TableAssumption, FS_Subset

\* Closing a tracked port, from either side.
LEMMA ForgetCount ==
    ASSUME CountExact, NEW p \in Tracked, Tracked' = Tracked \ {p},
           trackedCount' = IF trackedCount > 0 THEN trackedCount - 1 ELSE 0
    PROVE  CountExact' /\ trackedCount' \in Nat
<1>1. IsFiniteSet(Tracked) BY TrackedFinite
<1>2. Cardinality(Tracked) \in Nat BY <1>1, FS_CardinalityType
<1>3. Cardinality(Tracked \ {p}) = Cardinality(Tracked) - 1 BY <1>1, FS_RemoveElement
<1>4. Tracked # {} BY DEF Tracked
<1>5. Cardinality(Tracked) # 0 BY <1>1, <1>4, FS_EmptySet
<1> QED BY <1>2, <1>3, <1>5 DEF CountExact

\* Filing a new port.
LEMMA FileCount ==
    ASSUME CountExact, NEW p \in Port, p \notin Tracked, Tracked' = Tracked \cup {p},
           trackedCount' = trackedCount + 1
    PROVE  CountExact' /\ trackedCount' \in Nat
<1>1. IsFiniteSet(Tracked) BY TrackedFinite
<1>2. Cardinality(Tracked) \in Nat BY <1>1, FS_CardinalityType
<1>3. Cardinality(Tracked \cup {p}) = Cardinality(Tracked) + 1 BY <1>1, FS_AddElement
<1> QED BY <1>2, <1>3 DEF CountExact

\* Init establishes the invariant: an empty table, empty bitmaps.
LEMMA InitInv == Init => IInv
<1> SUFFICES ASSUME Init PROVE IInv OBVIOUS
<1>1. table \in Table /\ \A p \in Port : Matches(table, p) = {}
  BY HashInBucket DEF Init, EmptyTable, Table, Matches
<1>2. Tracked = {} BY <1>1 DEF Tracked, IsTracked
<1>3. TypeOK
  <2>1. pidCache \in [Port -> App \cup {NoPid, Miss}] BY DEF Init
  <2>2. conn \in [Port -> Conn \cup {NoConn}] /\ opened \in [Port -> Nat] BY DEF Init
  <2> QED BY <1>1, <2>1, <2>2 DEF Init, TypeOK
<1>4. OneEntryPerPort BY <1>1 DEF OneEntryPerPort
<1>5. DirectIsUntracked /\ TrackedIsMonitored
  BY <1>2 DEF Init, DirectIsUntracked, TrackedIsMonitored
<1>6. CountExact BY <1>2, FS_EmptySet DEF CountExact, Init
<1> QED BY <1>3, <1>4, <1>5, <1>6 DEF IInv

\* Steps that leave the table, its count and the monitor alone.
LEMMA TableKept ==
    ASSUME IInv, UNCHANGED <<table, trackedCount, monitor>>, TypeOK',
           direct' \subseteq decided' \ Tracked
    PROVE  IInv'
<1>1. OneEntryPerPort' /\ Tracked' = Tracked BY SameTable DEF IInv
<1>2. DirectIsUntracked' BY <1>1, DirectSetsPrimed
<1>3. TrackedIsMonitored' BY <1>1 DEF IInv, TrackedIsMonitored
<1>4. CountExact' BY <1>1 DEF IInv, CountExact
<1> QED BY <1>1, <1>2, <1>3, <1>4 DEF IInv

\* Steps of the loop preserve the invariant, whatever way the packet takes.
LEMMA LoopInv ==
    ASSUME IInv, NEW p \in Port, NEW fin \in BOOLEAN,
           ClientPacket(p, fin) \/ RelayPacket(p, fin)
    PROVE  IInv'
<1>1. TypeOK /\ OneEntryPerPort /\ direct \subseteq decided \ Tracked
  BY DirectSets DEF IInv
<1>2. CASE Step1Direct(p, fin)
  <2>1. conn' \in [Port -> Conn \cup {NoConn}]
    BY <1>1, <1>2, RecordTyped DEF Step1Direct, ClientSends
  <2>2. TypeOK'
    BY <1>1, <1>2, <2>1 DEF Step1Direct, TypeOK, loopVars, confVars
  <2> QED BY <1>1, <1>2, <2>2, TableKept DEF Step1Direct, loopVars
<1>3. CASE Step2Restore(p, fin)
  <2>1. conn' \in [Port -> Conn \cup {NoConn}]
    <3>1. conn \in [Port -> Conn \cup {NoConn}] BY <1>1 DEF TypeOK
    <3>2. conn[p] # NoConn => conn[p] \in Conn BY <3>1
    <3> QED BY <1>3, <3>1, <3>2 DEF Step2Restore, Conn
  <2>2. CASE fin = FALSE
    <3>1. UNCHANGED <<table, trackedCount, decided, direct, monitor>>
      BY <1>3, <2>2 DEF Step2Restore
    <3>2. TypeOK' BY <1>1, <1>3, <2>1, <3>1 DEF Step2Restore, TypeOK, confVars
    <3> QED BY <1>1, <3>1, <3>2, TableKept
  <2>3. CASE fin = TRUE
    <3>1. /\ table' = Remove(table, p) /\ IsTracked(table, p)
          /\ trackedCount' = IF trackedCount > 0 THEN trackedCount - 1 ELSE 0
          /\ decided' = decided \ {p} /\ direct' = direct \ {p}
          /\ UNCHANGED monitor
      BY <1>3, <2>3 DEF Step2Restore
    <3>2. table' \in Table /\ OneEntryPerPort' /\ Tracked' = Tracked \ {p} /\ p \in Tracked
      BY <1>1, <3>1, RemoveTracked
    <3>3. CountExact' /\ trackedCount' \in Nat BY <3>1, <3>2, ForgetCount DEF IInv
    <3>4. TypeOK'
      BY <1>1, <1>3, <2>1, <3>1, <3>2, <3>3 DEF Step2Restore, TypeOK, confVars
    <3>5. DirectIsUntracked' BY <1>1, <3>1, <3>2, <3>4, DirectSetsPrimed
    <3>6. TrackedIsMonitored' BY <3>1, <3>2 DEF IInv, TrackedIsMonitored
    <3> QED BY <3>2, <3>3, <3>4, <3>5, <3>6 DEF IInv
  <2> QED BY <2>2, <2>3
<1>4. CASE Step2Stray(p)
  <2>1. UNCHANGED <<table, trackedCount, monitor, direct, decided>> /\ TypeOK'
    BY <1>1, <1>4 DEF Step2Stray, vars, loopVars, confVars, envVars, TypeOK
  <2> QED BY <1>1, <2>1, TableKept
<1>5. CASE Step3Tracked(p, fin)
  <2>1. conn' \in [Port -> Conn \cup {NoConn}]
    BY <1>1, <1>5, RecordTyped DEF Step3Tracked, ClientSends
  <2>2. CASE fin = FALSE
    <3>1. UNCHANGED <<table, trackedCount, decided, direct, monitor>>
      BY <1>5, <2>2 DEF Step3Tracked
    <3>2. TypeOK' BY <1>1, <1>5, <2>1, <3>1 DEF Step3Tracked, TypeOK, confVars
    <3> QED BY <1>1, <3>1, <3>2, TableKept
  <2>3. CASE fin = TRUE
    <3>1. /\ table' = Remove(table, p) /\ IsTracked(table, p)
          /\ trackedCount' = IF trackedCount > 0 THEN trackedCount - 1 ELSE 0
          /\ decided' = decided \ {p} /\ direct' = direct \ {p}
          /\ monitor' = monitor \ {p}
      BY <1>5, <2>3 DEF Step3Tracked
    <3>2. table' \in Table /\ OneEntryPerPort' /\ Tracked' = Tracked \ {p} /\ p \in Tracked
      BY <1>1, <3>1, RemoveTracked
    <3>3. CountExact' /\ trackedCount' \in Nat BY <3>1, <3>2, ForgetCount DEF IInv
    <3>4. TypeOK'
      BY <1>1, <1>5, <2>1, <3>1, <3>2, <3>3 DEF Step3Tracked, TypeOK, confVars
    <3>5. DirectIsUntracked' BY <1>1, <3>1, <3>2, <3>4, DirectSetsPrimed
    <3>6. TrackedIsMonitored' BY <3>1, <3>2 DEF IInv, TrackedIsMonitored
    <3> QED BY <3>2, <3>3, <3>4, <3>5, <3>6 DEF IInv
  <2> QED BY <2>2, <2>3
<1>6. CASE Step4Direct(p, fin) \/ Step4Block(p, fin)
  <2>1. PICK v \in {"direct", "block"} : Judge(p, fin, v)
    BY <1>6 DEF Step4Direct, Step4Block
  <2>2. p \notin Tracked BY <2>1 DEF Judge, Verdict, Tracked
  <2>3. /\ decided' = AfterStep1(decided, p, fin) \cup {p}
        /\ direct' \subseteq AfterStep1(direct, p, fin) \cup {p}
        /\ UNCHANGED <<table, trackedCount, monitor, atRelay>>
    BY <1>6 DEF Step4Direct, Step4Block
  <2>4. direct' \subseteq decided' \ Tracked
    BY <1>1, <2>2, <2>3 DEF AfterStep1
  <2>5. TypeOK'
    <3>1. decided' \subseteq Port /\ direct' \subseteq Port
      BY <1>1, <2>3 DEF AfterStep1, TypeOK
    <3> QED BY <1>1, <2>1, <2>3, <3>1, JudgeTyped DEF Judge, Verdict, TypeOK, confVars
  <2> QED BY <2>3, <2>4, <2>5, TableKept
<1>7. CASE Step4Proxy(p, fin)
  <2>1. Judge(p, fin, "relay") BY <1>7 DEF Step4Proxy
  <2>2. /\ conn[p].ip \in Ip /\ conn[p].dport \in DstPort
        /\ FindPid(p) \in App \cup {NoPid}
    BY <1>1, <2>1, JudgeTyped DEF Conn
  <2>3. ~IsTracked(table, p) BY <2>1 DEF Judge, Verdict
  <2>4. /\ table' \in Table /\ OneEntryPerPort'
        /\ Tracked' = Tracked \cup {p} /\ p \notin Tracked
        /\ SameKey(table, p, conn[p].ip) = {}
    <3>1. table' = SetProcessInfo(Add(table, p, conn[p].ip, conn[p].dport), p, FindPid(p))
      BY <1>7 DEF Step4Proxy
    <3> QED BY <1>1, <2>2, <2>3, <3>1, AddTracked
  <2>5. CountExact' /\ trackedCount' \in Nat
    <3>1. trackedCount' = trackedCount + 1 BY <1>7, <2>4 DEF Step4Proxy
    <3> QED BY <3>1, <2>4, FileCount DEF IInv
  <2>6. /\ monitor' = monitor \cup {p} /\ atRelay' = atRelay \cup {p}
        /\ decided' = AfterStep1(decided, p, fin) \cup {p}
        /\ direct' = AfterStep1(direct, p, fin)
    BY <1>7 DEF Step4Proxy
  <2>7. TypeOK'
    <3>1. decided' \subseteq Port /\ direct' \subseteq Port /\ monitor' \subseteq Port
          /\ atRelay' \subseteq Port
      BY <1>1, <2>6 DEF AfterStep1, TypeOK
    <3> QED BY <1>1, <2>1, <2>4, <2>5, <3>1, JudgeTyped DEF Judge, Verdict, TypeOK, confVars
  <2>8. p \notin direct'
    <3>1. PassesStep1(p, fin) BY <2>1 DEF Judge, Verdict
    <3> QED BY <1>1, <2>6, <3>1 DEF PassesStep1, AfterStep1
  <2>9. DirectIsUntracked'
    <3>1. direct' \subseteq decided' \ Tracked' BY <1>1, <2>4, <2>6, <2>8 DEF AfterStep1
    <3> QED BY <3>1, <2>7, DirectSetsPrimed
  <2>10. TrackedIsMonitored' BY <2>4, <2>6 DEF IInv, TrackedIsMonitored
  <2> QED BY <2>4, <2>5, <2>7, <2>9, <2>10 DEF IInv
<1> QED BY <1>2, <1>3, <1>4, <1>5, <1>6, <1>7 DEF ClientPacket, RelayPacket

\* Control and environment touch neither the table nor the monitor.
LEMMA OutsideInv ==
    ASSUME IInv, Control \/ Environment
    PROVE  IInv'
<1>1. TypeOK /\ direct \subseteq decided \ Tracked BY DirectSets DEF IInv
<1> USE DEF loopVars, confVars, envVars
<1>2. CASE Open
  <2>1. TypeOK' BY <1>1, <1>2 DEF Open, TypeOK
  <2> QED BY <1>2, <2>1, TableKept DEF Open
<1>3. CASE Close \/ SetProxyConfig \/ \E r \in RuleSets : SetRules(r)
  <2>1. TypeOK' BY <1>1, <1>3 DEF Close, SetProxyConfig, SetRules, TypeOK
  <2> QED BY <1>1, <1>3, <2>1, TableKept DEF Close, SetProxyConfig, SetRules
<1>4. ASSUME NEW p \in Port, NEW a \in App, NEW ip \in Ip, NEW d \in DstPort,
             Connect(p, a, ip, d)
      PROVE  IInv'
  <2>1. PICK r \in {"owned", "absent"} :
          conn' = [conn EXCEPT ![p] = [app |-> a, ip |-> ip, dport |-> d, row |-> r,
                                       fin |-> {}, via |-> "none", known |-> FALSE]]
    BY <1>4 DEF Connect
  <2>2. conn' \in [Port -> Conn \cup {NoConn}] BY <1>1, <2>1 DEF TypeOK, Conn
  <2>3. opened' \in [Port -> Nat] BY <1>1, <1>4 DEF Connect, TypeOK
  <2>4. TypeOK' BY <1>1, <1>4, <2>2, <2>3 DEF Connect, TypeOK
  <2> QED BY <1>1, <1>4, <2>4, TableKept DEF Connect
<1>5. ASSUME NEW p \in Port, Listed(p) \/ TimeWait(p) \/ Release(p)
      PROVE  IInv'
  <2>1. conn' \in [Port -> Conn \cup {NoConn}]
    <3>1. conn \in [Port -> Conn \cup {NoConn}] /\ conn[p] \in Conn
      BY <1>1, <1>5 DEF Listed, TimeWait, Release, TypeOK
    <3> QED BY <1>5, <3>1 DEF Listed, TimeWait, Release, Conn
  <2>2. TypeOK' BY <1>1, <1>5, <2>1 DEF Listed, TimeWait, Release, TypeOK
  <2> QED BY <1>1, <1>5, <2>2, TableKept DEF Listed, TimeWait, Release
<1>6. ASSUME NEW p \in Port, RelayDone(p) \/ PidExpire(p)
      PROVE  IInv'
  <2>1. TypeOK' BY <1>1, <1>6 DEF RelayDone, PidExpire, TypeOK
  <2> QED BY <1>1, <1>6, <2>1, TableKept DEF RelayDone, PidExpire
<1>7. ASSUME NEW p \in Port, NEW fin \in BOOLEAN, Bypass(p, fin)
      PROVE  IInv'
  <2>1. conn' \in [Port -> Conn \cup {NoConn}] BY <1>1, <1>7, RecordTyped DEF Bypass
  <2>2. TypeOK' BY <1>1, <1>7, <2>1 DEF Bypass, TypeOK
  <2> QED BY <1>1, <1>7, <2>2, TableKept DEF Bypass
<1> QED BY <1>2, <1>3, <1>4, <1>5, <1>6, <1>7 DEF Control, Environment

\* The invariant is inductive.
THEOREM CaptureInductive == Spec => []IInv
<1>1. ASSUME IInv, [Next]_vars PROVE IInv'
  <2>1. CASE Loop BY <1>1, <2>1, LoopInv DEF Loop
  <2>2. CASE Control \/ Environment BY <1>1, <2>2, OutsideInv
  <2>3. CASE UNCHANGED vars
    <3>1. TypeOK' /\ UNCHANGED <<table, trackedCount, monitor, direct, decided>>
      BY <1>1, <2>3 DEF IInv, TypeOK, vars, loopVars, confVars, envVars
    <3>2. direct \subseteq decided \ Tracked BY <1>1, DirectSets DEF IInv
    <3> QED BY <1>1, <3>1, <3>2, TableKept
  <2> QED BY <1>1, <2>1, <2>2, <2>3 DEF Next
<1> QED BY InitInv, <1>1, PTL DEF Spec

\* Types.
THEOREM CaptureTypeCorrect == Spec => []TypeOK
<1>1. IInv => TypeOK BY DEF IInv
<1> QED BY <1>1, CaptureInductive, PTL

\* Lookups by source port are unambiguous: the table never holds two entries
\* for one port, in any history of connects, closes, restarts and rules.
THEOREM TableKeyedByPort == Spec => []OneEntryPerPort
<1>1. IInv => OneEntryPerPort BY DEF IInv
<1> QED BY <1>1, CaptureInductive, PTL

\* The bitmap fast path and the table never disagree about a port.
THEOREM FastPathSound == Spec => []DirectIsUntracked
<1>1. IInv => DirectIsUntracked BY DEF IInv
<1> QED BY <1>1, CaptureInductive, PTL

\* Every redirected connection is in the monitor.
THEOREM MonitorComplete == Spec => []TrackedIsMonitored
<1>1. IInv => TrackedIsMonitored BY DEF IInv
<1> QED BY <1>1, CaptureInductive, PTL

\* The reported number of active connections is the number of table entries.
THEOREM ActiveCountExact == Spec => []CountExact
<1>1. IInv => CountExact BY DEF IInv
<1> QED BY <1>1, CaptureInductive, PTL

-----------------------------------------------------------------------------
(* What a port's records say of the connection on it, as long as no port is *)
(* used twice.                                                              *)

\* A port nobody has used has no records.
Unused(q) ==
    opened[q] = 0 =>
        conn[q] = NoConn /\ q \notin Tracked /\ q \notin direct /\ pidCache[q] = Miss

\* The service's own connection is neither filed nor attributed to anybody else.
Own(q) ==
    conn[q] # NoConn /\ conn[q].app = Self =>
        /\ q \notin Tracked /\ pidCache[q] \in {Miss, NoPid, Self}
        /\ conn[q].via # "relay"

\* The entry is the connection's, and goes only when one side closes.
Filed(q) ==
    conn[q] # NoConn =>
        /\ q \in Tracked => /\ Get(table, q).orig_dest_ip = conn[q].ip
                            /\ Get(table, q).orig_dest_port = conn[q].dport
        /\ conn[q].via = "relay" /\ conn[q].fin = {} => q \in Tracked

PortInv(q) == Unused(q) /\ Own(q) /\ Filed(q)

\* A step that leaves everything under a port alone.
SamePort(q) ==
    /\ conn'[q] = conn[q] /\ opened'[q] = opened[q] /\ pidCache'[q] = pidCache[q]
    /\ q \in Tracked' <=> q \in Tracked
    /\ q \in direct' => q \in direct
    /\ q \in Tracked => SameDest(Get(table', q), Get(table, q))

\* Such a step keeps what is said of the port.
LEMMA SamePortKeeps == ASSUME NEW q \in Port, PortInv(q), SamePort(q) PROVE PortInv(q)'
<1>1. Unused(q)' BY DEF PortInv, SamePort, Unused
<1>2. Own(q)' BY DEF PortInv, SamePort, Own
<1>3. Filed(q)' BY DEF PortInv, SamePort, Filed, SameDest
<1> QED BY <1>1, <1>2, <1>3 DEF PortInv

\* A table that is not touched finds what it found.
LEMMA TableSame ==
    ASSUME UNCHANGED table
    PROVE  /\ Tracked' = Tracked
           /\ \A q \in Port : SameDest(Get(table', q), Get(table, q))
BY DEF Tracked, SameDest

\* A client's packet, for the port it comes from: the process keeps its
\* connection, which is recorded with the way the packet took.
LEMMA RecordSays ==
    ASSUME TypeOK, NEW p \in Port, NEW fin \in BOOLEAN, conn[p] # NoConn,
           NEW way \in {"none", "direct", "relay", "block"}, Record(p, fin, way)
    PROVE  /\ conn'[p] # NoConn /\ conn'[p].app = conn[p].app /\ conn'[p].ip = conn[p].ip
           /\ conn'[p].dport = conn[p].dport /\ conn'[p].row = conn[p].row
           /\ conn'[p].via = way /\ conn'[p].known = (conn[p].row = "owned")
           /\ conn'[p].fin = conn[p].fin \cup (IF fin THEN {"client"} ELSE {})
           /\ \A q \in Port : q # p => conn'[q] = conn[q]
<1>1. conn[p] \in Conn /\ conn \in [Port -> Conn \cup {NoConn}] BY DEF TypeOK
<1>2. conn'[p] \in Conn BY <1>1 DEF Record, Conn
<1>3. conn'[p] # NoConn BY <1>2, NoConnAssumption
<1> QED BY <1>1, <1>3 DEF Record, Conn

\* A packet of a port in the table, from either side.
LEMMA TrackedPort ==
    ASSUME IInv, \A q \in Port : PortInv(q), NEW p \in Port, NEW fin \in BOOLEAN,
           Step2Restore(p, fin) \/ Step3Tracked(p, fin)
    PROVE  \A q \in Port : PortInv(q)'
<1>1. TypeOK /\ OneEntryPerPort /\ IsTracked(table, p) BY DEF IInv, Step2Restore, Step3Tracked
<1>2. p \in Tracked BY <1>1 DEF Tracked
<1>3. UNCHANGED <<pidCache, opened>> BY DEF Step2Restore, Step3Tracked
<1>4. direct' \subseteq direct BY DEF Step2Restore, Step3Tracked
<1>5. /\ \A q \in Port : q # p => (q \in Tracked' <=> q \in Tracked)
      /\ \A q \in Tracked : q # p => SameDest(Get(table', q), Get(table, q))
      /\ p \in Tracked' => SameDest(Get(table', p), Get(table, p))
      /\ p \notin Tracked' => fin
      /\ p \in Tracked' \/ fin
  <2>1. CASE fin
    <3>1. table' = Remove(table, p) BY <2>1 DEF Step2Restore, Step3Tracked
    <3> QED BY <1>1, <2>1, <3>1, RemoveTracked
  <2>2. CASE ~fin
    <3>1. UNCHANGED table BY <2>2 DEF Step2Restore, Step3Tracked
    <3> QED BY <1>2, <3>1, TableSame DEF Tracked
  <2> QED BY <2>1, <2>2
<1>6. /\ \A q \in Port : q # p => conn'[q] = conn[q]
      /\ conn[p] = NoConn => conn'[p] = NoConn
      /\ conn[p] # NoConn =>
            /\ conn'[p] # NoConn /\ conn'[p].app = conn[p].app /\ conn'[p].ip = conn[p].ip
            /\ conn'[p].dport = conn[p].dport
            /\ fin => conn'[p].fin # {}
  <2>1. CASE Step3Tracked(p, fin)
    <3>1. conn[p] # NoConn /\ Record(p, fin, "relay") BY <2>1 DEF Step3Tracked, ClientSends
    <3> QED BY <1>1, <3>1, RecordSays
  <2>2. CASE Step2Restore(p, fin)
    <3>1. conn \in [Port -> Conn \cup {NoConn}] BY <1>1 DEF TypeOK
    <3>2. conn' = IF fin /\ conn[p] # NoConn
                  THEN [conn EXCEPT ![p].fin = @ \cup {"relay"}] ELSE conn
      BY <2>2 DEF Step2Restore
    <3>3. CASE fin /\ conn[p] # NoConn
      <4>1. conn[p] \in Conn BY <3>1, <3>3
      <4>2. conn'[p] \in Conn /\ conn'[p].fin = conn[p].fin \cup {"relay"}
        BY <3>1, <3>2, <3>3, <4>1 DEF Conn
      <4>3. conn'[p] # NoConn BY <4>2, NoConnAssumption
      <4> QED BY <3>1, <3>2, <3>3, <4>1, <4>2, <4>3 DEF Conn
    <3>4. CASE ~(fin /\ conn[p] # NoConn) BY <3>2, <3>4
    <3> QED BY <3>3, <3>4
  <2> QED BY <2>1, <2>2
<1>7. \A q \in Port : q # p => SamePort(q) BY <1>3, <1>4, <1>5, <1>6 DEF SamePort
<1>8. PortInv(p)'
  <2>1. PortInv(p) OBVIOUS
  <2>2. opened[p] # 0 /\ (conn[p] # NoConn => conn[p].app # Self)
    BY <1>2, <2>1 DEF PortInv, Unused, Own
  <2>3. Unused(p)' BY <1>3, <2>2 DEF Unused
  <2>4. Own(p)' BY <1>6, <2>2 DEF Own
  <2>5. Filed(p)' BY <1>2, <1>5, <1>6, <2>1 DEF PortInv, Filed, SameDest
  <2> QED BY <2>3, <2>4, <2>5 DEF PortInv
<1> QED BY <1>7, <1>8, SamePortKeeps

\* A packet that is passed on without a look at the rules.
LEMMA DirectPort ==
    ASSUME TypeOK, \A q \in Port : PortInv(q), NEW p \in Port, NEW fin \in BOOLEAN,
           conn[p] # NoConn, Record(p, fin, "direct"), UNCHANGED <<table, pidCache, opened>>,
           direct' \subseteq direct
    PROVE  \A q \in Port : PortInv(q)'
<1>1. Tracked' = Tracked /\ \A q \in Port : SameDest(Get(table', q), Get(table, q))
  BY TableSame
<1>2. /\ conn'[p] # NoConn /\ conn'[p].app = conn[p].app /\ conn'[p].ip = conn[p].ip
      /\ conn'[p].dport = conn[p].dport /\ conn'[p].via = "direct"
      /\ \A q \in Port : q # p => conn'[q] = conn[q]
  BY RecordSays
<1>3. \A q \in Port : q # p => SamePort(q) BY <1>1, <1>2 DEF SamePort
<1>4. PortInv(p) OBVIOUS
<1>5. Unused(p)' BY <1>4 DEF PortInv, Unused
<1>6. Own(p)' BY <1>1, <1>2, <1>4 DEF PortInv, Own
<1>7. Filed(p)' BY <1>1, <1>2, <1>4 DEF PortInv, Filed, SameDest
<1> QED BY <1>3, <1>5, <1>6, <1>7, SamePortKeeps DEF PortInv

\* A packet judged by the rules: the service's own is passed on, since the only
\* PID that can have been cached for its port is its own or none.
LEMMA JudgedPort ==
    ASSUME IInv, \A q \in Port : PortInv(q), NEW p \in Port, NEW fin \in BOOLEAN,
           Step4Direct(p, fin) \/ Step4Block(p, fin) \/ Step4Proxy(p, fin)
    PROVE  \A q \in Port : PortInv(q)'
<1>1. TypeOK /\ OneEntryPerPort /\ PortInv(p) BY DEF IInv
<1>2. PICK v \in {"direct", "block", "relay"} :
          /\ Judge(p, fin, v)
          /\ v = "relay" <=> Step4Proxy(p, fin)
  <2>1. Step4Proxy(p, fin) => Judge(p, fin, "relay") BY DEF Step4Proxy
  <2>2. Step4Direct(p, fin) => Judge(p, fin, "direct") BY DEF Step4Direct
  <2>3. Step4Block(p, fin) => Judge(p, fin, "block") BY DEF Step4Block
  <2>4. ASSUME NEW v, NEW w, Judge(p, fin, v), Judge(p, fin, w) PROVE v = w
    BY <2>4 DEF Judge, Verdict
  <2> QED BY <2>1, <2>2, <2>3, <2>4
<1>3. /\ conn[p] # NoConn /\ Record(p, fin, v) /\ opened' = opened
      /\ CheckProcessRule(FindPid(p)) = v /\ pidCache' = CachedPid(p) /\ p \notin Tracked
  BY <1>2 DEF Judge, Verdict, ClientSends, Tracked
<1>4. /\ conn[p] \in Conn /\ FindPid(p) \in App \cup {NoPid}
  BY <1>1, <1>2, JudgeTyped
<1>5. /\ conn'[p] # NoConn /\ conn'[p].app = conn[p].app /\ conn'[p].ip = conn[p].ip
      /\ conn'[p].dport = conn[p].dport /\ conn'[p].via = v
      /\ \A q \in Port : q # p => conn'[q] = conn[q]
  BY <1>1, <1>3, RecordSays
<1>6. /\ \A q \in Port : q # p => pidCache'[q] = pidCache[q]
      /\ pidCache'[p] \in {pidCache[p], FindPid(p)}
  BY <1>1, <1>3 DEF CachedPid, TypeOK
<1>7. \A q \in Port : q # p /\ q \in direct' => q \in direct
  BY DEF Step4Direct, Step4Block, Step4Proxy, AfterStep1
<1>8. /\ \A q \in Port : q # p => (q \in Tracked' <=> q \in Tracked)
      /\ \A q \in Tracked : SameDest(Get(table', q), Get(table, q))
      /\ p \in Tracked' <=> v = "relay"
      /\ v = "relay" => /\ Get(table', p).orig_dest_ip = conn[p].ip
                        /\ Get(table', p).orig_dest_port = conn[p].dport
  <2>1. CASE v = "relay"
    <3>1. table' = SetProcessInfo(Add(table, p, conn[p].ip, conn[p].dport), p, FindPid(p))
      BY <1>2, <2>1 DEF Step4Proxy
    <3>2. ~IsTracked(table, p) /\ conn[p].ip \in Ip /\ conn[p].dport \in DstPort
      BY <1>3, <1>4 DEF Tracked, Conn
    <3> QED BY <1>1, <1>4, <2>1, <3>1, <3>2, AddTracked
  <2>2. CASE v # "relay"
    <3>1. UNCHANGED table BY <1>2, <2>2 DEF Step4Direct, Step4Block
    <3> QED BY <1>3, <2>2, <3>1, TableSame DEF Tracked
  <2> QED BY <2>1, <2>2
<1>9. \A q \in Port : q # p => SamePort(q)
  BY <1>3, <1>5, <1>6, <1>7, <1>8 DEF SamePort
<1>10. PortInv(p)'
  <2>1. opened[p] # 0 BY <1>1, <1>3 DEF PortInv, Unused
  <2>2. Unused(p)' BY <1>3, <2>1 DEF Unused
  <2>3. Own(p)'
    <3>1. ASSUME conn[p].app = Self
          PROVE  FindPid(p) \in {NoPid, Self} /\ v = "direct" /\ pidCache[p] \in {Miss, NoPid, Self}
      <4>1. pidCache[p] \in {Miss, NoPid, Self} BY <1>1, <1>3, <3>1 DEF PortInv, Own
      <4>2. FindPid(p) \in {NoPid, Self} BY <3>1, <4>1 DEF FindPid
      <4>3. v = "direct" BY <1>3, <4>2 DEF CheckProcessRule
      <4> QED BY <4>1, <4>2, <4>3
    <3> QED BY <1>5, <1>6, <1>8, <3>1 DEF Own
  <2>4. Filed(p)' BY <1>5, <1>8 DEF Filed
  <2> QED BY <2>2, <2>3, <2>4 DEF PortInv
<1> QED BY <1>9, <1>10, SamePortKeeps

\* Control and environment.  Only Connect gives a port a new connection, and it
\* does so once.
LEMMA OutsidePort ==
    ASSUME MaxConns <= 1, IInv, \A q \in Port : PortInv(q), Control \/ Environment
    PROVE  \A q \in Port : PortInv(q)'
<1>1. TypeOK BY DEF IInv
<1> USE DEF loopVars, confVars, envVars
<1>2. UNCHANGED table /\ direct' \subseteq direct
  BY DEF Control, Environment, Close, Open, SetProxyConfig, SetRules, Connect, Listed,
         TimeWait, Release, RelayDone, PidExpire, Bypass
<1>3. Tracked' = Tracked /\ \A q \in Port : SameDest(Get(table', q), Get(table, q))
  BY <1>2, TableSame
<1>4. CASE Control
  <2>1. UNCHANGED <<conn, opened, pidCache>>
    BY <1>4 DEF Control, Close, Open, SetProxyConfig, SetRules
  <2> QED BY <1>2, <1>3, <2>1, SamePortKeeps DEF SamePort
<1>5. ASSUME NEW p \in Port, NEW a \in App, NEW ip \in Ip, NEW d \in DstPort,
             Connect(p, a, ip, d)
      PROVE  \A q \in Port : PortInv(q)'
  <2>1. opened[p] = 0 BY <1>1, <1>5, CaptureAssumption DEF Connect, TypeOK
  <2>2. p \notin Tracked /\ p \notin direct /\ pidCache[p] = Miss
    BY <2>1 DEF PortInv, Unused
  <2>3. PICK r :
          conn' = [conn EXCEPT ![p] = [app |-> a, ip |-> ip, dport |-> d, row |-> r,
                                       fin |-> {}, via |-> "none", known |-> FALSE]]
    BY <1>5 DEF Connect
  <2>4. conn'[p].via = "none" /\ \A q \in Port : q # p => conn'[q] = conn[q]
    BY <1>1, <2>3 DEF TypeOK
  <2>5. /\ pidCache' = pidCache /\ opened'[p] = 1
        /\ \A q \in Port : q # p => opened'[q] = opened[q]
    BY <1>1, <1>5, <2>1 DEF Connect, TypeOK
  <2>6. \A q \in Port : q # p => SamePort(q) BY <1>2, <1>3, <2>4, <2>5 DEF SamePort
  <2>7. Unused(p)' /\ Own(p)' /\ Filed(p)'
    BY <1>3, <2>2, <2>4, <2>5 DEF Unused, Own, Filed
  <2> QED BY <2>6, <2>7, SamePortKeeps DEF PortInv
<1>6. ASSUME NEW p \in Port, Listed(p) \/ TimeWait(p)
      PROVE  \A q \in Port : PortInv(q)'
  <2>1. conn \in [Port -> Conn \cup {NoConn}] /\ conn[p] \in Conn /\ conn[p] # NoConn
    BY <1>1, <1>6 DEF Listed, TimeWait, TypeOK
  <2>2. PICK r \in {"owned", "timewait"} : conn' = [conn EXCEPT ![p].row = r]
    BY <1>6 DEF Listed, TimeWait
  <2>3. conn'[p] \in Conn BY <2>1, <2>2 DEF Conn
  <2>4. /\ conn'[p] # NoConn /\ conn'[p].app = conn[p].app /\ conn'[p].ip = conn[p].ip
        /\ conn'[p].dport = conn[p].dport /\ conn'[p].via = conn[p].via
        /\ conn'[p].fin = conn[p].fin
        /\ \A q \in Port : q # p => conn'[q] = conn[q]
    BY <2>1, <2>2, <2>3, NoConnAssumption DEF Conn
  <2>5. UNCHANGED <<pidCache, opened>> BY <1>6 DEF Listed, TimeWait
  <2>6. \A q \in Port : q # p => SamePort(q) BY <1>2, <1>3, <2>4, <2>5 DEF SamePort
  <2>7. PortInv(p) OBVIOUS
  <2>8. Unused(p)' BY <2>1, <2>5, <2>7 DEF PortInv, Unused
  <2>9. Own(p)' BY <1>3, <2>1, <2>4, <2>5, <2>7 DEF PortInv, Own
  <2>10. Filed(p)' BY <1>3, <2>1, <2>4, <2>7 DEF PortInv, Filed, SameDest
  <2> QED BY <2>6, <2>8, <2>9, <2>10, SamePortKeeps DEF PortInv
<1>7. ASSUME NEW p \in Port, Release(p) PROVE \A q \in Port : PortInv(q)'
  <2>1. conn'[p] = NoConn /\ \A q \in Port : q # p => conn'[q] = conn[q]
    BY <1>1, <1>7 DEF Release, TypeOK
  <2>2. UNCHANGED <<pidCache, opened>> /\ conn[p] # NoConn BY <1>7 DEF Release
  <2>3. opened[p] # 0 BY <2>2 DEF PortInv, Unused
  <2>4. \A q \in Port : q # p => SamePort(q) BY <1>2, <1>3, <2>1, <2>2 DEF SamePort
  <2>5. Unused(p)' /\ Own(p)' /\ Filed(p)' BY <2>1, <2>2, <2>3 DEF Unused, Own, Filed
  <2> QED BY <2>4, <2>5, SamePortKeeps DEF PortInv
<1>8. ASSUME NEW p \in Port, RelayDone(p) \/ PidExpire(p)
      PROVE  \A q \in Port : PortInv(q)'
  <2>1. UNCHANGED <<conn, opened>> BY <1>8 DEF RelayDone, PidExpire
  <2>2. \A q \in Port : pidCache'[q] \in {pidCache[q], Miss}
    BY <1>1, <1>8 DEF RelayDone, PidExpire, TypeOK
  <2>3. ASSUME NEW q \in Port PROVE PortInv(q)'
    <3>1. PortInv(q) OBVIOUS
    <3>2. Unused(q)' BY <1>2, <1>3, <2>1, <2>2, <3>1 DEF PortInv, Unused
    <3>3. Own(q)' BY <1>3, <2>1, <2>2, <3>1 DEF PortInv, Own
    <3>4. Filed(q)' BY <1>3, <2>1, <3>1 DEF PortInv, Filed, SameDest
    <3> QED BY <3>2, <3>3, <3>4 DEF PortInv
  <2> QED BY <2>3
<1>9. ASSUME NEW p \in Port, NEW fin \in BOOLEAN, Bypass(p, fin)
      PROVE  \A q \in Port : PortInv(q)'
  <2>1. conn[p] # NoConn /\ Record(p, fin, "direct") /\ UNCHANGED <<pidCache, opened>>
    BY <1>9 DEF Bypass
  <2> QED BY <1>1, <1>2, <1>3, <2>1, DirectPort
<1> QED BY <1>4, <1>5, <1>6, <1>7, <1>8, <1>9 DEF Environment

\* The records of a port are about its connection, if no port is used twice.
\* Nothing is assumed of the TCP table, of the rules and of restarts.
THEOREM PortsInductive ==
    ASSUME MaxConns <= 1 PROVE Spec => [](\A q \in Port : PortInv(q))
<1> DEFINE PInv == \A q \in Port : PortInv(q)
<1>1. ASSUME Init PROVE PInv
  <2>1. \A q \in Port : conn[q] = NoConn /\ pidCache[q] = Miss /\ direct = {}
    BY <1>1 DEF Init
  <2>2. Tracked = {}
    <3>1. \A p \in Port : Matches(table, p) = {}
      BY <1>1, HashInBucket DEF Init, EmptyTable, Matches
    <3> QED BY <3>1 DEF Tracked, IsTracked
  <2> QED BY <2>1, <2>2 DEF PortInv, Unused, Own, Filed
<1>2. ASSUME IInv, PInv, [Next]_vars PROVE PInv'
  <2>1. ASSUME NEW p \in Port, NEW fin \in BOOLEAN, ClientPacket(p, fin) \/ RelayPacket(p, fin)
        PROVE  PInv'
    <3>1. CASE Step1Direct(p, fin)
      <4>1. /\ conn[p] # NoConn /\ Record(p, fin, "direct")
            /\ UNCHANGED <<table, pidCache, opened, direct>>
        BY <3>1 DEF Step1Direct, ClientSends, loopVars
      <4> QED BY <1>2, <4>1, DirectPort DEF IInv
    <3>2. CASE Step2Restore(p, fin) \/ Step3Tracked(p, fin) BY <1>2, <3>2, TrackedPort
    <3>3. CASE Step2Stray(p)
      <4>1. UNCHANGED <<table, pidCache, opened, direct, conn>>
        BY <3>3 DEF Step2Stray, vars, loopVars, envVars
      <4> QED BY <1>2, <4>1, TableSame, SamePortKeeps DEF SamePort
    <3>4. CASE Step4Direct(p, fin) \/ Step4Block(p, fin) \/ Step4Proxy(p, fin)
      BY <1>2, <3>4, JudgedPort
    <3> QED BY <2>1, <3>1, <3>2, <3>3, <3>4 DEF ClientPacket, RelayPacket
  <2>2. CASE Control \/ Environment BY <1>2, <2>2, OutsidePort
  <2>3. CASE UNCHANGED vars
    <3>1. UNCHANGED <<table, pidCache, opened, direct, conn>>
      BY <2>3 DEF vars, loopVars, envVars
    <3> QED BY <1>2, <3>1, TableSame, SamePortKeeps DEF SamePort
  <2> QED BY <1>2, <2>1, <2>2, <2>3 DEF Next, Loop
<1> HIDE DEF PInv
<1>3. Spec => []PInv BY <1>1, <1>2, CaptureInductive, PTL DEF Spec
<1> QED BY <1>3 DEF PInv

\* Loop prevention: without port reuse no connection of the service itself is
\* redirected, whatever rules match it and whatever the TCP table shows.
THEOREM OwnTrafficNotRelayed ==
    ASSUME MaxConns <= 1 PROVE Spec => []OwnTrafficDirect
<1>1. (\A q \in Port : PortInv(q)) => OwnTrafficDirect
  BY DEF PortInv, Own, OwnTrafficDirect
<1> QED BY <1>1, PortsInductive, PTL

\* Without port reuse a redirected connection that is open has an entry, and the
\* entry is its own, through restarts of the capture and changes of the rules.
THEOREM RelayedIsTracked ==
    ASSUME MaxConns <= 1 PROVE Spec => []OpenRelayedIsTracked
<1>1. (\A q \in Port : PortInv(q)) => OpenRelayedIsTracked
  BY DEF PortInv, Filed, OpenRelayedIsTracked, Tracked
<1> QED BY <1>1, PortsInductive, PTL

-----------------------------------------------------------------------------
(* What the rules say is done, in the steady state: the TCP table is up to  *)
(* date, nothing is reconfigured, the capture stays open, no port is used   *)
(* twice, and no process inherits the target's treatment from its parents.  *)

\* The last of these: FindTargetPid and step 6 of CheckProcessRule single out
\* no process but the target itself.
NoHeirs ==
    \A r \in RuleSets, a \in App, t \in TargetPath \cup TargetCandidates :
        r[a] = "Direct" /\ InTargetTree(a, t) => a \in TargetPath

\* The verdict, without what m_targetPid adds to it.
RuleFor(a) ==
    CASE a = Self \/ a \in Opaque -> "direct"
      [] OTHER -> IF rules[a] = "Block" THEN "block"
                  ELSE IF rules[a] = "Proxy" \/ (rules[a] = "Direct" /\ a \in TargetPath)
                  THEN "relay" ELSE "direct"

\* The capture is open, the proxy set, the target a process of that name.
Steady ==
    /\ running /\ proxySet /\ opens >= 1
    /\ targetPid \in {NoPid} \cup TargetPath \cup TargetCandidates

\* Everything filed under a port agrees with the rule for its process.
Ruled(q) ==
    conn[q] # NoConn =>
        /\ conn[q].row = "owned"
        /\ pidCache[q] \in {Miss, conn[q].app}
        /\ conn[q].known => conn[q].via = RuleFor(conn[q].app)
        /\ q \in direct => RuleFor(conn[q].app) = "direct"
        /\ q \in Tracked => RuleFor(conn[q].app) = "relay"

\* In the steady state the target's PID does not matter.
LEMMA VerdictIsRule ==
    ASSUME NoHeirs, TypeOK, Steady, NEW a \in App
    PROVE  CheckProcessRule(a) = RuleFor(a)
<1>1. a # NoPid BY TableAssumption
<1>2. rules \in RuleSets /\ rules \in [App -> RuleAction]
  BY CaptureAssumption DEF TypeOK
<1>3. rules[a] = "Direct" /\ InTargetTree(a, targetPid) => a \in TargetPath
  <2>1. CASE targetPid = NoPid BY <2>1 DEF InTargetTree
  <2>2. CASE targetPid # NoPid
    <3>1. targetPid \in TargetPath \cup TargetCandidates BY <2>2 DEF Steady
    <3> QED BY <1>2, <3>1 DEF NoHeirs
  <2> QED BY <2>1, <2>2
<1>4. WantsProxy(a, targetPid)
         <=> \/ rules[a] = "Proxy"
             \/ rules[a] = "Direct" /\ a \in TargetPath
  BY <1>3, Zenon DEF WantsProxy
<1>5. proxySet BY DEF Steady
<1>6. CASE a = Self \/ a \in Opaque BY <1>6 DEF CheckProcessRule, RuleFor
<1>7. CASE ~(a = Self \/ a \in Opaque)
  BY <1>1, <1>4, <1>5, <1>7 DEF CheckProcessRule, RuleFor
<1> QED BY <1>6, <1>7

\* A step that leaves a port's records alone, or drops some of them.
SameRuled(q) ==
    /\ conn'[q] = conn[q] \/ conn'[q] = NoConn
    /\ pidCache'[q] \in {pidCache[q], Miss}
    /\ q \in Tracked' => q \in Tracked
    /\ q \in direct' => q \in direct

\* Such a step keeps the agreement with the rules.
LEMMA SameRuledKeeps ==
    ASSUME NEW q \in Port, Ruled(q), SameRuled(q), rules' = rules
    PROVE  Ruled(q)'
<1>1. \A a \in {conn[q].app} : RuleFor(a)' = RuleFor(a) BY DEF RuleFor
<1> QED BY <1>1 DEF Ruled, SameRuled, RuleFor

\* The steady state lasts.
LEMMA SteadyKept ==
    ASSUME ~Reconfig, MaxOpens <= 1, TypeOK, Steady, [Next]_vars
    PROVE  Steady' /\ rules' = rules
<1> USE DEF loopVars, confVars, envVars
<1>1. ~Open /\ ~Close
  <2>1. ~Open BY Zenon DEF Steady, Open
  <2>2. ~(opens < MaxOpens) BY CaptureAssumption DEF Steady, TypeOK
  <2>3. ~Close BY <2>2, Zenon DEF Close
  <2> QED BY <2>1, <2>3
<1>2. UNCHANGED <<running, rules, proxySet, opens>>
  <2>1. CASE Loop
    BY <2>1 DEF Loop, ClientPacket, RelayPacket, Step1Direct, Step2Restore, Step2Stray,
       Step3Tracked, Step4Direct, Step4Block, Step4Proxy, Judge, Verdict, vars
  <2>2. CASE Control BY <1>1, <2>2 DEF Control, SetProxyConfig, SetRules
  <2>3. CASE Environment
    BY <2>3 DEF Environment, Connect, Listed, TimeWait, Release, RelayDone, PidExpire, Bypass
  <2>4. CASE UNCHANGED vars BY <2>4 DEF vars
  <2> QED BY <2>1, <2>2, <2>3, <2>4 DEF Next
<1>3. targetPid' = targetPid \/ targetPid' \in TargetPath \cup TargetCandidates
  <2>1. ASSUME NEW a, LearnTarget(a)
        PROVE  targetPid' = targetPid \/ targetPid' \in TargetPath \cup TargetCandidates
    BY <2>1 DEF LearnTarget
  <2>2. CASE Loop
    BY <2>1, <2>2 DEF Loop, ClientPacket, RelayPacket, Step1Direct, Step2Restore, Step2Stray,
       Step3Tracked, Step4Direct, Step4Block, Step4Proxy, Judge, Verdict, vars
  <2>3. CASE Control BY <1>1, <2>3 DEF Control, SetProxyConfig, SetRules
  <2>4. CASE Environment
    BY <2>4 DEF Environment, Connect, Listed, TimeWait, Release, RelayDone, PidExpire, Bypass
  <2>5. CASE UNCHANGED vars BY <2>5 DEF vars
  <2> QED BY <2>2, <2>3, <2>4, <2>5 DEF Next
<1> QED BY <1>2, <1>3 DEF Steady

\* A packet of a client: the way it takes is the rule's, and so is all that is
\* filed for the packets to come.
LEMMA ClientRuled ==
    ASSUME NoHeirs, IInv, Steady, rules' = rules, \A q \in Port : Ruled(q),
           NEW p \in Port, NEW fin \in BOOLEAN, ClientPacket(p, fin)
    PROVE  \A q \in Port : Ruled(q)'
<1> DEFINE a == conn[p].app
<1>1. TypeOK /\ OneEntryPerPort /\ Ruled(p) BY DEF IInv
<1>2. conn[p] # NoConn
  BY DEF ClientPacket, Step1Direct, Step3Tracked, Step4Direct, Step4Block, Step4Proxy,
         Judge, Verdict, ClientSends
<1>3. conn[p] \in Conn /\ a \in App BY <1>1, <1>2 DEF TypeOK, Conn
<1>4. /\ conn[p].row = "owned" /\ pidCache[p] \in {Miss, a}
      /\ p \in direct => RuleFor(a) = "direct"
      /\ p \in Tracked => RuleFor(a) = "relay"
  BY <1>1, <1>2 DEF Ruled
<1>5. FindPid(p) = a BY <1>4 DEF FindPid
<1>6. CheckProcessRule(FindPid(p)) = RuleFor(a) BY <1>1, <1>3, <1>5, VerdictIsRule
<1>7. /\ \E way \in {"direct", "relay", "block"} : Record(p, fin, way) /\ way = RuleFor(a)
      /\ \A q \in Port : q # p => /\ pidCache'[q] = pidCache[q]
                                  /\ q \in Tracked' => q \in Tracked
                                  /\ q \in direct' => q \in direct
      /\ pidCache'[p] \in {Miss, a}
      /\ p \in direct' => RuleFor(a) = "direct"
      /\ p \in Tracked' => RuleFor(a) = "relay"
  <2>1. CASE Step1Direct(p, fin)
    <3>1. p \in direct /\ Record(p, fin, "direct") /\ UNCHANGED <<table, pidCache, direct>>
      BY <2>1 DEF Step1Direct, PassesStep1, AfterStep1, loopVars
    <3> QED BY <1>4, <3>1, TableSame
  <2>2. CASE Step3Tracked(p, fin)
    <3>1. IsTracked(table, p) /\ Record(p, fin, "relay") /\ UNCHANGED pidCache
      BY <2>2 DEF Step3Tracked
    <3>2. direct' \subseteq direct BY <2>2 DEF Step3Tracked
    <3>3. Tracked' \subseteq Tracked
      <4>1. CASE fin
        <5>1. table' = Remove(table, p) BY <2>2, <4>1 DEF Step3Tracked
        <5> QED BY <1>1, <3>1, <5>1, RemoveTracked
      <4>2. CASE ~fin
        <5>1. UNCHANGED table BY <2>2, <4>2 DEF Step3Tracked
        <5> QED BY <5>1, TableSame
      <4> QED BY <4>1, <4>2
    <3>4. p \in Tracked BY <3>1 DEF Tracked
    <3> QED BY <1>4, <3>1, <3>2, <3>3, <3>4
  <2>3. ASSUME NEW v \in {"direct", "relay", "block"}, Judge(p, fin, v)
        PROVE  /\ Record(p, fin, v) /\ v = RuleFor(a) /\ p \notin Tracked
               /\ \A q \in Port : q # p => pidCache'[q] = pidCache[q]
               /\ pidCache'[p] \in {Miss, a}
    <3>1. /\ Record(p, fin, v) /\ CheckProcessRule(FindPid(p)) = v
          /\ pidCache' = CachedPid(p) /\ p \notin Tracked
      BY <2>3 DEF Judge, Verdict, Tracked
    <3>2. /\ \A q \in Port : q # p => pidCache'[q] = pidCache[q]
          /\ pidCache'[p] \in {Miss, a}
      BY <1>1, <1>4, <1>5, <3>1 DEF CachedPid, TypeOK
    <3> QED BY <1>6, <3>1, <3>2
  <2>4. CASE Step4Direct(p, fin)
    <3>1. Judge(p, fin, "direct") /\ UNCHANGED table /\ direct' \subseteq direct \cup {p}
      BY <2>4 DEF Step4Direct, AfterStep1
    <3> HIDE DEF a
    <3> QED BY <2>3, <3>1, TableSame
  <2>5. CASE Step4Block(p, fin)
    <3>1. Judge(p, fin, "block") /\ UNCHANGED table /\ direct' \subseteq direct
      BY <2>5 DEF Step4Block, AfterStep1
    <3> HIDE DEF a
    <3> QED BY <1>4, <2>3, <3>1, TableSame
  <2>6. CASE Step4Proxy(p, fin)
    <3>1. Judge(p, fin, "relay") /\ direct' \subseteq direct
      BY <2>6 DEF Step4Proxy, AfterStep1
    <3>2. table' = SetProcessInfo(Add(table, p, conn[p].ip, conn[p].dport), p, FindPid(p))
      BY <2>6 DEF Step4Proxy
    <3>3. ~IsTracked(table, p) /\ conn[p].ip \in Ip /\ conn[p].dport \in DstPort
      BY <1>3, <3>1 DEF Judge, Conn
    <3>4. Tracked' = Tracked \cup {p} BY <1>1, <1>3, <1>5, <3>2, <3>3, AddTracked
    <3> HIDE DEF a
    <3> QED BY <1>4, <2>3, <3>1, <3>4
  <2> QED BY <2>1, <2>2, <2>4, <2>5, <2>6 DEF ClientPacket
<1>8. PICK way \in {"direct", "relay", "block"} : Record(p, fin, way) /\ way = RuleFor(a)
  BY <1>7
<1>9. /\ conn'[p].app = a /\ conn'[p].row = "owned" /\ conn'[p].via = RuleFor(a)
       /\ \A q \in Port : q # p => conn'[q] = conn[q]
  BY <1>1, <1>2, <1>4, <1>8, RecordSays
<1>10. Ruled(p)'
  <2>1. RuleFor(conn[p].app)' = RuleFor(a) BY <1>9 DEF RuleFor
  <2> HIDE DEF a
  <2> QED BY <1>7, <1>9, <2>1 DEF Ruled
<1>11. \A q \in Port : q # p => SameRuled(q) BY <1>7, <1>9 DEF SameRuled
<1> QED BY <1>10, <1>11, SameRuledKeeps

\* A packet of the relay, and the environment.
LEMMA OtherRuled ==
    ASSUME ~TableLag, MaxConns <= 1, IInv, Steady, rules' = rules,
           \A q \in Port : PortInv(q) /\ Ruled(q),
           Environment \/ \E p \in Port, fin \in BOOLEAN : RelayPacket(p, fin)
    PROVE  \A q \in Port : Ruled(q)'
<1>1. TypeOK /\ OneEntryPerPort BY DEF IInv
<1> USE DEF loopVars, confVars, envVars
<1>2. ASSUME NEW p \in Port, NEW fin \in BOOLEAN, Step2Restore(p, fin)
      PROVE  \A q \in Port : Ruled(q)'
  <2>1. IsTracked(table, p) /\ direct' \subseteq direct /\ UNCHANGED pidCache
    BY <1>2 DEF Step2Restore
  <2>2. Tracked' \subseteq Tracked
    <3>1. CASE fin
      <4>1. table' = Remove(table, p) BY <1>2, <3>1 DEF Step2Restore
      <4> QED BY <1>1, <2>1, <4>1, RemoveTracked
    <3>2. CASE ~fin
      <4>1. UNCHANGED table BY <1>2, <3>2 DEF Step2Restore
      <4> QED BY <4>1, TableSame
    <3> QED BY <3>1, <3>2
  <2>3. conn' = IF fin /\ conn[p] # NoConn
                THEN [conn EXCEPT ![p].fin = @ \cup {"relay"}] ELSE conn
    BY <1>2 DEF Step2Restore
  <2>4. CASE fin /\ conn[p] # NoConn
    <3>1. conn[p] \in Conn /\ conn \in [Port -> Conn \cup {NoConn}] BY <1>1, <2>4 DEF TypeOK
    <3>2. /\ conn'[p].app = conn[p].app /\ conn'[p].row = conn[p].row
          /\ conn'[p].via = conn[p].via /\ conn'[p].known = conn[p].known
          /\ \A q \in Port : q # p => conn'[q] = conn[q]
      BY <2>3, <2>4, <3>1 DEF Conn
    <3>3. RuleFor(conn[p].app)' = RuleFor(conn[p].app) BY <3>2 DEF RuleFor
    <3>4. Ruled(p) /\ \A q \in Port : q # p => SameRuled(q) BY <2>1, <2>2, <3>2 DEF SameRuled
    <3>5. Ruled(p)' BY <2>1, <2>2, <2>4, <3>2, <3>3, <3>4 DEF Ruled
    <3> QED BY <3>4, <3>5, SameRuledKeeps
  <2>5. CASE ~(fin /\ conn[p] # NoConn)
    <3>1. UNCHANGED conn BY <2>3, <2>5
    <3> QED BY <2>1, <2>2, <3>1, SameRuledKeeps DEF SameRuled
  <2> QED BY <2>4, <2>5
<1>3. ASSUME NEW p \in Port, Step2Stray(p) \/ RelayDone(p) \/ PidExpire(p) \/ Release(p)
      PROVE  \A q \in Port : Ruled(q)'
  <2>1. UNCHANGED <<table, direct>> BY <1>3 DEF Step2Stray, RelayDone, PidExpire, Release, vars
  <2>2. \A q \in Port : pidCache'[q] \in {pidCache[q], Miss}
    BY <1>1, <1>3 DEF Step2Stray, RelayDone, PidExpire, Release, vars, TypeOK
  <2>3. \A q \in Port : conn'[q] \in {conn[q], NoConn}
    BY <1>1, <1>3 DEF Step2Stray, RelayDone, PidExpire, Release, vars, TypeOK
  <2> QED BY <2>1, <2>2, <2>3, TableSame, SameRuledKeeps DEF SameRuled
<1>4. ASSUME NEW p \in Port, NEW a \in App, NEW ip \in Ip, NEW d \in DstPort,
             Connect(p, a, ip, d)
      PROVE  \A q \in Port : Ruled(q)'
  <2>1. opened[p] = 0 BY <1>1, <1>4, CaptureAssumption DEF Connect, TypeOK
  <2>2. p \notin Tracked /\ p \notin direct /\ pidCache[p] = Miss
    BY <2>1 DEF PortInv, Unused
  <2>3. conn' = [conn EXCEPT ![p] = [app |-> a, ip |-> ip, dport |-> d, row |-> "owned",
                                     fin |-> {}, via |-> "none", known |-> FALSE]]
    BY <1>4 DEF Connect
  <2>4. UNCHANGED <<table, direct, pidCache>> BY <1>4 DEF Connect
  <2>5. /\ conn'[p].row = "owned" /\ conn'[p].known = FALSE
        /\ \A q \in Port : q # p => conn'[q] = conn[q]
    BY <1>1, <2>3 DEF TypeOK
  <2>6. Tracked' = Tracked BY <2>4, TableSame
  <2>7. Ruled(p)' BY <2>2, <2>4, <2>5, <2>6 DEF Ruled
  <2>8. \A q \in Port : q # p => SameRuled(q) BY <2>4, <2>5, <2>6 DEF SameRuled
  <2> QED BY <2>7, <2>8, SameRuledKeeps
<1>5. \A p \in Port : ~Listed(p) BY DEF Listed, Ruled
<1>6. \A p \in Port : ~TimeWait(p) BY DEF TimeWait
<1>7. \A p \in Port, fin \in BOOLEAN : ~Bypass(p, fin) BY DEF Bypass, Steady
<1> QED BY <1>2, <1>3, <1>4, <1>5, <1>6, <1>7 DEF Environment, RelayPacket

\* In the steady state the packets of every process are treated as the rules for
\* it say: none is passed on, redirected or dropped by an older decision.
THEOREM SteadyRulesFollowed ==
    ASSUME ~TableLag, ~Reconfig, MaxConns <= 1, MaxOpens <= 1, NoHeirs
    PROVE  Spec => []RulesFollowed
<1> DEFINE PInv == \A q \in Port : PortInv(q)
           RInv == Steady /\ \A q \in Port : Ruled(q)
<1>1. Init => RInv BY DEF Init, Steady, Ruled
<1>2. ASSUME IInv, PInv, RInv, [Next]_vars PROVE RInv'
  <2>1. TypeOK BY <1>2 DEF IInv
  <2>2. Steady' /\ rules' = rules BY <1>2, <2>1, SteadyKept
  <2>3. CASE \E p \in Port, fin \in BOOLEAN : ClientPacket(p, fin)
    BY <1>2, <2>2, <2>3, ClientRuled
  <2>4. CASE Environment \/ \E p \in Port, fin \in BOOLEAN : RelayPacket(p, fin)
    BY <1>2, <2>2, <2>4, OtherRuled
  <2>5. CASE Control
    <3>1. ~Open BY <1>2, Zenon DEF Steady, Open
    <3>2. ~(opens < MaxOpens) BY <1>2, <2>1, CaptureAssumption DEF Steady, TypeOK
    <3>3. ~Close BY <3>2, Zenon DEF Close
    <3> QED BY <2>5, <3>1, <3>3, Zenon DEF Control, SetProxyConfig, SetRules
  <2>6. CASE UNCHANGED vars
    <3>1. UNCHANGED <<table, direct, pidCache, conn>> BY <2>6 DEF vars, loopVars, envVars
    <3>2. \A q \in Port : SameRuled(q) BY <3>1, TableSame DEF SameRuled
    <3> QED BY <1>2, <2>2, <3>2, SameRuledKeeps
  <2> QED BY <1>2, <2>3, <2>4, <2>5, <2>6 DEF Next, Loop
<1>3. IInv /\ RInv => RulesFollowed
  <2> SUFFICES ASSUME IInv, RInv PROVE RulesFollowed OBVIOUS
  <2>1. TypeOK BY DEF IInv
  <2> SUFFICES ASSUME NEW p \in Port, conn[p] # NoConn, conn[p].known
               PROVE  conn[p].via = CheckProcessRule(conn[p].app)
    BY DEF RulesFollowed
  <2>2. conn[p].app \in App BY <2>1 DEF TypeOK, Conn
  <2> QED BY <2>1, <2>2, VerdictIsRule DEF Ruled
<1>4. Spec => []PInv BY PortsInductive
<1> HIDE DEF PInv, RInv
<1> QED BY <1>1, <1>2, <1>3, <1>4, CaptureInductive, PTL DEF Spec

-----------------------------------------------------------------------------
(* Capture implements Redirection: for any number of connections from each  *)
(* port, any restarts, rules and delays of the TCP table.                   *)

\* An open connection whose last packet went to the relay has an entry, though it
\* may be one that an earlier connection left.
Entered(q) ==
    conn[q] # NoConn /\ conn[q].via = "relay" /\ conn[q].fin = {} => q \in Tracked

\* A step leaves the abstract state of a port alone ...
Stays(q) == Way(q)' = Way(q) /\ Redirected(q)' = Redirected(q)

\* ... or changes that of one port.
Moves(p, w, d) ==
    /\ Way(p)' = w /\ Redirected(p)' = d /\ running' = running
    /\ \A q \in Port : q # p => Stays(q)

\* The same in the words of Redirection.
LEMMA MovesIs ==
    ASSUME NEW p \in Port, NEW w, NEW d, Moves(p, w, d) PROVE Abstract!Becomes(p, w, d)
<1>1. [q \in Port |-> Way(q)]' = [[q \in Port |-> Way(q)] EXCEPT ![p] = w]
  BY DEF Moves, Stays
<1>2. [q \in Port |-> Redirected(q)]' = [[q \in Port |-> Redirected(q)] EXCEPT ![p] = d]
  BY DEF Moves, Stays
<1> QED BY <1>1, <1>2 DEF Abstract!Becomes, Moves

\* A stutter of Redirection.
LEMMA StaysIs ==
    ASSUME \A q \in Port : Stays(q), running' = running PROVE UNCHANGED Abstract!vars
BY DEF Stays, Abstract!vars

\* The moves Redirection allows.
LEMMA MovesNext ==
    ASSUME NEW p \in Port, NEW w, NEW d, Moves(p, w, d),
           \/ Way(p) = w /\ Redirected(p) = d
           \/ Way(p) = "idle" /\ w = "open" /\ d = {}
           \/ Way(p) = "open" /\ running = TRUE /\ w = "direct" /\ d = {}
           \/ Way(p) = "open" /\ running = TRUE /\ w = "relay" /\ \E e \in Ip \X DstPort : d = {e}
           \/ Way(p) # "idle" /\ w = "closing" /\ d = {}
           \/ Way(p) \in {"open", "direct", "closing"} /\ w = "idle" /\ d = {}
           \/ Way(p) = "relay" /\ running = FALSE /\ w = "open" /\ d = {}
    PROVE  [Abstract!Next]_(Abstract!vars)
<1> DEFINE f == [q \in Port |-> Way(q)]
<1>1. Abstract!Becomes(p, w, d) BY MovesIs
<1>2. f[p] = Way(p) OBVIOUS
<1>3. CASE Way(p) = w /\ Redirected(p) = d
  <2>1. \A q \in Port : Stays(q) BY <1>3 DEF Moves, Stays
  <2> QED BY <2>1, StaysIs DEF Moves
<1>4. CASE Way(p) = "idle" /\ w = "open" /\ d = {}
  <2>1. Abstract!Begin(p) BY <1>1, <1>2, <1>4 DEF Abstract!Begin
  <2> QED BY <2>1 DEF Abstract!Next
<1>5. CASE Way(p) = "open" /\ running = TRUE /\ w = "direct" /\ d = {}
  <2>1. Abstract!Choose(p) BY <1>1, <1>2, <1>5 DEF Abstract!Choose
  <2> QED BY <2>1 DEF Abstract!Next
<1>6. CASE Way(p) = "open" /\ running = TRUE /\ w = "relay" /\ \E e \in Ip \X DstPort : d = {e}
  <2>1. Abstract!Choose(p) BY <1>1, <1>2, <1>6 DEF Abstract!Choose
  <2> QED BY <2>1 DEF Abstract!Next
<1>7. CASE Way(p) # "idle" /\ w = "closing" /\ d = {}
  <2>1. Abstract!Close(p) BY <1>1, <1>2, <1>7 DEF Abstract!Close
  <2> QED BY <2>1 DEF Abstract!Next
<1>8. CASE Way(p) \in {"open", "direct", "closing"} /\ w = "idle" /\ d = {}
  <2>1. Abstract!End(p) BY <1>1, <1>2, <1>8 DEF Abstract!End
  <2> QED BY <2>1 DEF Abstract!Next
<1>9. CASE Way(p) = "relay" /\ running = FALSE /\ w = "open" /\ d = {}
  <2>1. Abstract!Stray(p) BY <1>1, <1>2, <1>9 DEF Abstract!Stray
  <2> QED BY <2>1 DEF Abstract!Next
<1> QED BY <1>3, <1>4, <1>5, <1>6, <1>7, <1>8, <1>9

\* What a step must leave alone for a port to stay as it is.
Unmoved(q) ==
    /\ conn'[q] = conn[q]
    /\ q \in direct' <=> q \in direct
    /\ q \in Tracked' <=> q \in Tracked
    /\ q \in Tracked => SameDest(Get(table', q), Get(table, q))

\* A port that a step leaves alone stays as it is.
LEMMA UnmovedStays ==
    ASSUME NEW q \in Port, Entered(q), Unmoved(q), running' = running
    PROVE  Stays(q) /\ Entered(q)'
<1>1. Way(q)' = Way(q) BY DEF Way, Unmoved
<1>2. Way(q) = "relay" => q \in Tracked BY DEF Way, Entered
<1>3. Redirected(q)' = Redirected(q) BY <1>1, <1>2 DEF Redirected, Unmoved, SameDest
<1>4. Entered(q)' BY DEF Entered, Unmoved
<1> QED BY <1>1, <1>3, <1>4 DEF Stays

\* An entry names a destination.
LEMMA GetTyped ==
    ASSUME TypeOK, OneEntryPerPort, NEW p \in Tracked
    PROVE  <<Get(table, p).orig_dest_ip, Get(table, p).orig_dest_port>> \in Ip \X DstPort
<1>1. p \in Port /\ table \in Table BY DEF Tracked, TypeOK
<1>2. PICK k \in Matches(table, p) : TRUE BY DEF Tracked, IsTracked
<1>3. Get(table, p) = table[Hash(p)][k] BY <1>1, <1>2, GetIs DEF OneEntryPerPort
<1>4. k \in 1 .. Len(table[Hash(p)]) BY <1>2 DEF Matches
<1>5. table[Hash(p)] \in Seq(Entry) BY <1>1, HashInBucket DEF Table
<1>6. Get(table, p) \in Entry BY <1>3, <1>4, <1>5
<1> QED BY <1>6 DEF Entry

\* A step that touches one port, and moves it as Redirection allows.
LEMMA OnePort ==
    ASSUME NEW p \in Port, \A q \in Port : Entered(q),
           \A q \in Port : q # p => Unmoved(q), running' = running, Entered(p)',
           NEW w, NEW d, Way(p)' = w, Redirected(p)' = d,
           \/ Way(p) = w /\ Redirected(p) = d
           \/ Way(p) = "idle" /\ w = "open" /\ d = {}
           \/ Way(p) = "open" /\ running = TRUE /\ w = "direct" /\ d = {}
           \/ Way(p) = "open" /\ running = TRUE /\ w = "relay" /\ \E e \in Ip \X DstPort : d = {e}
           \/ Way(p) # "idle" /\ w = "closing" /\ d = {}
           \/ Way(p) \in {"open", "direct", "closing"} /\ w = "idle" /\ d = {}
           \/ Way(p) = "relay" /\ running = FALSE /\ w = "open" /\ d = {}
    PROVE  [Abstract!Next]_(Abstract!vars) /\ \A q \in Port : Entered(q)'
<1>1. ASSUME NEW q \in Port, q # p PROVE Stays(q) /\ Entered(q)' BY <1>1, UnmovedStays
<1>2. Moves(p, w, d) BY <1>1 DEF Moves
<1>3. [Abstract!Next]_(Abstract!vars) BY <1>2, MovesNext
<1> QED BY <1>1, <1>3

\* A packet of the client.
LEMMA ClientMoves ==
    ASSUME IInv, \A q \in Port : Entered(q), NEW p \in Port, NEW fin \in BOOLEAN,
           ClientPacket(p, fin)
    PROVE  [Abstract!Next]_(Abstract!vars) /\ \A q \in Port : Entered(q)'
<1>1. TypeOK /\ OneEntryPerPort /\ DirectIsUntracked /\ Entered(p) BY DEF IInv
<1>2. conn[p] # NoConn /\ running = TRUE /\ running' = running
  <2>1. ClientSends(p, fin) /\ running' = running
    BY DEF ClientPacket, Step1Direct, Step3Tracked, Step4Direct, Step4Block, Step4Proxy,
           Judge, Verdict, confVars
  <2>2. running = TRUE BY <2>1, Zenon DEF ClientSends
  <2> QED BY <2>1, <2>2 DEF ClientSends
<1>3. conn[p] \in Conn BY <1>1, <1>2 DEF TypeOK
<1>4. p \in direct => p \in decided /\ p \notin Tracked BY <1>1 DEF DirectIsUntracked, Tracked
<1>5. /\ \A q \in Port : q # p => /\ q \in direct' <=> q \in direct
                                  /\ q \in Tracked' <=> q \in Tracked
                                  /\ q \in Tracked => SameDest(Get(table', q), Get(table, q))
      /\ \/ /\ Record(p, fin, "direct") /\ p \notin Tracked
            /\ ~fin => p \in direct'
         \/ /\ Record(p, fin, "relay") /\ p \in Tracked
            /\ ~fin => UNCHANGED table
         \/ /\ Record(p, fin, "block") /\ p \notin Tracked
            /\ ~fin => p \notin direct
         \/ /\ Record(p, fin, "relay") /\ p \notin Tracked /\ p \in Tracked'
            /\ ~fin => p \notin direct
            /\ Get(table', p).orig_dest_ip = conn[p].ip
            /\ Get(table', p).orig_dest_port = conn[p].dport
  <2>1. CASE Step1Direct(p, fin)
    <3>1. /\ Record(p, fin, "direct") /\ UNCHANGED <<table, direct>> /\ p \in direct
      BY <2>1 DEF Step1Direct, PassesStep1, AfterStep1, loopVars
    <3> QED BY <1>4, <3>1, TableSame
  <2>2. CASE Step3Tracked(p, fin)
    <3>1. IsTracked(table, p) /\ Record(p, fin, "relay") BY <2>2 DEF Step3Tracked
    <3>2. p \in Tracked BY <3>1 DEF Tracked
    <3>3. CASE fin
      <4>1. table' = Remove(table, p) /\ direct' = direct \ {p} BY <2>2, <3>3 DEF Step3Tracked
      <4> QED BY <1>1, <3>1, <3>2, <3>3, <4>1, RemoveTracked
    <3>4. CASE ~fin
      <4>1. UNCHANGED <<table, direct>> BY <2>2, <3>4 DEF Step3Tracked
      <4> QED BY <3>1, <3>2, <4>1, TableSame
    <3> QED BY <3>3, <3>4
  <2>3. CASE Step4Direct(p, fin)
    <3>1. Judge(p, fin, "direct") /\ UNCHANGED table BY <2>3 DEF Step4Direct
    <3>2. Record(p, fin, "direct") /\ p \notin Tracked BY <3>1 DEF Judge, Verdict, Tracked
    <3>3. p \in direct' /\ \A q \in Port : q # p => (q \in direct' <=> q \in direct)
      BY <2>3 DEF Step4Direct, AfterStep1
    <3> QED BY <3>1, <3>2, <3>3, TableSame
  <2>4. ASSUME NEW v, Judge(p, fin, v)
        PROVE  Record(p, fin, v) /\ p \notin Tracked /\ (~fin => p \notin direct)
    <3>1. Record(p, fin, v) /\ p \notin Tracked /\ PassesStep1(p, fin)
      BY <2>4 DEF Judge, Verdict, Tracked
    <3> QED BY <1>4, <3>1 DEF PassesStep1, AfterStep1
  <2>5. CASE Step4Block(p, fin)
    <3>1. Judge(p, fin, "block") /\ UNCHANGED table BY <2>5 DEF Step4Block
    <3>2. \A q \in Port : q # p => (q \in direct' <=> q \in direct)
      BY <2>5 DEF Step4Block, AfterStep1
    <3> QED BY <2>4, <3>1, <3>2, TableSame
  <2>6. CASE Step4Proxy(p, fin)
    <3>1. Judge(p, fin, "relay") BY <2>6 DEF Step4Proxy
    <3>2. \A q \in Port : q # p => (q \in direct' <=> q \in direct)
      BY <2>6 DEF Step4Proxy, AfterStep1
    <3>3. table' = SetProcessInfo(Add(table, p, conn[p].ip, conn[p].dport), p, FindPid(p))
      BY <2>6 DEF Step4Proxy
    <3>4. ~IsTracked(table, p) /\ conn[p].ip \in Ip /\ conn[p].dport \in DstPort
      BY <1>3, <3>1 DEF Judge, Conn
    <3>5. FindPid(p) \in App \cup {NoPid} BY <1>1, <3>1, JudgeTyped
    <3>6. /\ Tracked' = Tracked \cup {p}
          /\ \A q \in Tracked : SameDest(Get(table', q), Get(table, q))
          /\ Get(table', p).orig_dest_ip = conn[p].ip
          /\ Get(table', p).orig_dest_port = conn[p].dport
      BY <1>1, <3>3, <3>4, <3>5, AddTracked
    <3> QED BY <2>4, <3>1, <3>2, <3>6
  <2> QED BY <2>1, <2>2, <2>3, <2>5, <2>6 DEF ClientPacket
<1>6. PICK v \in {"direct", "relay", "block"} : Record(p, fin, v) BY <1>5
<1>7. /\ conn'[p] # NoConn /\ conn'[p].via = v
      /\ conn'[p].fin = conn[p].fin \cup (IF fin THEN {"client"} ELSE {})
      /\ \A q \in Port : q # p => conn'[q] = conn[q]
  BY <1>1, <1>2, <1>6, RecordSays
<1>8. \A q \in Port : q # p => Unmoved(q) BY <1>5, <1>7 DEF Unmoved
<1>9. CASE fin \/ conn[p].fin # {}
  <2>1. conn'[p].fin # {} BY <1>7, <1>9
  <2>2. Way(p)' = "closing" /\ Redirected(p)' = {} /\ Entered(p)'
    BY <1>7, <2>1 DEF Way, Redirected, Entered
  <2>3. Way(p) # "idle" BY <1>2 DEF Way
  <2> QED BY <1>2, <1>8, <2>2, <2>3, OnePort
<1>10. CASE ~fin /\ conn[p].fin = {}
  <2>1. conn'[p].fin = {} BY <1>7, <1>10
  <2>2. Way(p) = IF conn[p].via = "relay" THEN "relay"
                 ELSE IF conn[p].via = "direct" /\ p \in direct THEN "direct" ELSE "open"
    BY <1>2, <1>10 DEF Way
  <2>3. Way(p)' = IF v = "relay" THEN "relay"
                  ELSE IF v = "direct" /\ p \in direct' THEN "direct" ELSE "open"
    BY <1>2, <1>7, <2>1 DEF Way
  <2>4. conn[p].via = "relay" => p \in Tracked BY <1>1, <1>2, <1>10 DEF Entered
  <2>5. ASSUME NEW u, NEW w, Record(p, fin, u), Record(p, fin, w),
               u \in {"direct", "relay", "block"}, w \in {"direct", "relay", "block"}
        PROVE  u = w
    BY <1>1, <1>2, <2>5, RecordSays
  <2>6. CASE v = "direct"
    <3>1. p \notin Tracked /\ p \in direct' BY <1>5, <1>6, <1>10, <2>5, <2>6
    <3>2. Way(p) \in {"open", "direct"} BY <2>2, <2>4, <3>1
    <3>3. Way(p)' = "direct" BY <2>3, <2>6, <3>1
    <3>4. Redirected(p) = {} /\ Redirected(p)' = {} BY <3>2, <3>3 DEF Redirected
    <3>5. Entered(p)' BY <1>7, <2>6 DEF Entered
    <3> QED BY <1>2, <1>8, <3>2, <3>3, <3>4, <3>5, OnePort
  <2>7. CASE v = "block"
    <3>1. p \notin Tracked /\ p \notin direct BY <1>5, <1>6, <1>10, <2>5, <2>7
    <3>2. Way(p) = "open" BY <2>2, <2>4, <3>1
    <3>3. Way(p)' = "open" BY <2>3, <2>7
    <3>4. Redirected(p) = {} /\ Redirected(p)' = {} BY <3>2, <3>3 DEF Redirected
    <3>5. Entered(p)' BY <1>7, <2>7 DEF Entered
    <3> QED BY <1>2, <1>8, <3>2, <3>3, <3>4, <3>5, OnePort
  <2>8. CASE v = "relay" /\ p \in Tracked
    <3>1. UNCHANGED table BY <1>5, <1>6, <1>10, <2>5, <2>8
    <3> DEFINE e == <<Get(table, p).orig_dest_ip, Get(table, p).orig_dest_port>>
    <3>2. e \in Ip \X DstPort BY <1>1, <2>8, GetTyped
    <3>3. Way(p)' = "relay" BY <2>3, <2>8
    <3>4. Redirected(p)' = {e} BY <3>1, <3>3 DEF Redirected
    <3>5. Way(p) = "relay" => Redirected(p) = {e} BY DEF Redirected
    <3>6. Way(p) \in {"relay", "open"} BY <1>4, <2>2, <2>8
    <3>7. Entered(p)'
      <4>1. Tracked' = Tracked BY <3>1, TableSame
      <4> QED BY <2>8, <4>1 DEF Entered
    <3> HIDE DEF e
    <3> QED BY <1>2, <1>8, <3>2, <3>3, <3>4, <3>5, <3>6, <3>7, OnePort
  <2>9. CASE v = "relay" /\ p \notin Tracked
    <3>1. /\ p \in Tracked' /\ p \notin direct /\ Get(table', p).orig_dest_ip = conn[p].ip
          /\ Get(table', p).orig_dest_port = conn[p].dport
      BY <1>5, <1>6, <1>10, <2>5, <2>9
    <3> DEFINE e == <<conn[p].ip, conn[p].dport>>
    <3>2. e \in Ip \X DstPort BY <1>3 DEF Conn
    <3>3. Way(p)' = "relay" BY <2>3, <2>9
    <3>4. Redirected(p)' = {e} BY <3>1, <3>3 DEF Redirected
    <3>5. Way(p) = "open" BY <2>2, <2>4, <2>9, <3>1
    <3>6. Entered(p)' BY <3>1 DEF Entered
    <3> HIDE DEF e
    <3> QED BY <1>2, <1>8, <3>2, <3>3, <3>4, <3>5, <3>6, OnePort
  <2> QED BY <2>6, <2>7, <2>8, <2>9
<1> QED BY <1>9, <1>10

\* Steps that change nothing a way depends on.
LEMMA NothingMoves ==
    ASSUME \A q \in Port : Entered(q), UNCHANGED <<running, table, direct, conn>>
    PROVE  [Abstract!Next]_(Abstract!vars) /\ \A q \in Port : Entered(q)'
<1>1. \A q \in Port : Unmoved(q) BY TableSame DEF Unmoved
<1>2. \A q \in Port : Stays(q) /\ Entered(q)' BY <1>1, UnmovedStays
<1>3. UNCHANGED Abstract!vars BY <1>2, StaysIs
<1> QED BY <1>2, <1>3

\* A packet of the relay: a FIN or RST closes the connection and drops its entry.
LEMMA RelayMoves ==
    ASSUME IInv, \A q \in Port : Entered(q), NEW p \in Port, NEW fin \in BOOLEAN,
           RelayPacket(p, fin)
    PROVE  [Abstract!Next]_(Abstract!vars) /\ \A q \in Port : Entered(q)'
<1>1. TypeOK /\ OneEntryPerPort /\ Entered(p) BY DEF IInv
<1>2. CASE Step2Stray(p)
  <2>1. UNCHANGED <<running, table, direct, conn>>
    BY <1>2 DEF Step2Stray, vars, loopVars, confVars, envVars
  <2> QED BY <2>1, NothingMoves
<1>3. CASE Step2Restore(p, fin) /\ ~fin
  <2>1. UNCHANGED <<running, table, direct, conn>>
    BY <1>3 DEF Step2Restore, confVars
  <2> QED BY <2>1, NothingMoves
<1>4. CASE Step2Restore(p, fin) /\ fin
  <2>1. /\ IsTracked(table, p) /\ table' = Remove(table, p) /\ direct' = direct \ {p}
        /\ running' = running
        /\ conn' = IF conn[p] # NoConn
                   THEN [conn EXCEPT ![p].fin = @ \cup {"relay"}] ELSE conn
    BY <1>4 DEF Step2Restore, confVars
  <2>2. /\ Tracked' = Tracked \ {p}
        /\ \A q \in Tracked : q # p => SameDest(Get(table', q), Get(table, q))
    BY <1>1, <2>1, RemoveTracked
  <2>3. \A q \in Port : q # p => conn'[q] = conn[q] BY <1>1, <2>1 DEF TypeOK
  <2>4. \A q \in Port : q # p => Unmoved(q) BY <2>1, <2>2, <2>3 DEF Unmoved
  <2>5. CASE conn[p] = NoConn
    <3>1. conn'[p] = NoConn BY <2>1, <2>5
    <3>2. Way(p) = "idle" /\ Way(p)' = "idle" /\ Entered(p)' BY <2>5, <3>1 DEF Way, Entered
    <3>3. Redirected(p) = {} /\ Redirected(p)' = {} BY <3>2 DEF Redirected
    <3> QED BY <2>1, <2>4, <3>2, <3>3, OnePort
  <2>6. CASE conn[p] # NoConn
    <3>1. conn[p] \in Conn /\ conn \in [Port -> Conn \cup {NoConn}] BY <1>1, <2>6 DEF TypeOK
    <3>2. conn'[p] \in Conn /\ conn'[p].fin # {} BY <2>1, <2>6, <3>1 DEF Conn
    <3>3. conn'[p] # NoConn BY <3>2, NoConnAssumption
    <3>4. Way(p)' = "closing" /\ Entered(p)' BY <3>2, <3>3 DEF Way, Entered
    <3>5. Redirected(p)' = {} BY <3>4 DEF Redirected
    <3>6. Way(p) # "idle" BY <2>6 DEF Way
    <3> QED BY <2>1, <2>4, <3>4, <3>5, <3>6, OnePort
  <2> QED BY <2>5, <2>6
<1> QED BY <1>2, <1>3, <1>4 DEF RelayPacket

\* A stop gives up the direct connections, a start takes none, and a new
\* configuration moves nothing.
LEMMA ControlMoves ==
    ASSUME IInv, \A q \in Port : Entered(q), Control
    PROVE  [Abstract!Next]_(Abstract!vars) /\ \A q \in Port : Entered(q)'
<1> USE DEF loopVars, confVars, envVars
<1>1. CASE SetProxyConfig \/ \E r \in RuleSets : SetRules(r)
  <2>1. UNCHANGED <<running, table, direct, conn>> BY <1>1 DEF SetProxyConfig, SetRules
  <2> QED BY <2>1, NothingMoves
<1>2. CASE Close
  <2>1. running = TRUE /\ running' = FALSE BY <1>2, Zenon DEF Close
  <2>2. UNCHANGED <<table, direct, conn>> BY <1>2 DEF Close
  <2>3. ASSUME NEW q \in Port
        PROVE  /\ Way(q)' = IF Way(q) = "direct" THEN "open" ELSE Way(q)
               /\ Redirected(q)' = Redirected(q) /\ Entered(q)'
    <3>1. Way(q)' = IF Way(q) = "direct" THEN "open" ELSE Way(q) BY <2>1, <2>2 DEF Way
    <3>2. Redirected(q)' = Redirected(q) BY <2>2, <3>1 DEF Redirected
    <3>3. Entered(q)' BY <2>2, TableSame DEF Entered
    <3> QED BY <3>1, <3>2, <3>3
  <2> DEFINE f == [q \in Port |-> Way(q)]
             g == [q \in Port |-> Redirected(q)]
  <2>4. f' = [q \in Port |-> IF f[q] = "direct" THEN "open" ELSE f[q]] BY <2>3
  <2>5. g' = g BY <2>3
  <2>6. Abstract!Stop BY <2>1, <2>4, <2>5 DEF Abstract!Stop
  <2> QED BY <2>3, <2>6 DEF Abstract!Next
<1>3. CASE Open
  <2>1. running = FALSE /\ running' = TRUE
    <3>1. running \in BOOLEAN BY DEF IInv, TypeOK
    <3> QED BY <1>3, <3>1, Zenon DEF Open
  <2>2. UNCHANGED <<table, conn>> /\ direct' = {} BY <1>3 DEF Open
  <2>3. ASSUME NEW q \in Port PROVE Stays(q) /\ Entered(q)'
    <3>1. Way(q)' = Way(q) BY <2>1, <2>2 DEF Way
    <3>2. Redirected(q)' = Redirected(q) BY <2>2, <3>1 DEF Redirected
    <3>3. Entered(q)' BY <2>2, TableSame DEF Entered
    <3> QED BY <3>1, <3>2, <3>3 DEF Stays
  <2>4. /\ [q \in Port |-> Way(q)]' = [q \in Port |-> Way(q)]
        /\ [q \in Port |-> Redirected(q)]' = [q \in Port |-> Redirected(q)]
    BY <2>3 DEF Stays
  <2>5. Abstract!Start BY <2>1, <2>4 DEF Abstract!Start
  <2> QED BY <2>3, <2>5 DEF Abstract!Next
<1> QED BY <1>1, <1>2, <1>3 DEF Control

\* Connections begin and end, and pass by a capture that is stopped.
LEMMA EnvironmentMoves ==
    ASSUME IInv, \A q \in Port : Entered(q), Environment
    PROVE  [Abstract!Next]_(Abstract!vars) /\ \A q \in Port : Entered(q)'
<1> USE DEF loopVars, confVars, envVars
<1>1. TypeOK /\ conn \in [Port -> Conn \cup {NoConn}] BY DEF IInv, TypeOK
<1>2. UNCHANGED <<running, table, direct>>
  BY DEF Environment, Connect, Listed, TimeWait, Release, RelayDone, PidExpire, Bypass
<1>3. Tracked' = Tracked /\ \A q \in Port : SameDest(Get(table', q), Get(table, q))
  BY <1>2, TableSame
<1>4. ASSUME NEW p \in Port, \A q \in Port : q # p => conn'[q] = conn[q]
      PROVE  \A q \in Port : q # p => Unmoved(q)
  BY <1>2, <1>3, <1>4 DEF Unmoved
<1>5. ASSUME NEW p \in Port, NEW a \in App, NEW ip \in Ip, NEW d \in DstPort,
             Connect(p, a, ip, d)
      PROVE  [Abstract!Next]_(Abstract!vars) /\ \A q \in Port : Entered(q)'
  <2>1. PICK r \in {"owned", "absent"} :
          conn' = [conn EXCEPT ![p] = [app |-> a, ip |-> ip, dport |-> d, row |-> r,
                                       fin |-> {}, via |-> "none", known |-> FALSE]]
    BY <1>5 DEF Connect
  <2>2. /\ conn'[p] \in Conn /\ conn'[p].via = "none" /\ conn'[p].fin = {}
        /\ \A q \in Port : q # p => conn'[q] = conn[q]
    BY <1>1, <2>1 DEF Conn
  <2>3. conn'[p] # NoConn BY <2>2, NoConnAssumption
  <2>4. Way(p) = "idle" BY <1>5 DEF Connect, Way
  <2>5. Way(p)' = "open" /\ Entered(p)' BY <2>2, <2>3 DEF Way, Entered
  <2>6. Redirected(p)' = {} BY <2>5 DEF Redirected
  <2> QED BY <1>2, <1>4, <2>2, <2>4, <2>5, <2>6, OnePort
<1>6. ASSUME NEW p \in Port, Listed(p) \/ TimeWait(p)
      PROVE  [Abstract!Next]_(Abstract!vars) /\ \A q \in Port : Entered(q)'
  <2>1. conn[p] \in Conn /\ conn[p] # NoConn BY <1>1, <1>6 DEF Listed, TimeWait
  <2>2. PICK r \in {"owned", "timewait"} : conn' = [conn EXCEPT ![p].row = r]
    BY <1>6 DEF Listed, TimeWait
  <2>3. conn'[p] \in Conn BY <1>1, <2>1, <2>2 DEF Conn
  <2>4. /\ conn'[p] # NoConn /\ conn'[p].via = conn[p].via /\ conn'[p].fin = conn[p].fin
        /\ \A q \in Port : q # p => conn'[q] = conn[q]
    BY <1>1, <2>1, <2>2, <2>3, NoConnAssumption DEF Conn
  <2>5. Way(p)' = Way(p) BY <1>2, <2>1, <2>4 DEF Way
  <2>6. Redirected(p)' = Redirected(p) BY <1>2, <2>5 DEF Redirected
  <2>7. Entered(p)'
    <3>1. Entered(p) OBVIOUS
    <3> QED BY <1>3, <2>1, <2>4, <3>1 DEF Entered
  <2>8. \A q \in Port : q # p => Unmoved(q) BY <1>4, <2>4
  <2>9. ASSUME NEW q \in Port PROVE Stays(q) /\ Entered(q)'
    BY <1>2, <2>5, <2>6, <2>7, <2>8, UnmovedStays DEF Stays
  <2> QED BY <1>2, <2>9, StaysIs
<1>7. ASSUME NEW p \in Port, Release(p)
      PROVE  [Abstract!Next]_(Abstract!vars) /\ \A q \in Port : Entered(q)'
  <2>1. conn'[p] = NoConn /\ \A q \in Port : q # p => conn'[q] = conn[q]
    BY <1>1, <1>7 DEF Release
  <2>2. Way(p) \in {"open", "direct", "closing"} BY <1>7 DEF Release, Way
  <2>3. Way(p)' = "idle" /\ Entered(p)' BY <2>1 DEF Way, Entered
  <2>4. Redirected(p)' = {} BY <2>3 DEF Redirected
  <2> QED BY <1>2, <1>4, <2>1, <2>2, <2>3, <2>4, OnePort
<1>8. ASSUME NEW p \in Port, RelayDone(p) \/ PidExpire(p)
      PROVE  [Abstract!Next]_(Abstract!vars) /\ \A q \in Port : Entered(q)'
  <2>1. UNCHANGED conn BY <1>8 DEF RelayDone, PidExpire
  <2> QED BY <1>2, <2>1, NothingMoves
<1>9. ASSUME NEW p \in Port, NEW fin \in BOOLEAN, Bypass(p, fin)
      PROVE  [Abstract!Next]_(Abstract!vars) /\ \A q \in Port : Entered(q)'
  <2>1. conn[p] # NoConn /\ Record(p, fin, "direct") BY <1>9 DEF Bypass
  <2>2. /\ conn'[p] # NoConn /\ conn'[p].via = "direct"
        /\ conn'[p].fin = conn[p].fin \cup (IF fin THEN {"client"} ELSE {})
        /\ \A q \in Port : q # p => conn'[q] = conn[q]
    BY <1>1, <2>1, RecordSays
  <2>3. running = FALSE
    <3>1. running \in BOOLEAN BY <1>1 DEF TypeOK
    <3> QED BY <1>9, <3>1, Zenon DEF Bypass
  <2>4. Entered(p)' BY <2>2 DEF Entered
  <2>5. CASE fin \/ conn[p].fin # {}
    <3>1. Way(p)' = "closing" BY <2>2, <2>5 DEF Way
    <3>2. Redirected(p)' = {} /\ Way(p) # "idle" BY <2>1, <3>1 DEF Redirected, Way
    <3> QED BY <1>2, <1>4, <2>2, <2>4, <3>1, <3>2, OnePort
  <2>6. CASE ~fin /\ conn[p].fin = {}
    <3>1. Way(p)' = "open" BY <1>2, <2>2, <2>3, <2>6 DEF Way
    <3>2. Way(p) \in {"open", "relay"} BY <2>1, <2>3, <2>6 DEF Way
    <3>3. Redirected(p)' = {} /\ (Way(p) = "open" => Redirected(p) = {})
      BY <3>1 DEF Redirected
    <3> QED BY <1>2, <1>4, <2>2, <2>3, <2>4, <3>1, <3>2, <3>3, OnePort
  <2> QED BY <2>5, <2>6
<1> QED BY <1>5, <1>6, <1>7, <1>8, <1>9 DEF Environment

\* The capture implements Redirection, with ports used again, a TCP table that
\* lags, new rules and proxies, and restarts: once chosen, the way of a connection
\* and the destination the relay has for it stay until a side closes or the capture
\* stops.
THEOREM CaptureImplementsRedirection == Spec => KeepsItsWay
<1> DEFINE EInv == \A q \in Port : Entered(q)
<1>1. ASSUME Init PROVE Abstract!Init /\ EInv
  <2>1. running = TRUE /\ \A q \in Port : conn[q] = NoConn BY <1>1 DEF Init
  <2>2. \A q \in Port : Way(q) = "idle" /\ Entered(q) BY <2>1 DEF Way, Entered
  <2>3. \A q \in Port : Redirected(q) = {} BY <2>2 DEF Redirected
  <2> QED BY <2>1, <2>2, <2>3 DEF Abstract!Init
<1>2. ASSUME IInv, EInv, [Next]_vars PROVE [Abstract!Next]_(Abstract!vars) /\ EInv'
  <2>1. CASE Loop BY <1>2, <2>1, ClientMoves, RelayMoves DEF Loop
  <2>2. CASE Control BY <1>2, <2>2, ControlMoves
  <2>3. CASE Environment BY <1>2, <2>3, EnvironmentMoves
  <2>4. CASE UNCHANGED vars
    <3>1. UNCHANGED <<running, table, direct, conn>>
      BY <2>4 DEF vars, loopVars, confVars, envVars
    <3> QED BY <1>2, <3>1, NothingMoves
  <2> QED BY <1>2, <2>1, <2>2, <2>3, <2>4 DEF Next
<1> HIDE DEF EInv
<1> QED BY <1>1, <1>2, CaptureInductive, PTL DEF Spec, KeepsItsWay, Abstract!Spec
=============================================================================
