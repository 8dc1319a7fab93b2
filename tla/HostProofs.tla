----------------------------- MODULE HostProofs -----------------------------
(***************************************************************************)
(* Theorems about Host, for every command line, set of hosts, registry,    *)
(* webhook key and request and every number of clients, edits and stops.   *)
(* The inductive invariant follows a request: while it is on its way the   *)
(* scopes minted for it are those of the host it names and no other, and   *)
(* they allow a refresh only when a key verified.  A second one, Placed,   *)
(* is of the disk and the task: where a running server's sites keep their  *)
(* files, and for whom each was written.  Both rest on names that are      *)
(* spelled apart: of a prefix's file, and of a webhook's secret.           *)
(***************************************************************************)
EXTENDS Host, Recursion

Tenants == HostName \cup {None}

\* The scopes a request may have been given: none, or those of the tenant it names.
ScopesSound(q) ==
    LET tenant == HostTenant(q.carried)
    IN  \/ q.scopes = {}
        \/ tenant \in Site /\ q.scopes = Reading(tenant)
        \/ tenant \in Site /\ q.scopes = RefreshCapability(tenant, q.carried.path.prefix)

\* What is answered from the disk was read from the directory of the host named.
DirSound(q) ==
    (server.tenanted /\ q.dir # None) =>
        /\ HostTenant(q.carried) \in Site
        /\ q.dir = server.dirs[HostTenant(q.carried)]

OnItsWay(q) ==
    /\ q.pc \in {"arrived", "admitted"}
    /\ q = [pc |-> q.pc, carried |-> q.carried, verified |-> q.verified]

Minted(q) ==
    /\ q.pc = "minted"
    /\ q = [pc |-> q.pc, carried |-> q.carried, verified |-> q.verified, scopes |-> q.scopes]
    /\ ScopesSound(q)
    /\ CAP_REFRESH \in q.scopes => q.verified

Answered(q) ==
    /\ q.pc = "answered"
    /\ q = [pc |-> q.pc, carried |-> q.carried, verified |-> q.verified, status |-> q.status,
            dir |-> q.dir, refreshed |-> q.refreshed]
    /\ DirSound(q)
    /\ q.refreshed => q.verified

RequestSound(q) ==
    \/ q = IdleRequest
    \/ server # None /\ q.carried \in Requests /\ (OnItsWay(q) \/ Minted(q) \/ Answered(q))

ServerOK ==
    server # None =>
        \E command \in Commands : TenantDirs(command) # None /\ server = Configured(command)

\* Each key is held for the namespace whose name it is under.
SecretsOK ==
    /\ secrets = [n \in DOMAIN secrets |-> secrets[n]]
    /\ DOMAIN secrets = {HookSecret(w[1], w[2]) : w \in DOMAIN FirstKey}
    /\ \A n \in DOMAIN secrets : \E w \in DOMAIN FirstKey :
          n = HookSecret(w[1], w[2]) /\ secrets[n] = Held(secrets[n].key, w)

RequestsOK ==
    /\ request = [c \in Client |-> request[c]]
    /\ \A c \in Client : RequestSound(request[c])

IInv == ServerOK /\ SecretsOK /\ RequestsOK

-----------------------------------------------------------------------------
(* The names of files and secrets. *)

\* How file_part writes one character.
Piece(c) == IF c \in Plain THEN <<c>> ELSE Coded[c]
Pieces(prefix) == [i \in DOMAIN prefix |-> Piece(prefix[i])]
Written == Plain \cup {Mark}

LEMMA PieceType ==
    ASSUME NEW c \in Character
    PROVE  Piece(c) \in Seq(Written) /\ Len(Piece(c)) > 0
  <1>1. CASE c \in Plain
    BY <1>1 DEF Piece, Written
  <1>2. CASE c \notin Plain
    <2>1. Piece(c) = Coded[c] /\ Coded[c] \in Seq(Written) /\ Coded[c] # << >>
      BY <1>2, NamesAssumption DEF Piece, Character, Written
    <2> QED BY <2>1
  <1> QED BY <1>1, <1>2

\* No character is written as the beginning of another.
LEMMA PieceApart ==
    ASSUME NEW c \in Character, NEW d \in Character, Begins(Piece(c), Piece(d))
    PROVE  c = d
  <1> SUFFICES ASSUME c # d PROVE FALSE
    OBVIOUS
  <1>1. /\ Piece(c) \in Seq(Written) /\ Len(Piece(c)) > 0
        /\ Piece(d) \in Seq(Written) /\ Len(Piece(d)) > 0
    BY PieceType
  <1>2. Piece(c)[1] = Piece(d)[1]
    BY <1>1 DEF Begins
  <1>3. ASSUME NEW e \in Character
        PROVE  /\ e \in Plain => Piece(e)[1] = e
               /\ e \notin Plain => Piece(e)[1] = Mark /\ Piece(e) = Coded[e] /\ e \in DOMAIN Coded
    BY NamesAssumption DEF Piece, Character
  <1>4. Mark \notin Plain
    BY NamesAssumption
  <1>5. c \notin Plain /\ d \notin Plain
    BY <1>2, <1>3, <1>4
  <1>6. ~IsPrefix(Coded[c], Coded[d])
    BY <1>3, <1>5, NamesAssumption
  <1>7. Piece(c) = Coded[c] /\ Piece(d) = Coded[d]
    BY <1>3, <1>5
  <1>8. ASSUME NEW a \in Seq(Written), NEW b \in Seq(Written), Begins(a, b) PROVE IsPrefix(a, b)
    <2>1. Len(a) <= Len(b) /\ \A i \in 1..Len(a) : a[i] = b[i]
      BY <1>8 DEF Begins
    <2>2. SubSeq(a, 1, Len(a)) = SubSeq(b, 1, Len(a))
      BY <2>1
    <2> QED BY <2>1, <2>2 DEF IsPrefix
  <1> QED BY <1>1, <1>6, <1>7, <1>8

LEMMA FilePartPieces ==
    ASSUME NEW prefix \in Seq(Character)
    PROVE  /\ FilePart(prefix) = FlattenSeq(Pieces(prefix))
           /\ Pieces(prefix) \in Seq(Seq(Written))
           /\ Len(Pieces(prefix)) = Len(prefix)
           /\ \A i \in 1..Len(prefix) : prefix[i] \in Character /\ Pieces(prefix)[i] = Piece(prefix[i])
           /\ FilePart(prefix) \in Seq(Written)
  <1>1. FilePart(prefix) = FlattenSeq(Pieces(prefix))
    BY DEF FilePart, Pieces, Piece
  <1>2. \A i \in 1..Len(prefix) : prefix[i] \in Character /\ Pieces(prefix)[i] = Piece(prefix[i])
    BY DEF Pieces
  <1>3. Pieces(prefix) \in Seq(Seq(Written)) /\ Len(Pieces(prefix)) = Len(prefix)
    <2>1. PICK n \in Nat : n = Len(prefix) /\ DOMAIN prefix = 1..n
      OBVIOUS
    <2>2. \A i \in 1..n : Piece(prefix[i]) \in Seq(Written)
      BY <1>2, <2>1, PieceType
    <2>3. Pieces(prefix) = [i \in 1..n |-> Piece(prefix[i])]
      BY <2>1 DEF Pieces
    <2> QED BY <2>1, <2>2, <2>3
  <1>4. FilePart(prefix) \in Seq(Written)
    BY <1>1, <1>3, FlattenType
  <1> QED BY <1>1, <1>2, <1>3, <1>4

\* The part of a file's name that is a prefix's is no other prefix's: file_part codes
\* whatever is not plain, the mark of its codes included.
THEOREM FilePartUnique ==
    ASSUME NEW p \in Seq(Character), NEW q \in Seq(Character), FilePart(p) = FilePart(q)
    PROVE  p = q
  <1>1. FlattenSeq(Pieces(p)) = FlattenSeq(Pieces(q))
    BY FilePartPieces
  <1>2. /\ Pieces(p) \in Seq(Seq(Written)) /\ Len(Pieces(p)) = Len(p)
        /\ Pieces(q) \in Seq(Seq(Written)) /\ Len(Pieces(q)) = Len(q)
    BY FilePartPieces
  <1>3. ASSUME NEW i \in 1..Len(p) PROVE p[i] \in Character /\ Pieces(p)[i] = Piece(p[i])
    BY FilePartPieces
  <1>4. ASSUME NEW j \in 1..Len(q) PROVE q[j] \in Character /\ Pieces(q)[j] = Piece(q[j])
    BY FilePartPieces
  <1>5. \A i \in 1..Len(Pieces(p)) : Len(Pieces(p)[i]) > 0
    BY <1>2, <1>3, PieceType
  <1>6. \A j \in 1..Len(Pieces(q)) : Len(Pieces(q)[j]) > 0
    BY <1>2, <1>4, PieceType
  <1>7. ASSUME NEW i \in 1..Len(Pieces(p)), NEW j \in 1..Len(Pieces(q)),
               Begins(Pieces(p)[i], Pieces(q)[j]) \/ Begins(Pieces(q)[j], Pieces(p)[i])
        PROVE  Pieces(p)[i] = Pieces(q)[j]
    BY <1>2, <1>3, <1>4, <1>7, PieceApart
  <1>8. Pieces(p) = Pieces(q)
    <2> DEFINE a == Pieces(p)
               b == Pieces(q)
    <2>1. a \in Seq(Seq(Written)) /\ b \in Seq(Seq(Written)) /\ FlattenSeq(a) = FlattenSeq(b)
      BY <1>1, <1>2
    <2>2. \A i \in 1..Len(a), j \in 1..Len(b) :
              (Begins(a[i], b[j]) \/ Begins(b[j], a[i])) => a[i] = b[j]
      BY <1>7
    <2>3. /\ \A i \in 1..Len(a) : Len(a[i]) > 0
          /\ \A j \in 1..Len(b) : Len(b[j]) > 0
      BY <1>5, <1>6
    <2> HIDE DEF a, b
    <2>4. a = b
      BY <2>1, <2>2, <2>3, FlattenUnique
    <2> QED BY <2>4 DEF a, b
  <1>9. Len(p) = Len(q)
    BY <1>2, <1>8
  <1>10. ASSUME NEW i \in 1..Len(p) PROVE p[i] = q[i]
    <2>1. i \in 1..Len(q)
      BY <1>9
    <2>2. Piece(p[i]) = Piece(q[i]) /\ p[i] \in Character /\ q[i] \in Character
      BY <1>3, <1>4, <1>8, <2>1
    <2>3. Piece(p[i]) \in Seq(Written)
      BY <2>2, PieceType
    <2>4. Begins(Piece(p[i]), Piece(q[i]))
      BY <2>2, <2>3 DEF Begins
    <2> QED BY <2>2, <2>4, PieceApart
  <1> QED BY <1>9, <1>10, SeqEqual

\* What a dot is put between falls apart only one way, since neither part holds one.
LEMMA DotSplits ==
    ASSUME NEW a \in Seq(Written), NEW b \in Seq(Written),
           NEW c \in Seq(Written), NEW d \in Seq(Written),
           (a \o <<Dot>>) \o b = (c \o <<Dot>>) \o d
    PROVE  a = c /\ b = d
  <1> DEFINE whole == (a \o <<Dot>>) \o b
  <1>1. PICK k \in Nat, l \in Nat, m \in Nat, n \in Nat :
            k = Len(a) /\ l = Len(b) /\ m = Len(c) /\ n = Len(d)
    OBVIOUS
  <1>2. Dot \notin Written
    BY NamesAssumption DEF Written, Dot, Mark
  <1>3. \A i \in 1..k : whole[i] = a[i] /\ a[i] \in Written
    BY <1>1
  <1>4. \A i \in 1..m : whole[i] = c[i] /\ c[i] \in Written
    BY <1>1
  <1>5. whole[k + 1] = Dot /\ whole[m + 1] = Dot
    <2>1. ASSUME NEW S, NEW s \in Seq(S), NEW t \in Seq(S), NEW size \in Nat, size = Len(s)
          PROVE  ((s \o <<Dot>>) \o t)[size + 1] = Dot
      BY <2>1
    <2>2. whole[k + 1] = Dot
      BY <1>1, <2>1
    <2>3. whole = (c \o <<Dot>>) \o d
      OBVIOUS
    <2> HIDE DEF whole
    <2>4. whole[m + 1] = Dot
      BY <1>1, <2>1, <2>3
    <2> QED BY <2>2, <2>4
  <1>6. k = m
    <2>1. ~(k < m)
      BY <1>2, <1>4, <1>5
    <2>2. ~(m < k)
      BY <1>2, <1>3, <1>5
    <2> QED BY <2>1, <2>2
  <1>7. Len(whole) = (k + 1) + l /\ Len(whole) = (m + 1) + n
    BY <1>1
  <1>8. l = n
    BY <1>6, <1>7
  <1>9. a = c
    BY <1>1, <1>3, <1>4, <1>6, SeqEqual
  <1>10. \A i \in 1..l : whole[k + 1 + i] = b[i]
    BY <1>1
  <1>11. \A i \in 1..l : whole[k + 1 + i] = d[i]
    BY <1>1, <1>6, <1>8
  <1>12. b = d
    BY <1>1, <1>8, <1>10, <1>11, SeqEqual
  <1> QED BY <1>9, <1>12

\* What comes after a name's first part.
LEMMA RestOf ==
    ASSUME NEW S, NEW first, NEW a \in Seq(S), NEW b \in Seq(S),
           NEW rest, rest = a \o b, NEW start, start = <<first>> \o a,
           NEW name, name = start \o b
    PROVE  /\ rest \in Seq(S) /\ Len(rest) \in Nat /\ Len(name) = Len(rest) + 1
           /\ \A i \in 1..Len(rest) : rest[i] = name[i + 1]
  <1>1. PICK m \in Nat, n \in Nat : m = Len(a) /\ n = Len(b)
    OBVIOUS
  <1>2. Len(rest) = m + n /\ Len(name) = (1 + m) + n /\ rest \in Seq(S)
    BY <1>1
  <1>3. ASSUME NEW i \in 1..(m + n) PROVE rest[i] = name[i + 1]
    <2>1. CASE i <= m
      BY <1>1, <2>1
    <2>2. CASE i > m
      <3>1. rest[i] = b[i - m]
        BY <1>1, <2>2
      <3>2. name[i + 1] = b[i - m]
        BY <1>1, <2>2
      <3> QED BY <3>1, <3>2
    <2>3. i \in Nat
      OBVIOUS
    <2> QED BY <1>1, <2>1, <2>2, <2>3
  <1> QED BY <1>2, <1>3

\* No two namespaces keep their webhook key under one name.
SecretsApart ==
    \A v, w \in Tenants \X Prefix :
        HookSecret(v[1], v[2]) = HookSecret(w[1], w[2]) => v = w

\* A secret's name is its tenant's and its namespace's, whatever hosts and prefixes there
\* are: neither part of it holds the dot between them, and each is of one text alone.
THEOREM SecretsAreApart == SecretsApart
  <1> SUFFICES ASSUME NEW s \in Tenants, NEW p \in Prefix, NEW t \in Tenants, NEW q \in Prefix,
                      HookSecret(s, p) = HookSecret(t, q)
               PROVE  s = t /\ p = q
    BY DEF SecretsApart
  <1> DEFINE tail(tenant, prefix) ==
                 (IF tenant = None THEN << >> ELSE FilePart(tenant) \o <<Dot>>) \o FilePart(prefix)
  <1>1. p \in Seq(Character) /\ q \in Seq(Character)
    BY HostAssumption
  <1>2. \A tenant \in Tenants : tenant # None => tenant \in Seq(Character)
    BY NamesAssumption DEF Tenants
  <1>3. FilePart(p) \in Seq(Written) /\ FilePart(q) \in Seq(Written)
    BY <1>1, FilePartPieces
  <1>4. \A tenant \in Tenants : tenant # None => FilePart(tenant) \in Seq(Written)
    BY <1>2, FilePartPieces
  <1> DEFINE T == Written \cup {Dot, "hook"}
  <1>5. \A u : u \in Seq(Written) => u \in Seq(T)
    OBVIOUS
  <1>6. \A tenant \in Tenants :
            (IF tenant = None THEN << >> ELSE FilePart(tenant) \o <<Dot>>) \in Seq(T)
    <2>1. <<Dot>> \in Seq(T) /\ << >> \in Seq(T)
      OBVIOUS
    <2> HIDE DEF T
    <2> QED BY <1>4, <1>5, <2>1
  <1>7. tail(s, p) = tail(t, q)
    <2> DEFINE a == IF s = None THEN << >> ELSE FilePart(s) \o <<Dot>>
               b == FilePart(p)
               c == IF t = None THEN << >> ELSE FilePart(t) \o <<Dot>>
               d == FilePart(q)
    <2>1. a \in Seq(T) /\ b \in Seq(T) /\ c \in Seq(T) /\ d \in Seq(T)
      BY <1>3, <1>5, <1>6
    <2> DEFINE name == HookSecret(s, p)
               left == <<"hook">> \o a
               right == <<"hook">> \o c
    <2>2. name = left \o b /\ name = right \o d
      BY DEF HookSecret, SecretName
    <2>3. tail(s, p) = a \o b /\ tail(t, q) = c \o d
      OBVIOUS
    <2> DEFINE one == tail(s, p)
               two == tail(t, q)
    <2>4. one = a \o b /\ two = c \o d
      BY <2>3
    <2> HIDE DEF a, b, c, d, T, name, one, two
    <2>5. left = <<"hook">> \o a /\ right = <<"hook">> \o c
      OBVIOUS
    <2> HIDE DEF left, right
    <2>6. /\ one \in Seq(T) /\ Len(one) \in Nat /\ Len(name) = Len(one) + 1
          /\ \A i \in 1..Len(one) : one[i] = name[i + 1]
      <3>1. a \in Seq(T) /\ b \in Seq(T) /\ one = a \o b /\ name = left \o b
            /\ left = <<"hook">> \o a
        BY <2>1, <2>2, <2>4, <2>5
      <3> QED BY <3>1, RestOf
    <2>7. /\ two \in Seq(T) /\ Len(two) \in Nat /\ Len(name) = Len(two) + 1
          /\ \A i \in 1..Len(two) : two[i] = name[i + 1]
      <3>1. c \in Seq(T) /\ d \in Seq(T) /\ two = c \o d /\ name = right \o d
            /\ right = <<"hook">> \o c
        BY <2>1, <2>2, <2>4, <2>5
      <3> QED BY <3>1, RestOf
    <2>8. Len(one) = Len(two)
      BY <2>6, <2>7
    <2>9. one = two
      BY <2>6, <2>7, <2>8, SeqEqual
    <2> QED BY <2>9 DEF one, two
  <1> HIDE DEF T
  <1>8. CASE s = None /\ t = None
    <2>1. FilePart(p) = FilePart(q)
      BY <1>3, <1>7, <1>8
    <2> QED BY <1>1, <1>8, <2>1, FilePartUnique
  <1>9. ASSUME NEW u \in Seq(Written), NEW a \in Seq(Written), NEW b \in Seq(Written)
        PROVE  u # (a \o <<Dot>>) \o b
    <2>1. Len(a) + 1 \in 1..Len((a \o <<Dot>>) \o b) /\ ((a \o <<Dot>>) \o b)[Len(a) + 1] = Dot
      OBVIOUS
    <2>2. \A i \in 1..Len(u) : u[i] \in Written
      OBVIOUS
    <2>3. Dot \notin Written
      BY NamesAssumption DEF Written, Dot, Mark
    <2> QED BY <2>1, <2>2, <2>3
  <1>10. CASE s = None /\ t # None
    <2>1. FilePart(p) = (FilePart(t) \o <<Dot>>) \o FilePart(q)
      BY <1>3, <1>7, <1>10
    <2> QED BY <1>3, <1>4, <1>9, <1>10, <2>1
  <1>11. CASE s # None /\ t = None
    <2>1. FilePart(q) = (FilePart(s) \o <<Dot>>) \o FilePart(p)
      BY <1>3, <1>7, <1>11
    <2> QED BY <1>3, <1>4, <1>9, <1>11, <2>1
  <1>12. CASE s # None /\ t # None
    <2>1. (FilePart(s) \o <<Dot>>) \o FilePart(p) = (FilePart(t) \o <<Dot>>) \o FilePart(q)
      BY <1>7, <1>12
    <2>2. FilePart(s) = FilePart(t) /\ FilePart(p) = FilePart(q)
      BY <1>3, <1>4, <1>12, <2>1, DotSplits
    <2> QED BY <1>1, <1>2, <1>12, <2>2, FilePartUnique
  <1> QED BY <1>8, <1>10, <1>11, <1>12

\* Where the first period of a key is.
LEMMA FirstPeriod ==
    ASSUME NEW key, Len(key) \in Nat,
           NEW at, at = SelectInSeq(key, LAMBDA c : c = Period)
    PROVE  /\ at \in 0..Len(key)
           /\ at = 0 => \A i \in 1..Len(key) : key[i] # Period
           /\ at # 0 => key[at] = Period /\ \A i \in 1..Len(key) : key[i] = Period => at <= i
  <1> DEFINE I == {i \in 1..Len(key) : key[i] = Period}
  <1>1. at = IF I # {} THEN Min(I) ELSE 0
    BY DEF SelectInSeq
  <1>2. PICK n \in Nat : n = Len(key)
    OBVIOUS
  <1>3. CASE I = {}
    <2>1. at = 0
      BY <1>1, <1>3
    <2>2. \A i \in 1..n : key[i] # Period
      BY <1>3, <1>2
    <2> QED BY <1>2, <2>1, <2>2
  <1>4. CASE I # {}
    <2>1. \E least \in I : \A i \in I : least <= i
      <3>1. I \subseteq Nat
        OBVIOUS
      <3> HIDE DEF I
      <3> QED BY <1>4, <3>1, Least
    <2>2. at = CHOOSE least \in I : \A i \in I : least <= i
      BY <1>1, <1>4 DEF Min
    <2> DEFINE first == CHOOSE least \in I : \A i \in I : least <= i
    <2>3. first \in I /\ \A i \in I : first <= i
      <3> HIDE DEF I
      <3> QED BY <2>1
    <2> HIDE DEF first
    <2>4. at = first
      BY <2>2 DEF first
    <2>5. at \in 1..n /\ key[at] = Period /\ \A i \in 1..n : key[i] = Period => at <= i
      BY <1>2, <2>3, <2>4
    <2>6. at \in 0..n /\ at # 0
      BY <1>2, <2>5
    <2>7. key[at] = Period /\ \A i \in 1..n : key[i] = Period => at <= i
      BY <2>5
    <2> QED BY <1>2, <2>6, <2>7
  <1> QED BY <1>3, <1>4

\* A key that names a set is split where its month was joined to its prefix, so both of a
\* namespace's files bear its own part.
LEMMA SeenParts ==
    ASSUME NEW prefix \in Seq(Character), prefix # << >>, NEW month,
           SeenFile(SetKey(prefix, month)) # None
    PROVE  /\ SeenFile(SetKey(prefix, month)).part = FilePart(prefix)
           /\ SeenFile(ListKey(prefix)).part = FilePart(prefix)
  <1> DEFINE key == SetKey(prefix, month)
             at == SelectInSeq(key, LAMBDA c : c = Period)
             rest == SubSeq(key, at + 1, Len(key))
             own == IF at > 0 THEN SubSeq(key, 1, at - 1) ELSE key
  <1>1. PICK n \in Nat : n = Len(prefix) /\ n > 0
    OBVIOUS
  <1>2. /\ Len(key) = n + 2 /\ key[n + 1] = Period
        /\ \A i \in 1..n : key[i] = prefix[i]
    BY <1>1 DEF SetKey
  <1>3. /\ ~(own = << >> \/ (at > 0 /\ rest \notin {<<m>> : m \in Month}))
        /\ SeenFile(key) =
               [folder |-> "seen", part |-> FilePart(own),
                kind |-> IF at > 0 THEN key[at + 1] ELSE "periods"]
    BY DEF SeenFile
  <1> HIDE DEF key, at
  <1>4. /\ at \in 0..(n + 2)
        /\ at = 0 => \A i \in 1..(n + 2) : key[i] # Period
        /\ at # 0 => key[at] = Period /\ \A i \in 1..(n + 2) : key[i] = Period => at <= i
    <2>1. Len(key) \in Nat
      BY <1>2
    <2>2. /\ at \in 0..Len(key)
          /\ at = 0 => \A i \in 1..Len(key) : key[i] # Period
          /\ at # 0 => /\ key[at] = Period
                        /\ \A i \in 1..Len(key) : key[i] = Period => at <= i
      BY <2>1, FirstPeriod DEF at
    <2> QED BY <1>2, <2>2
  <1>5. at \in 1..(n + 1)
    BY <1>1, <1>2, <1>4
  <1>6. Len(rest) = n + 2 - at
    BY <1>1, <1>2, <1>5
  <1>7. at = n + 1
    <2>1. PICK m \in Month : rest = <<m>>
      <3>1. at > 0
        BY <1>5
      <3> HIDE DEF rest
      <3> QED BY <1>3, <3>1
    <2> HIDE DEF rest
    <2>2. Len(rest) = 1
      BY <2>1
    <2>3. n + 2 - at = 1
      BY <1>6, <2>2
    <2>4. at \in Nat /\ n \in Nat
      BY <1>1, <1>5
    <2> QED BY <2>3, <2>4
  <1>8. own = prefix
    <2>1. own = SubSeq(key, 1, n)
      BY <1>1, <1>7
    <2>2. SubSeq(key, 1, n) = [i \in 1..n |-> prefix[i]]
      BY <1>1, <1>2
    <2>3. [i \in 1..n |-> prefix[i]] = prefix
      BY <1>1
    <2> QED BY <2>1, <2>2, <2>3
  <1> HIDE DEF own, rest
  <1>9. SeenFile(key).part = FilePart(prefix)
    BY <1>3, <1>8
  <1>10. \A i \in 1..n : prefix[i] # Period
    BY <1>1, <1>2, <1>4, <1>7
  <1> DEFINE in == SelectInSeq(prefix, LAMBDA c : c = Period)
  <1>11. in = 0
    <2>1. /\ in \in 0..Len(prefix)
          /\ in # 0 => prefix[in] = Period
      <3>1. Len(prefix) \in Nat
        BY <1>1
      <3> QED BY <3>1, FirstPeriod
    <2> HIDE DEF in
    <2> QED BY <1>1, <1>10, <2>1
  <1>12. SeenFile(prefix) = [folder |-> "seen", part |-> FilePart(prefix), kind |-> "periods"]
    BY <1>11 DEF SeenFile
  <1> QED BY <1>9, <1>12 DEF key, ListKey

-----------------------------------------------------------------------------
(* Sites and their scopes. *)

\* What a running server knows of its sites.
LEMMA Sites ==
    ASSUME IInv, server # None
    PROVE  /\ server.tenanted \in BOOLEAN
           /\ ~server.tenanted => Site = {None}
           /\ server.tenanted => Site \subseteq HostName
           /\ SitesApart
  <1>1. PICK command \in Commands :
            TenantDirs(command) # None /\ server = Configured(command)
    BY DEF IInv, ServerOK
  <1>2. /\ server.tenanted = (command.tenants # << >>)
        /\ Site = DOMAIN server.dirs
    BY <1>1 DEF Configured, Site
  <1>3. CASE command.tenants = << >>
    <2>1. server.dirs = [t \in {None} |-> Real[Root]]
      BY <1>1, <1>3 DEF Configured
    <2> QED BY <1>2, <1>3, <2>1 DEF SitesApart
  <1>4. CASE command.tenants # << >>
    <2> DEFINE dir(i) == Append(Real[Root], command.tenants[i].name)
               named == DOMAIN command.tenants
    <2>1. server.dirs = TenantDirs(command)
      BY <1>1, <1>4 DEF Configured
    <2>2. /\ \A i \in named : IsNormal(command.tenants[i]) /\ dir(i) \in DOMAIN Real
          /\ \A i, j \in named : i # j => ~Nested(Real[dir(i)], Real[dir(j)])
          /\ server.dirs = [host \in {command.tenants[i].name : i \in named} |->
                               Real[Append(Real[Root], host)]]
      BY <1>1, <2>1 DEF TenantDirs
    <2>3. \A i \in named : command.tenants[i].name \in HostName
      BY <2>2, HostAssumption DEF IsNormal, NormalizeHost
    <2>4. Site = {command.tenants[i].name : i \in named}
      BY <1>2, <2>2
    <2>5. SitesApart
      <3> SUFFICES ASSUME NEW tenant \in Site, NEW other \in Site, tenant # other
                   PROVE  ~Nested(server.dirs[tenant], server.dirs[other])
        BY DEF SitesApart
      <3>1. PICK i \in named : tenant = command.tenants[i].name
        BY <2>4
      <3>2. PICK j \in named : other = command.tenants[j].name
        BY <2>4
      <3>3. server.dirs[tenant] = Real[dir(i)] /\ server.dirs[other] = Real[dir(j)]
        BY <2>2, <3>1, <3>2
      <3> QED BY <2>2, <3>1, <3>2, <3>3
    <2> QED BY <1>2, <1>4, <2>3, <2>4, <2>5
  <1> QED BY <1>3, <1>4

LEMMA HostTenantTyped ==
    ASSUME NEW r
    PROVE  HostTenant(r) \in Tenants
  BY DEF HostTenant, RequestHost, NormalizeHost, Tenants

\* The one scope of a tenant among a capability's is that of the tenant it was minted for.
LEMMA OneTenant ==
    ASSUME NEW tenant \in HostName, NEW prefix
    PROVE  /\ TenantOf(Reading(tenant)) = tenant
           /\ TenantOf(RefreshCapability(tenant, prefix)) = tenant
           /\ CAP_REFRESH \notin Reading(tenant)
  <1>1. tenant # None
    BY NamesAssumption
  <1>2. \A host : TenantScope(host) \in Reading(tenant) <=> host = tenant
    BY <1>1 DEF Reading, TenantScope
  <1>3. \A host : TenantScope(host) \in RefreshCapability(tenant, prefix) <=> host = tenant
    <2> SUFFICES ASSUME NEW host
                 PROVE  TenantScope(host) \in RefreshCapability(tenant, prefix) <=> host = tenant
      OBVIOUS
    <2>1. /\ TenantScope(host) # CAP_REFRESH
          /\ TenantScope(host) # <<"secret", TokenSecret(tenant, prefix)>>
          /\ TenantScope(host) # <<"write", Append(server.dirs[tenant], <<"git">>)>>
      BY DEF TenantScope, CAP_REFRESH
    <2>2. \A forge : TenantScope(host) # NetScope(forge)
      BY DEF TenantScope, NetScope
    <2> HIDE DEF TenantScope
    <2> QED BY <1>2, <2>1, <2>2 DEF RefreshCapability
  <1>4. TenantOf(Reading(tenant)) = tenant
    BY <1>2 DEF TenantOf
  <1>5. TenantOf(RefreshCapability(tenant, prefix)) = tenant
    BY <1>3 DEF TenantOf
  <1>6. CAP_REFRESH \notin Reading(tenant)
    BY DEF Reading, CAP_REFRESH, TenantScope
  <1> QED BY <1>4, <1>5, <1>6

LEMMA ReadingRefreshesNothing ==
    ASSUME NEW tenant
    PROVE  CAP_REFRESH \notin Reading(tenant)
  BY DEF Reading, CAP_REFRESH, TenantScope

\* With tenants, the directory a minted request reads is that of the host it names.
LEMMA JailSound ==
    ASSUME IInv, server # None, server.tenanted, NEW q, ScopesSound(q), Jail(q.scopes) # None
    PROVE  /\ HostTenant(q.carried) \in Site
           /\ Jail(q.scopes) = server.dirs[HostTenant(q.carried)]
  <1> DEFINE tenant == HostTenant(q.carried)
  <1>1. Site \subseteq HostName /\ Site = DOMAIN server.dirs
    BY Sites DEF Site
  <1>2. Jail(q.scopes) = server.dirs[TenantOf(q.scopes)] /\ TenantOf(q.scopes) \in Site
    BY <1>1 DEF Jail
  <1>3. CASE q.scopes = {}
    <2>1. TenantOf({}) = None
      BY DEF TenantOf
    <2> QED BY <1>1, <1>2, <1>3, <2>1, NamesAssumption
  <1>4. CASE tenant \in Site /\ q.scopes = Reading(tenant)
    BY <1>1, <1>2, <1>4, OneTenant
  <1>5. CASE tenant \in Site /\ q.scopes = RefreshCapability(tenant, q.carried.path.prefix)
    BY <1>1, <1>2, <1>5, OneTenant
  <1> QED BY <1>3, <1>4, <1>5 DEF ScopesSound

\* A push that verifies was signed with the key of its own namespace.
LEMMA VerifiedHolds ==
    ASSUME IInv, NEW r \in Requests, Verified(r)
    PROVE  HoldsKeyOf(r)
  <1> DEFINE pusher == <<HostTenant(r), r.path.prefix>>
             name == HookSecret(HostTenant(r), r.path.prefix)
  <1>1. name \in DOMAIN secrets /\ secrets[name].key = r.signed
    BY DEF Verified
  <1>2. pusher \in Tenants \X Prefix
    BY HostTenantTyped, HostAssumption DEF Verified, IsHook
  <1>3. PICK w \in DOMAIN FirstKey :
           name = HookSecret(w[1], w[2]) /\ secrets[name] = Held(secrets[name].key, w)
    BY <1>1 DEF IInv, SecretsOK
  <1>4. w \in Tenants \X Prefix
    BY HostAssumption DEF Tenants
  <1>5. w = pusher
    BY <1>2, <1>3, <1>4, SecretsAreApart DEF SecretsApart
  <1>6. secrets[name] = Held(r.signed, pusher)
    BY <1>1, <1>3, <1>5
  <1> QED BY <1>1, <1>6 DEF HoldsKeyOf

-----------------------------------------------------------------------------
(* Each action keeps the invariant. *)

\* One request moves and nothing else that the invariant speaks of.
LEMMA RequestMoves ==
    ASSUME IInv, UNCHANGED <<server, secrets>>, NEW c \in Client, NEW q,
           RequestSound(q), request' = [request EXCEPT ![c] = q]
    PROVE  IInv'
  <1>1. ServerOK' /\ SecretsOK'
    BY DEF IInv, ServerOK, SecretsOK
  <1>2. \A d \in Client : RequestSound(request'[d])
    BY DEF IInv, RequestsOK
  <1>3. request' = [d \in Client |-> request'[d]]
    BY DEF IInv, RequestsOK
  <1>4. RequestsOK'
    <2> SUFFICES ASSUME NEW d \in Client PROVE RequestSound(request[d])'
      BY <1>3 DEF RequestsOK
    <2>1. RequestSound(request'[d])
      BY <1>2
    <2>2. CASE request'[d] = IdleRequest
      BY <2>2 DEF RequestSound
    <2>3. CASE OnItsWay(request'[d]) /\ server # None /\ request'[d].carried \in Requests
      BY <2>3 DEF RequestSound, OnItsWay
    <2>4. CASE Minted(request'[d]) /\ server # None /\ request'[d].carried \in Requests
      <3>1. ScopesSound(request[d])'
        BY <2>4 DEF Minted, ScopesSound, Site, Reading, RefreshCapability, HostTenant
      <3> QED BY <2>4, <3>1 DEF RequestSound, Minted
    <2>5. CASE Answered(request'[d]) /\ server # None /\ request'[d].carried \in Requests
      <3>1. DirSound(request[d])'
        BY <2>5 DEF Answered, DirSound, Site, HostTenant
      <3> QED BY <2>5, <3>1 DEF RequestSound, Answered
    <2> QED BY <2>1, <2>2, <2>3, <2>4, <2>5 DEF RequestSound
  <1> QED BY <1>1, <1>4 DEF IInv

\* No request moves.
LEMMA RequestsStay ==
    ASSUME IInv, UNCHANGED <<server, request>>, SecretsOK'
    PROVE  IInv'
  <1>1. ServerOK'
    BY DEF IInv, ServerOK
  <1>2. RequestsOK'
    BY DEF IInv, RequestsOK, RequestSound, OnItsWay, Minted, Answered, ScopesSound, DirSound,
       Site, Reading, RefreshCapability, HostTenant
  <1> QED BY <1>1, <1>2 DEF IInv

LEMMA AnswerMoves ==
    ASSUME IInv, UNCHANGED <<server, secrets>>, NEW c \in Client, NEW status, NEW dir,
           NEW refreshed, server # None, request[c].carried \in Requests,
           Answer(c, status, dir, refreshed),
           (server.tenanted /\ dir # None) =>
               /\ HostTenant(request[c].carried) \in Site
               /\ dir = server.dirs[HostTenant(request[c].carried)],
           refreshed => request[c].verified
    PROVE  IInv'
  <1> DEFINE q == [pc |-> "answered", carried |-> request[c].carried,
                   verified |-> request[c].verified, status |-> status,
                   dir |-> dir, refreshed |-> refreshed]
  <1>1. RequestSound(q)
    BY DEF RequestSound, Answered, DirSound
  <1>2. request' = [request EXCEPT ![c] = q]
    BY DEF Answer
  <1> HIDE DEF q
  <1> QED BY <1>1, <1>2, RequestMoves

LEMMA InitSound ==
    ASSUME Init
    PROVE  IInv
  <1>1. ServerOK
    BY DEF Init, ServerOK
  <1>2. SecretsOK
    <2>1. secrets = FirstSecrets
      BY DEF Init
    <2>2. DOMAIN FirstSecrets = {HookSecret(w[1], w[2]) : w \in DOMAIN FirstKey}
      BY DEF FirstSecrets
    <2>3. ASSUME NEW n \in DOMAIN FirstSecrets
          PROVE  \E w \in DOMAIN FirstKey :
                    n = HookSecret(w[1], w[2]) /\ FirstSecrets[n] = Held(FirstSecrets[n].key, w)
      <3> DEFINE pusher == CHOOSE w \in DOMAIN FirstKey : HookSecret(w[1], w[2]) = n
      <3>1. pusher \in DOMAIN FirstKey /\ HookSecret(pusher[1], pusher[2]) = n
        BY <2>2
      <3>2. FirstSecrets[n] = Held(FirstKey[pusher], pusher)
        BY <2>2 DEF FirstSecrets
      <3>3. Held(FirstKey[pusher], pusher).key = FirstKey[pusher]
        BY DEF Held
      <3> HIDE DEF pusher
      <3> QED BY <3>1, <3>2, <3>3
    <2>4. FirstSecrets = [n \in DOMAIN FirstSecrets |-> FirstSecrets[n]]
      BY DEF FirstSecrets
    <2> QED BY <2>1, <2>2, <2>3, <2>4 DEF SecretsOK
  <1>3. RequestsOK
    BY DEF Init, RequestsOK, RequestSound
  <1> QED BY <1>1, <1>2, <1>3 DEF IInv

LEMMA StartStep ==
    ASSUME IInv, NEW command \in Commands, Start(command)
    PROVE  IInv'
  <1>1. ServerOK'
    BY DEF Start, ServerOK
  <1>2. SecretsOK'
    BY DEF Start, IInv, SecretsOK
  <1>3. \A c \in Client : request[c] = IdleRequest
    BY DEF Start, IInv, RequestsOK, RequestSound
  <1>4. RequestsOK'
    BY <1>3 DEF Start, IInv, RequestsOK, RequestSound
  <1> QED BY <1>1, <1>2, <1>4 DEF IInv

LEMMA StopStep ==
    ASSUME IInv, Stop
    PROVE  IInv'
  BY DEF Stop, IInv, ServerOK, SecretsOK, RequestsOK, RequestSound

LEMMA StoreKeyStep ==
    ASSUME IInv, NEW pusher \in DOMAIN FirstKey, NEW key \in Key, StoreKey(pusher, key)
    PROVE  IInv'
  <1> DEFINE name == HookSecret(pusher[1], pusher[2])
  <1>1. /\ secrets' = [secrets EXCEPT ![name] = Held(key, pusher)]
        /\ UNCHANGED <<server, request>>
    BY DEF StoreKey
  <1>2. name \in DOMAIN secrets
    BY DEF IInv, SecretsOK
  <1>3. Held(key, pusher).key = key
    BY DEF Held
  <1>4. ASSUME NEW n \in DOMAIN secrets
        PROVE  \E w \in DOMAIN FirstKey :
                  n = HookSecret(w[1], w[2]) /\ secrets'[n] = Held(secrets'[n].key, w)
    <2>1. CASE n = name
      BY <1>1, <1>2, <1>3, <2>1
    <2>2. CASE n # name
      BY <1>1, <2>2 DEF IInv, SecretsOK
    <2> QED BY <2>1, <2>2
  <1>5. SecretsOK'
    BY <1>1, <1>4 DEF IInv, SecretsOK
  <1> QED BY <1>1, <1>5, RequestsStay

\* A request that has come and is not answered.
LEMMA Waiting ==
    ASSUME IInv, NEW c \in Client, request[c].pc \in {"arrived", "admitted", "minted"}
    PROVE  /\ server # None /\ request[c].carried \in Requests
           /\ request[c].pc # "minted" => OnItsWay(request[c])
           /\ request[c].pc = "minted" => Minted(request[c])
  BY DEF IInv, RequestsOK, RequestSound, IdleRequest, OnItsWay, Minted, Answered

LEMMA SendStep ==
    ASSUME IInv, NEW c \in Client, NEW r \in Requests, Send(c, r)
    PROVE  IInv'
  <1> DEFINE q == [pc |-> "arrived", carried |-> r, verified |-> FALSE]
  <1>1. RequestSound(q)
    BY DEF Send, RequestSound, OnItsWay
  <1> HIDE DEF q
  <1> QED BY <1>1, RequestMoves DEF Send, q

LEMMA AdmitStep ==
    ASSUME IInv, NEW c \in Client, Admit(c)
    PROVE  IInv'
  <1>1. /\ server # None /\ request[c].carried \in Requests /\ OnItsWay(request[c])
        /\ UNCHANGED <<server, secrets>>
    BY Waiting DEF Admit
  <1>2. CASE request' = [request EXCEPT ![c].pc = "admitted"]
    <2> DEFINE q == [request[c] EXCEPT !.pc = "admitted"]
    <2>1. RequestSound(q)
      BY <1>1 DEF RequestSound, OnItsWay
    <2>2. request' = [request EXCEPT ![c] = q]
      BY <1>2
    <2> HIDE DEF q
    <2> QED BY <1>1, <2>1, <2>2, RequestMoves
  <1>3. CASE \E status : Answer(c, status, None, FALSE)
    BY <1>1, <1>3, AnswerMoves
  <1> QED BY <1>2, <1>3 DEF Admit

LEMMA MintStep ==
    ASSUME IInv, NEW c \in Client, Mint(c)
    PROVE  IInv'
  <1> DEFINE r == request[c].carried
             q == [pc |-> "minted", carried |-> r, verified |-> HoldsKeyOf(r),
                   scopes |-> RequestCapability(r)]
  <1>1. server # None /\ r \in Requests /\ UNCHANGED <<server, secrets>>
    BY Waiting DEF Mint
  <1>2. ScopesSound(q)
    BY <1>1 DEF ScopesSound, RequestCapability, Site
  <1>3. CAP_REFRESH \in RequestCapability(r) => Verified(r)
    BY ReadingRefreshesNothing DEF RequestCapability
  <1>4. CAP_REFRESH \in RequestCapability(r) => HoldsKeyOf(r)
    BY <1>1, <1>3, VerifiedHolds
  <1>5. Minted(q)
    BY <1>2, <1>4 DEF Minted
  <1>6. RequestSound(q)
    BY <1>1, <1>5 DEF RequestSound
  <1>7. request' = [request EXCEPT ![c] = q]
    BY DEF Mint
  <1> HIDE DEF q
  <1> QED BY <1>1, <1>6, <1>7, RequestMoves

\* What a minted request is answered, from nothing or from the directory it reads.
LEMMA MintedAnswers ==
    ASSUME IInv, NEW c \in Client, request[c].pc = "minted", UNCHANGED <<server, secrets>>,
           NEW status, NEW dir \in {None, Jail(request[c].scopes)}, NEW refreshed,
           refreshed => CAP_REFRESH \in request[c].scopes,
           Answer(c, status, dir, refreshed)
    PROVE  IInv'
  <1>1. server # None /\ request[c].carried \in Requests /\ Minted(request[c])
    BY Waiting
  <1>2. (server.tenanted /\ dir # None) =>
            /\ HostTenant(request[c].carried) \in Site
            /\ dir = server.dirs[HostTenant(request[c].carried)]
    BY <1>1, JailSound DEF Minted
  <1>3. refreshed => request[c].verified
    BY <1>1 DEF Minted
  <1> QED BY <1>1, <1>2, <1>3, AnswerMoves

LEMMA ServeStep ==
    ASSUME IInv, NEW c \in Client, Dismiss(c) \/ ServeDocument(c) \/ ServePush(c)
    PROVE  IInv'
  <1>1. request[c].pc = "minted" /\ UNCHANGED <<server, secrets>>
    BY DEF Dismiss, ServeDocument, ServePush
  <1>2. CASE Dismiss(c)
    <2>1. \E status : Answer(c, status, None, FALSE)
      BY <1>2 DEF Dismiss
    <2> QED BY <1>1, <2>1, MintedAnswers
  <1>3. CASE ServeDocument(c)
    <2>1. \E status : Answer(c, status, Jail(request[c].scopes), FALSE)
      BY <1>3 DEF ServeDocument, Unbound
    <2> QED BY <1>1, <2>1, MintedAnswers
  <1>4. CASE ServePush(c)
    <2>1. \/ \E status : Answer(c, status, Jail(request[c].scopes), FALSE)
          \/ CAP_REFRESH \in request[c].scopes /\ Answer(c, 200, Jail(request[c].scopes), TRUE)
      BY <1>4 DEF ServePush, Unbound
    <2> QED BY <1>1, <2>1, MintedAnswers
  <1> QED BY <1>2, <1>3, <1>4

LEMMA InvariantStep ==
    ASSUME IInv, [Next]_vars
    PROVE  IInv'
  <1>1. CASE UNCHANGED <<server, secrets, request>>
    <2>1. SecretsOK'
      BY <1>1 DEF IInv, SecretsOK
    <2> QED BY <1>1, <2>1, RequestsStay
  <1>2. ASSUME NEW dir, NEW binding, EditRegistry(dir, binding)
        PROVE  UNCHANGED <<server, secrets, request>>
    BY <1>2 DEF EditRegistry
  <1>3. CASE TimerStep
    BY <1>1, <1>3 DEF TimerStep, Tick, ReadSite, RefreshNext
  <1>4. ASSUME NEW tenant, NEW prefix, NEW month, Flush(tenant, prefix, month)
        PROVE  UNCHANGED <<server, secrets, request>>
    BY <1>4 DEF Flush
  <1>5. CASE UNCHANGED vars
    BY <1>1, <1>5 DEF vars
  <1> QED BY <1>1, <1>2, <1>3, <1>4, <1>5, StartStep, StopStep, StoreKeyStep, SendStep,
             AdmitStep, MintStep, ServeStep DEF Next

LEMMA Invariant == Spec => []IInv
  <1>1. Init => IInv
    BY InitSound
  <1>2. IInv /\ [Next]_vars => IInv'
    BY InvariantStep
  <1> QED BY <1>1, <1>2, PTL DEF Spec

-----------------------------------------------------------------------------
(* What is kept where. *)

FilesOK(held) ==
    \A f \in held :
        f.dir \in DOMAIN FirstBound /\ f.of \in Prefix /\ f.file.part = FilePart(f.of)

BoundOK == bound \in [DOMAIN FirstBound -> (SUBSET Prefix) \cup {Broken}]

TimerOK ==
    /\ timer = [sites |-> timer.sites, tenant |-> timer.tenant, todo |-> timer.todo]
    /\ timer.sites \subseteq Site /\ timer.todo \subseteq Prefix
    /\ timer.todo # {} => timer.tenant \in Site

CountsOK == edits \in 0..MaxEdits /\ stops \in 0..MaxStops

\* The registries, files, task and counts are of the kinds they should be, and each file
\* bears the name of whose it is.
Placed == BoundOK /\ FilesOK(files) /\ TimerOK /\ CountsOK

LEMMA SiteDirs ==
    ASSUME IInv, server # None, NEW tenant \in Site
    PROVE  server.dirs[tenant] \in DOMAIN FirstBound
  <1>1. PICK command \in Commands :
            TenantDirs(command) # None /\ server = Configured(command)
    BY DEF IInv, ServerOK
  <1>2. tenant \in DOMAIN server.dirs
    BY DEF Site
  <1>3. CASE command.tenants = << >>
    BY <1>1, <1>2, <1>3, DirectoriesAssumption DEF Configured
  <1>4. CASE command.tenants # << >>
    <2> DEFINE named == DOMAIN command.tenants
               dir(host) == Append(Real[Root], host)
    <2>1. server.dirs = TenantDirs(command)
      BY <1>1, <1>4 DEF Configured
    <2>2. /\ server.dirs = [host \in {command.tenants[i].name : i \in named} |-> Real[dir(host)]]
          /\ \A i \in named : dir(command.tenants[i].name) \in DOMAIN Real
      BY <1>1, <2>1 DEF TenantDirs
    <2>3. PICK i \in named : tenant = command.tenants[i].name
      BY <1>2, <2>2
    <2>4. server.dirs[tenant] = Real[dir(tenant)] /\ dir(tenant) \in DOMAIN Real
      BY <2>2, <2>3
    <2> QED BY <1>1, <2>3, <2>4, DirectoriesAssumption
  <1> QED BY <1>3, <1>4

LEMMA JailPlaced ==
    ASSUME IInv, server # None, NEW scopes, Jail(scopes) # None
    PROVE  Jail(scopes) \in DOMAIN FirstBound
  <1>1. CASE ~server.tenanted
    BY <1>1, Sites, SiteDirs DEF Jail
  <1>2. CASE server.tenanted
    <2>1. TenantOf(scopes) \in Site /\ Jail(scopes) = server.dirs[TenantOf(scopes)]
      BY <1>2 DEF Jail, Site
    <2> QED BY <2>1, SiteDirs
  <1> QED BY <1>1, <1>2

LEMMA RegistryTyped ==
    ASSUME IInv, BoundOK, server # None, NEW scopes, RegistryOf(scopes) # Broken
    PROVE  Jail(scopes) # None /\ RegistryOf(scopes) \subseteq Prefix
  <1>1. Jail(scopes) # None /\ RegistryOf(scopes) = bound[Jail(scopes)]
    BY DEF RegistryOf, MayRead
  <1>2. Jail(scopes) \in DOMAIN FirstBound
    BY <1>1, JailPlaced
  <1> QED BY <1>1, <1>2 DEF BoundOK

LEMMA WriteKeeps ==
    ASSUME IInv, server # None, FilesOK(files), NEW scopes, Jail(scopes) # None,
           NEW prefix \in Prefix, NEW written, \A file \in written : file.part = FilePart(prefix)
    PROVE  FilesOK(Write(scopes, written, prefix))
  <1> SUFFICES ASSUME NEW f \in Write(scopes, written, prefix)
               PROVE  f.dir \in DOMAIN FirstBound /\ f.of \in Prefix /\ f.file.part = FilePart(f.of)
    BY DEF FilesOK
  <1>1. f \in files \/ \E file \in written : f = [dir |-> Jail(scopes), file |-> file, of |-> prefix]
    BY DEF Write
  <1>2. Jail(scopes) \in DOMAIN FirstBound
    BY JailPlaced
  <1> QED BY <1>1, <1>2 DEF FilesOK

LEMMA RefreshKeeps ==
    ASSUME IInv, BoundOK, server # None, FilesOK(files), NEW scopes, NEW prefix \in Prefix,
           Binds(scopes, prefix), NEW held \in Refreshed(scopes, prefix)
    PROVE  FilesOK(held)
  <1>1. held = files \/ held = Write(scopes, {StoreFile("document", prefix)}, prefix)
    BY DEF Refreshed
  <1>2. Jail(scopes) # None
    BY RegistryTyped DEF Binds
  <1>3. StoreFile("document", prefix).part = FilePart(prefix)
    BY DEF StoreFile
  <1>4. FilesOK(Write(scopes, {StoreFile("document", prefix)}, prefix))
    BY <1>2, <1>3, WriteKeeps
  <1> QED BY <1>1, <1>4

LEMMA FlushKeeps ==
    ASSUME IInv, BoundOK, FilesOK(files), NEW tenant \in Site, NEW prefix \in Prefix,
           NEW month \in Month, Flush(tenant, prefix, month)
    PROVE  FilesOK(files')
  <1> DEFINE scopes == FlushCapability(tenant)
             set == SeenFile(SetKey(prefix, month))
             list == SeenFile(ListKey(prefix))
  <1>1. /\ server # None /\ Jail(scopes) # None /\ set # None
        /\ files' \in {Write(scopes, {list}, prefix), Write(scopes, {list, set}, prefix)}
    BY DEF Flush
  <1>2. prefix \in Seq(Character) /\ prefix # << >>
    BY HostAssumption
  <1>3. set.part = FilePart(prefix) /\ list.part = FilePart(prefix)
    BY <1>1, <1>2, SeenParts
  <1> HIDE DEF scopes, set, list
  <1>4. FilesOK(Write(scopes, {list}, prefix)) /\ FilesOK(Write(scopes, {list, set}, prefix))
    BY <1>1, <1>3, WriteKeeps
  <1> QED BY <1>1, <1>4

LEMMA FilesStep ==
    ASSUME IInv, Placed, [Next]_vars
    PROVE  FilesOK(files')
  <1> USE DEF Placed
  <1>1. CASE UNCHANGED files
    BY <1>1
  <1>2. ASSUME NEW c \in Client, ServePush(c) PROVE FilesOK(files')
    <2> DEFINE r == request[c].carried
               scopes == request[c].scopes
    <2>1. server # None /\ r \in Requests
      BY <1>2, Waiting DEF ServePush
    <2>2. r.path.prefix \in Prefix
      <3>1. IsHook(r)
        BY <1>2, HostAssumption DEF ServePush, Route
      <3> QED BY <2>1, <3>1, HostAssumption DEF IsHook
    <2>3. UNCHANGED files
          \/ (Binds(scopes, r.path.prefix) /\ files' \in Refreshed(scopes, r.path.prefix))
      BY <1>2 DEF ServePush
    <2> QED BY <1>1, <2>1, <2>2, <2>3, RefreshKeeps
  <1>3. ASSUME NEW prefix \in Prefix, RefreshNext(prefix) PROVE FilesOK(files')
    <2>1. server # None
      BY <1>3 DEF RefreshNext, TimerOK, Site
    <2>2. UNCHANGED files
          \/ \E scopes : Binds(scopes, prefix) /\ files' \in Refreshed(scopes, prefix)
      BY <1>3 DEF RefreshNext
    <2> QED BY <1>1, <2>1, <2>2, RefreshKeeps
  <1>4. ASSUME NEW tenant \in Site, NEW prefix \in Prefix, NEW month \in Month,
               Flush(tenant, prefix, month)
        PROVE  FilesOK(files')
    BY <1>4, FlushKeeps
  <1>5. CASE \E c \in Client :
                 \/ \E r \in Requests : Send(c, r)
                 \/ Admit(c) \/ Mint(c) \/ Dismiss(c) \/ ServeDocument(c)
    BY <1>1, <1>5 DEF Send, Admit, Mint, Dismiss, ServeDocument
  <1>6. CASE \/ \E command \in Commands : Start(command)
             \/ Stop
             \/ \E dir \in DOMAIN bound, binding \in Bindings : EditRegistry(dir, binding)
             \/ \E pusher \in DOMAIN FirstKey, key \in Key : StoreKey(pusher, key)
    BY <1>1, <1>6 DEF Start, Stop, EditRegistry, StoreKey
  <1>7. CASE Tick \/ \E tenant \in Site : ReadSite(tenant)
    BY <1>1, <1>7 DEF Tick, ReadSite
  <1>8. CASE UNCHANGED vars
    BY <1>1, <1>8 DEF vars
  <1> QED BY <1>2, <1>3, <1>4, <1>5, <1>6, <1>7, <1>8 DEF Next, TimerStep

LEMMA TimerStays ==
    ASSUME TimerOK, UNCHANGED <<server, timer>>
    PROVE  TimerOK'
  BY DEF TimerOK, Site

LEMMA TimerStepKeeps ==
    ASSUME IInv, Placed, TimerStep
    PROVE  TimerOK'
  <1> USE DEF Placed
  <1>1. UNCHANGED server
    BY DEF TimerStep, Tick, ReadSite, RefreshNext
  <1>2. CASE Tick
    BY <1>1, <1>2 DEF Tick, TimerOK, Site
  <1>3. ASSUME NEW tenant \in Site, ReadSite(tenant) PROVE TimerOK'
    <2>1. server # None
      BY DEF Site
    <2> DEFINE read == RegistryOf(Reading(tenant))
               todo == IF read = Broken THEN {} ELSE read
    <2>2. todo \subseteq Prefix
      BY <2>1, RegistryTyped
    <2>3. timer' = [timer EXCEPT !.sites = @ \ {tenant}, !.tenant = tenant, !.todo = todo]
      BY <1>3 DEF ReadSite
    <2> HIDE DEF todo
    <2>4. timer' = [sites |-> timer.sites \ {tenant}, tenant |-> tenant, todo |-> todo]
      BY <2>3 DEF TimerOK
    <2>5. timer.sites \subseteq Site /\ Site' = Site
      BY <1>1 DEF TimerOK, Site
    <2> QED BY <2>2, <2>4, <2>5 DEF TimerOK
  <1>4. ASSUME NEW prefix \in Prefix, RefreshNext(prefix) PROVE TimerOK'
    <2>1. timer' = [sites |-> timer.sites, tenant |-> timer.tenant, todo |-> timer.todo \ {prefix}]
      BY <1>4 DEF RefreshNext, TimerOK
    <2>2. prefix \in timer.todo
      BY <1>4 DEF RefreshNext
    <2> QED BY <1>1, <2>1, <2>2 DEF TimerOK, Site
  <1> QED BY <1>2, <1>3, <1>4 DEF TimerStep

LEMMA InitPlaced ==
    ASSUME Init
    PROVE  Placed
  BY HostAssumption DEF Init, Placed, BoundOK, FilesOK, TimerOK, IdleTimer, Site, CountsOK

LEMMA PlacedStep ==
    ASSUME IInv, Placed, [Next]_vars
    PROVE  Placed'
  <1> USE DEF Placed
  <1>1. FilesOK(files)'
    <2>1. FilesOK(files')
      BY FilesStep
    <2> QED BY <2>1 DEF FilesOK
  <1>2. ASSUME NEW command \in Commands, Start(command) PROVE Placed'
    <2>1. timer.sites = {} /\ timer.todo = {}
      BY <1>2 DEF Start, TimerOK, Site
    <2>2. TimerOK'
      BY <1>2, <2>1 DEF Start, TimerOK
    <2> QED BY <1>1, <1>2, <2>2 DEF Start, BoundOK, CountsOK
  <1>3. CASE Stop
    <2>1. TimerOK'
      BY <1>3 DEF Stop, TimerOK, IdleTimer, Site
    <2>2. CountsOK'
      BY <1>3, HostAssumption DEF Stop, CountsOK
    <2> QED BY <1>1, <1>3, <2>1, <2>2 DEF Stop, BoundOK
  <1>4. ASSUME NEW dir \in DOMAIN bound, NEW binding \in Bindings, EditRegistry(dir, binding)
        PROVE  Placed'
    <2>1. BoundOK'
      BY <1>4, HostAssumption DEF EditRegistry, BoundOK
    <2>2. CountsOK'
      BY <1>4, HostAssumption DEF EditRegistry, Edits, CountsOK
    <2> QED BY <1>1, <1>4, <2>1, <2>2, TimerStays DEF EditRegistry
  <1>5. ASSUME NEW pusher, NEW key, StoreKey(pusher, key) PROVE Placed'
    <2>1. CountsOK'
      BY <1>5, HostAssumption DEF StoreKey, Edits, CountsOK
    <2> QED BY <1>1, <1>5, <2>1, TimerStays DEF StoreKey, BoundOK
  <1>6. CASE UNCHANGED <<server, bound, timer, edits, stops>>
    BY <1>1, <1>6, TimerStays DEF BoundOK, CountsOK
  <1>7. ASSUME NEW c \in Client,
               \/ \E r \in Requests : Send(c, r)
               \/ Admit(c) \/ Mint(c) \/ Dismiss(c) \/ ServeDocument(c) \/ ServePush(c)
        PROVE  UNCHANGED <<server, bound, timer, edits, stops>>
    BY <1>7 DEF Send, Admit, Mint, Dismiss, ServeDocument, ServePush
  <1>8. CASE TimerStep
    <2>1. UNCHANGED <<bound, edits, stops>>
      BY <1>8 DEF TimerStep, Tick, ReadSite, RefreshNext
    <2> QED BY <1>1, <1>8, <2>1, TimerStepKeeps DEF BoundOK, CountsOK
  <1>9. ASSUME NEW tenant, NEW prefix, NEW month, Flush(tenant, prefix, month)
        PROVE  UNCHANGED <<server, bound, timer, edits, stops>>
    BY <1>9 DEF Flush
  <1>10. CASE UNCHANGED vars
    BY <1>6, <1>10 DEF vars
  <1> QED BY <1>2, <1>3, <1>4, <1>5, <1>6, <1>7, <1>8, <1>9, <1>10 DEF Next

LEMMA PlacedInvariant == Spec => [](IInv /\ Placed)
  <1>1. Init => IInv /\ Placed
    BY InitSound, InitPlaced
  <1>2. IInv /\ Placed /\ [Next]_vars => (IInv /\ Placed)'
    BY InvariantStep, PlacedStep
  <1> QED BY <1>1, <1>2, PTL DEF Spec

-----------------------------------------------------------------------------
(* The properties. *)

\* No two tenants of a running server have one directory or one inside the other's: they
\* are compared by their canonical paths, whatever the names, links and order given.
THEOREM TenantsApart == Spec => []SitesApart
  <1>1. IInv => SitesApart
    <2>1. CASE server = None
      BY <2>1 DEF SitesApart, Site
    <2>2. CASE server # None
      BY <2>2, Sites
    <2> QED BY <2>1, <2>2
  <1> QED BY <1>1, Invariant, PTL

\* A request is read the directory of the one host all its Host headers name: its
\* capability carries that tenant's scope and no other, and urn:file: reads by it.
THEOREM OwnFiles == Spec => []OwnFilesOnly
  <1>1. IInv => OwnFilesOnly
    <2> SUFFICES ASSUME IInv, NEW c \in Client, server # None, server.tenanted,
                        request[c].pc = "answered", request[c].dir # None
                 PROVE  LET hosts == request[c].carried.hosts
                        IN /\ hosts # << >>
                           /\ \A i \in DOMAIN hosts :
                                  request[c].dir = server.dirs[NormalizeHost(hosts[i])]
      BY DEF OwnFilesOnly
    <2> DEFINE r == request[c].carried
    <2>1. Answered(request[c]) /\ r \in Requests
      BY DEF IInv, RequestsOK, RequestSound, IdleRequest, OnItsWay, Minted
    <2>2. RequestHost(r) \in Site /\ request[c].dir = server.dirs[RequestHost(r)]
      BY <2>1 DEF Answered, DirSound, HostTenant
    <2>3. RequestHost(r) # None
      BY <2>2, Sites, NamesAssumption
    <2>4. Len(r.hosts) = 1 /\ RequestHost(r) = NormalizeHost(r.hosts[1])
      BY <2>3 DEF RequestHost
    <2>5. DOMAIN r.hosts = {1}
      BY <2>1, <2>4, HostAssumption
    <2> QED BY <2>2, <2>4, <2>5
  <1> QED BY <1>1, Invariant, PTL

\* A push refreshes a namespace only when its signature verified, as its capability was
\* minted, with the key stored for that tenant and namespace: admission and minting each ask
\* the secrets for it, and no other namespace's key has its name.
THEOREM PushedByHolder == Spec => []PushedByKeyHolder
  <1>1. IInv => PushedByKeyHolder
    <2> SUFFICES ASSUME IInv, NEW c \in Client,
                        request[c].pc = "answered", request[c].refreshed
                 PROVE  request[c].verified
      BY DEF PushedByKeyHolder
    <2>1. Answered(request[c])
      BY DEF IInv, RequestsOK, RequestSound, IdleRequest, OnItsWay, Minted
    <2> QED BY <2>1 DEF Answered
  <1> QED BY <1>1, Invariant, PTL

\* A running server has a directory of the disk for each of its sites, and what its task,
\* its requests and its files carry names sites and namespaces: no stop, edit or broken
\* registry leaves a site of the last server in the timer's hands.
THEOREM TypesHold == Spec => []TypeOK
  <1>1. IInv /\ Placed => TypeOK
    <2> SUFFICES ASSUME IInv, Placed PROVE TypeOK
      OBVIOUS
    <2>1. ASSUME NEW c \in Client, request[c].pc # "idle" PROVE request[c].carried \in Requests
      BY <2>1 DEF IInv, RequestsOK, RequestSound, IdleRequest
    <2>2. server # None => \A tenant \in Site : server.dirs[tenant] \in DOMAIN FirstBound
      BY SiteDirs
    <2> QED BY <2>1, <2>2 DEF TypeOK, Placed, BoundOK, FilesOK, TimerOK, CountsOK
  <1> QED BY <1>1, PlacedInvariant, PTL

\* No namespace's file is ever written over by another's, in any directory a server serves:
\* a file bears the part of its owner, no two prefixes have one part, and a key of the seen
\* sets that would be split inside its prefix names no file.
THEOREM FilesKept == Spec => FilesKeepTheirOwner
  <1>1. IInv /\ Placed /\ (IInv /\ Placed)' /\ [Next]_vars =>
            [\A f \in files, g \in files' :
                (f.dir = g.dir /\ f.file = g.file) => f.of = g.of]_files
    <2> SUFFICES ASSUME Placed, Placed', NEW f \in files, NEW g \in files', f.file = g.file
                 PROVE  f.of = g.of
      OBVIOUS
    <2>1. f.of \in Prefix /\ f.file.part = FilePart(f.of)
      BY DEF Placed, FilesOK
    <2>2. g.of \in Prefix /\ g.file.part = FilePart(g.of)
      BY DEF Placed, FilesOK
    <2>3. FilePart(f.of) = FilePart(g.of)
      BY <2>1, <2>2
    <2>4. f.of \in Seq(Character) /\ g.of \in Seq(Character)
      BY <2>1, <2>2, HostAssumption
    <2> QED BY <2>3, <2>4, FilePartUnique
  <1> QED BY <1>1, PlacedInvariant, PTL DEF Spec, FilesKeepTheirOwner

=============================================================================
