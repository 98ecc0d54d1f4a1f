--------------------------- MODULE GeneratorProofs ---------------------------
(***************************************************************************)
(* Proofs about the secret classifier, for every message, and about the    *)
(* dataset that the generator makes: the types of what it holds; and that  *)
(* the drain finds every attack that a rule is about.  The latter follows  *)
(* an attack through the stages.  The action that makes it leaves rows in  *)
(* which its rule finds it, at some window that is not yet swept; no later *)
(* action takes them away; the drain passes no such window without raising *)
(* the finding; and an alert once stored stays, and is counted as a hit.   *)
(***************************************************************************)
EXTENDS Generator, ScoringProofs, SequenceTheorems

-----------------------------------------------------------------------------
(* The secret classifier *)

\* What is not shown is classified by its form alone, and only as a private key.
LEMMA HiddenForm ==
  ASSUME NEW k, ~k.shown
  PROVE  ByForm(k) \subseteq {"private_key"}
  BY DEF ByForm, LooksLive

\* A token that RedactMessage leaves alone is of none of the kinds it hides.
LEMMA UnmaskedForm ==
  ASSUME NEW k \in Token, ~Masked(k)
  PROVE  ByForm(k) \subseteq {"private_key", "ssn", "card"}
  <1>1. k.form \in Forms
    BY DEF Token
  <1>2. k.form # "aws" \/ k.mark = "EXAMPLE"
    BY DEF Masked
  <1>3. k.form # "stripe_live" \/ k.mark = "EXAMPLE"
    BY DEF Masked
  <1>4. k.form # "uri"
    BY DEF Masked
  <1>5. k.mark = "EXAMPLE" => Placeholder(k)
    BY DEF Placeholder
  <1>6. QED
    BY <1>1, <1>2, <1>3, <1>4, <1>5 DEF ByForm, Forms

\* A key gives away no token that is masked or that is left alone.
LEMMA NothingByKey ==
  ASSUME NEW k, ~k.shown \/ ~Masked(k)
  PROVE  ByKey(k) = {}
  BY DEF ByKey, Masked, LooksLive

LEMMA OneToken ==
  ASSUME NEW k
  PROVE  /\ ClassifyMessage({k}) = ByForm(k) \cup ByKey(k)
         /\ RedactMessage({k}) = {IF Masked(k) THEN [k EXCEPT !.shown = FALSE] ELSE k}
  BY DEF ClassifyMessage, RedactMessage

LEMMA RedactedToken ==
  ASSUME NEW k \in Token
  PROVE  /\ ClassifyMessage(RedactMessage({k})) \cap {"aws_key", "api_secret", "db_password"} = {}
         /\ k.mark = "EXAMPLE" /\ k.form # "uri" => RedactMessage({k}) = {k}
  <1>1. CASE Masked(k)
    <2> DEFINE h == [k EXCEPT !.shown = FALSE]
    <2>1. RedactMessage({k}) = {h}
      BY <1>1, OneToken
    <2>2. ~h.shown
      BY DEF Token
    <2> HIDE DEF h
    <2>3. ByForm(h) \subseteq {"private_key"} /\ ByKey(h) = {}
      BY <2>2, HiddenForm, NothingByKey
    <2>4. ClassifyMessage({h}) \subseteq {"private_key"}
      BY <2>3, OneToken
    <2>5. ~(k.mark = "EXAMPLE" /\ k.form # "uri")
      BY <1>1 DEF Masked, LooksLive, Placeholder
    <2>6. QED
      BY <2>1, <2>4, <2>5
  <1>2. CASE ~Masked(k)
    <2>1. RedactMessage({k}) = {k}
      BY <1>2, OneToken
    <2>2. ByForm(k) \subseteq {"private_key", "ssn", "card"} /\ ByKey(k) = {}
      BY <1>2, UnmaskedForm, NothingByKey
    <2>3. ClassifyMessage({k}) \subseteq {"private_key", "ssn", "card"}
      <3>1. ClassifyMessage({k}) = ByForm(k) \cup ByKey(k)
        BY OneToken
      <3>2. QED
        BY <2>2, <3>1
    <2>4. ClassifyMessage(RedactMessage({k})) \subseteq {"private_key", "ssn", "card"}
      BY <2>1, <2>3
    <2>5. QED
      BY <2>1, <2>4
  <1>3. QED
    BY <1>1, <1>2

\* The same of a message of any number of words: each is hidden on its own.
LEMMA RedactedMessage ==
  ASSUME NEW m \in SUBSET Token
  PROVE  ClassifyMessage(RedactMessage(m)) \cap {"aws_key", "api_secret", "db_password"} = {}
  <1>1. RedactMessage(m) = UNION {RedactMessage({k}) : k \in m}
    BY OneToken DEF RedactMessage
  <1>2. \A S : ClassifyMessage(S) = UNION {ClassifyMessage({j}) : j \in S}
    BY OneToken DEF ClassifyMessage
  <1>3. ASSUME NEW j \in RedactMessage(m)
        PROVE  ClassifyMessage({j}) \cap {"aws_key", "api_secret", "db_password"} = {}
    <2>1. PICK k \in m : j \in RedactMessage({k})
      BY <1>1, <1>3
    <2>2. RedactMessage({k}) = {j}
      <3>1. \E h : RedactMessage({k}) = {h}
        BY OneToken
      <3>2. QED
        BY <2>1, <3>1
    <2>3. ClassifyMessage(RedactMessage({k})) \cap {"aws_key", "api_secret", "db_password"} = {}
      BY RedactedToken
    <2>4. QED
      BY <2>2, <2>3
  <1>4. ClassifyMessage(RedactMessage(m)) = UNION {ClassifyMessage({j}) : j \in RedactMessage(m)}
    BY <1>2
  <1>5. QED
    BY <1>3, <1>4

\* For every message, and in every state: what an alert keeps of it leaks neither
\* a key nor a password of the kinds that are classified.
THEOREM RedactionIsComplete == Spec => []RedactionHides
  <1>1. RedactionHides
    BY RedactedToken DEF RedactionHides
  <1>2. QED
    BY <1>1, PTL

\* The property the run checks of one word, of whole messages.
THEOREM RedactedSamplesAreClean ==
  \A m \in SUBSET Token :
    ClassifyMessage(RedactMessage(m)) \cap {"aws_key", "api_secret", "db_password"} = {}
  BY RedactedMessage

-----------------------------------------------------------------------------
(* The order in which hosts and users are drawn *)

One(T) == CHOOSE x \in T : TRUE

ListNext(f, T) == IF T = {} THEN <<>> ELSE Append(f[T \ {One(T)}], One(T))

\* The recursion of Listing over the subsets of S, for those of n elements or less: ...
PartLists(f, S, n) ==
  /\ f = [T \in SUBSET S |-> f[T]]
  /\ \A T \in SUBSET S : Cardinality(T) <= n => f[T] = ListNext(f, T)

LEMMA WithoutOne ==
  ASSUME NEW S, IsFiniteSet(S), NEW T \in SUBSET S
  PROVE  /\ IsFiniteSet(T) /\ Cardinality(T) \in Nat /\ (Cardinality(T) = 0 <=> T = {})
         /\ T # {} => /\ One(T) \in T /\ T \ {One(T)} \in SUBSET S
                      /\ Cardinality(T \ {One(T)}) = Cardinality(T) - 1
  <1>1. IsFiniteSet(T) /\ Cardinality(T) \in Nat
    BY FS_Subset, FS_CardinalityType
  <1>2. Cardinality(T) = 0 <=> T = {}
    BY <1>1, FS_EmptySet
  <1>3. ASSUME T # {}
        PROVE  One(T) \in T /\ Cardinality(T \ {One(T)}) = Cardinality(T) - 1
    <2> DEFINE x == One(T)
    <2>1. x \in T
      BY <1>3 DEF One
    <2> HIDE DEF x
    <2>2. Cardinality(T \ {x}) = Cardinality(T) - 1
      BY <1>1, <2>1, FS_RemoveElement
    <2>3. QED
      BY <2>1, <2>2 DEF x
  <1>4. QED
    BY <1>1, <1>2, <1>3

\* ... it exists for ever larger sets, ...
LEMMA PartListsExist ==
  ASSUME NEW S, IsFiniteSet(S), NEW n \in Nat
  PROVE  \E f : PartLists(f, S, n)
  <1> DEFINE Bad == {k \in Nat : ~ \E f : PartLists(f, S, k)}
             k == Min(Bad)
  <1>1. SUFFICES ASSUME Bad # {} PROVE FALSE
    OBVIOUS
  <1>2. k \in Nat /\ (~ \E f : PartLists(f, S, k)) /\ \A y \in Bad : k <= y
    <2> HIDE DEF Bad
    <2>1. k \in Bad /\ \A y \in Bad : k <= y
      BY <1>1, MinOfNat DEF Bad
    <2>2. QED
      BY <2>1 DEF Bad
  <1> HIDE DEF k
  <1>3. CASE k = 0
    <2> DEFINE f == [T \in SUBSET S |-> <<>>]
    <2>1. ASSUME NEW T \in SUBSET S, Cardinality(T) <= 0
          PROVE  f[T] = ListNext(f, T)
      <3>1. Cardinality(T) \in Nat /\ (Cardinality(T) = 0 <=> T = {})
        BY WithoutOne
      <3>2. T = {}
        BY <2>1, <3>1
      <3>3. QED
        BY <3>2 DEF ListNext
    <2>2. PartLists(f, S, 0)
      BY <2>1 DEF PartLists
    <2>3. QED
      BY <1>2, <1>3, <2>2
  <1>4. CASE k # 0
    <2>1. k - 1 \in Nat /\ k - 1 \notin Bad
      BY <1>2, <1>4
    <2>2. PICK f : PartLists(f, S, k - 1)
      BY <2>1
    <2> DEFINE g == [T \in SUBSET S |-> ListNext(f, T)]
    <2>3. ASSUME NEW T \in SUBSET S, Cardinality(T) <= k
          PROVE  g[T] = ListNext(g, T)
      <3>1. CASE T = {}
        BY <3>1 DEF ListNext
      <3>2. CASE T # {}
        <4> DEFINE r == T \ {One(T)}
        <4>1. r \in SUBSET S /\ Cardinality(r) = Cardinality(T) - 1 /\ Cardinality(T) \in Nat
          BY <3>2, WithoutOne
        <4>2. Cardinality(r) <= k - 1
          BY <1>2, <2>3, <4>1
        <4>3. f[r] = ListNext(f, r)
          BY <2>2, <4>1, <4>2 DEF PartLists
        <4>4. g[r] = f[r]
          BY <4>1, <4>3
        <4>5. QED
          BY <3>2, <4>4 DEF ListNext
      <3>3. QED
        BY <3>1, <3>2
    <2>4. PartLists(g, S, k)
      <3>1. g = [T \in SUBSET S |-> g[T]]
        OBVIOUS
      <3> HIDE DEF g
      <3>2. QED
        BY <2>3, <3>1 DEF PartLists
    <2>5. QED
      BY <1>2, <2>4
  <1>5. QED
    BY <1>3, <1>4

\* ... and lists each element of each of them once.
Lists(s, T) ==
  /\ s \in Seq(T) /\ Len(s) = Cardinality(T)
  /\ \A i, j \in 1 .. Len(s) : s[i] = s[j] => i = j

LEMMA ListOneMore ==
  ASSUME NEW T, NEW x \in T, NEW s, Lists(s, T \ {x}), Cardinality(T) \in Nat,
         Cardinality(T \ {x}) = Cardinality(T) - 1
  PROVE  Lists(Append(s, x), T)
  <1> DEFINE n == Len(s)
             t == Append(s, x)
  <1>1. /\ s \in Seq(T \ {x}) /\ n \in Nat /\ n + 1 = Cardinality(T)
        /\ \A i, j \in 1 .. n : s[i] = s[j] => i = j
    <2>1. s \in Seq(T \ {x}) /\ n = Cardinality(T \ {x})
      BY DEF Lists
    <2>2. \A i, j \in 1 .. n : s[i] = s[j] => i = j
      BY Zenon DEF Lists
    <2>3. n \in Nat /\ n + 1 = Cardinality(T)
      BY <2>1
    <2> HIDE DEF n
    <2>4. QED
      BY <2>1, <2>2, <2>3, Zenon
  <1>2. \A i \in 1 .. n : s[i] \in T \ {x}
    BY <1>1
  <1>3. s \in Seq(T)
    BY <1>1
  <1>4. t \in Seq(T) /\ Len(t) = n + 1 /\ t[n + 1] = x /\ \A i \in 1 .. n : t[i] = s[i]
    BY <1>3
  <1> HIDE DEF t, n
  <1>5. ASSUME NEW i \in 1 .. n + 1, NEW j \in 1 .. n + 1, t[i] = t[j]
        PROVE  i = j
    <2>1. CASE i = n + 1 /\ j = n + 1
      BY <2>1
    <2>2. CASE i \in 1 .. n /\ j \in 1 .. n
      BY <1>1, <1>4, <1>5, <2>2
    <2>3. CASE i = n + 1 /\ j \in 1 .. n
      BY <1>2, <1>4, <1>5, <2>3
    <2>4. CASE i \in 1 .. n /\ j = n + 1
      BY <1>2, <1>4, <1>5, <2>4
    <2>5. QED
      BY <1>1, <2>1, <2>2, <2>3, <2>4
  <1>6. Lists(t, T)
    BY <1>1, <1>4, <1>5 DEF Lists
  <1>7. QED
    BY <1>6 DEF t

LEMMA ListingIs ==
  ASSUME NEW S, IsFiniteSet(S)
  PROVE  Lists(Listing(S), S)
  <1> DEFINE Iter(f) == f = [s \in SUBSET S |->
                               IF s = {} THEN <<>>
                               ELSE LET x == CHOOSE x \in s : TRUE IN Append(f[s \ {x}], x)]
             iter == CHOOSE f : Iter(f)
  <1>1. PICK f : PartLists(f, S, Cardinality(S))
    BY FS_CardinalityType, PartListsExist
  <1>2. ASSUME NEW T \in SUBSET S
        PROVE  f[T] = ListNext(f, T)
    <2>1. Cardinality(T) <= Cardinality(S)
      BY FS_Subset
    <2>2. QED
      BY <1>1, <2>1 DEF PartLists
  <1>3. f = [T \in SUBSET S |-> ListNext(f, T)]
    BY <1>1, <1>2 DEF PartLists
  <1>4. Iter(f)
    BY <1>3 DEF ListNext, One
  <1>5. Iter(iter)
    BY <1>4, Zenon
  <1>6. Listing(S) = iter[S]
    BY DEF Listing, FoldSet, MapThenFoldSet
  <1> DEFINE g == iter
  <1>7. Iter(g)
    BY <1>5
  <1> HIDE DEF g
  <1>8. \A T \in SUBSET S : g[T] = ListNext(g, T)
    BY <1>7 DEF ListNext, One
  <1> HIDE DEF iter
  <1> DEFINE Bad == {n \in Nat : \E T \in SUBSET S : Cardinality(T) = n /\ ~ Lists(g[T], T)}
             n == Min(Bad)
  <1>9. ASSUME Bad # {}
        PROVE  FALSE
    <2>1. n \in Bad /\ \A y \in Bad : n <= y
      <3>1. Bad \in SUBSET Nat
        OBVIOUS
      <3> HIDE DEF Bad
      <3>2. QED
        BY <1>9, <3>1, MinOfNat
    <2> HIDE DEF n
    <2>2. PICK T \in SUBSET S : Cardinality(T) = n /\ ~ Lists(g[T], T)
      BY <2>1
    <2>3. g[T] = ListNext(g, T)
      BY <1>8
    <2>4. T # {}
      <3>1. ASSUME T = {}
            PROVE  Lists(<<>>, T)
        <4>1. <<>> \in Seq(T) /\ Len(<<>>) = 0 /\ Cardinality(T) = 0
          BY <3>1, FS_EmptySet
        <4>2. QED
          BY <4>1 DEF Lists
      <3>2. QED
        BY <2>2, <2>3, <3>1 DEF ListNext
    <2> DEFINE x == One(T)
               p == T \ {x}
    <2>5. x \in T /\ p \in SUBSET S /\ Cardinality(p) = Cardinality(T) - 1 /\ Cardinality(T) \in Nat
      BY <2>4, WithoutOne
    <2>6. Lists(g[p], p)
      <3>1. Cardinality(p) \in Nat
        BY <2>5, WithoutOne
      <3>2. Cardinality(p) \notin Bad
        <4> HIDE DEF Bad, p
        <4> QED BY <2>1, <2>2, <2>5, <3>1
      <3>3. QED
        BY <2>5, <3>1, <3>2
    <2>7. g[T] = Append(g[p], x)
      BY <2>3, <2>4 DEF ListNext
    <2> HIDE DEF x
    <2>8. QED
      BY <2>2, <2>5, <2>6, <2>7, ListOneMore
  <1>10. S \in SUBSET S /\ Cardinality(S) \in Nat
    BY FS_CardinalityType
  <1>11. Lists(g[S], S)
    BY <1>9, <1>10
  <1>12. QED
    BY <1>6, <1>11 DEF g

-----------------------------------------------------------------------------
(* Times and rows *)

\* A case fixes a user of the fleet.
UserOK ==
  /\ zone \in -480 .. 540 /\ workStart \in 7 .. 9 /\ workEnd \in 17 .. 20 /\ office \in BOOLEAN
  /\ warm.x \in {"low", "high"} /\ organic.x \in {"low", "high"} /\ organic.day \in Nat
  /\ organic.kind \in Kinds /\ organic.hour \in {"first", "last", "shoulder"}

LEMMA ZoneEast == UserOK => Max({zone, 0}) = IF zone <= 0 THEN 0 ELSE zone
  <1> SUFFICES ASSUME UserOK PROVE Max({zone, 0}) = IF zone <= 0 THEN 0 ELSE zone
    OBVIOUS
  <1> DEFINE S == {zone, 0}
             m == IF zone <= 0 THEN 0 ELSE zone
  <1>1. zone \in Int
    BY DEF UserOK
  <1>2. m \in S /\ \A y \in S : m >= y
    BY <1>1
  <1>3. \A z \in S : (\A y \in S : z >= y) => z = m
    BY <1>1
  <1> HIDE DEF S, m
  <1>4. Max(S) = m
    BY <1>2, <1>3 DEF Max
  <1>5. QED
    BY <1>4 DEF S, m

LEMMA LocalTime ==
  ASSUME UserOK, NEW day \in Nat, NEW hour \in 0 .. 23, NEW minute \in 0 .. 59
  PROVE  /\ LocalTS(day, hour, minute) \in Nat
         /\ Midnight + day * Day + hour * Hour - zone * 60 <= LocalTS(day, hour, minute)
         /\ LocalTS(day, hour, minute)
              <= Midnight + day * Day + hour * Hour + 59 * 60 - zone * 60
         /\ day * Day \in Nat
  BY GeneratorAssumption DEF UserOK, LocalTS, Day, Hour

LEMMA Product ==
  ASSUME NEW a \in Nat, NEW b \in Nat, NEW m \in Nat, NEW n \in Nat, a <= m, b <= n
  PROVE  a * b \in Nat /\ a * b <= m * n
  <1>1. a * b <= m * b
    OBVIOUS
  <1>2. m * b <= m * n
    OBVIOUS
  <1>3. QED
    BY <1>1, <1>2

-----------------------------------------------------------------------------
(* What an event is *)

LEMMA ClassifyType ==
  ASSUME NEW m
  PROVE  ClassifyMessage(m)
           \in SUBSET {"aws_key", "api_secret", "db_password", "private_key", "ssn", "card"}
  <1>1. ASSUME NEW k
        PROVE  ByForm(k) \subseteq {"aws_key", "api_secret", "db_password", "private_key", "ssn", "card"}
    BY DEF ByForm
  <1>2. ASSUME NEW k
        PROVE  ByKey(k) \subseteq {"api_secret"}
    BY DEF ByKey
  <1>3. QED
    BY <1>1, <1>2 DEF ClassifyMessage

LEMMA RowTypes ==
  ASSUME NEW ts \in Nat, NEW ip \in IPs
  PROVE  /\ \A n \in Users, ok \in BOOLEAN :
              ConsoleLogin(n, ts, ip, ok) \in Event /\ APICall(n, ts, ip, ok) \in Event
         /\ \A h \in Hosts : SSHLogin(ts, ip, h) \in Event
         /\ \A m : AppLog(ts, m) \in Event
         /\ \A b \in Nat : DataTransfer(ts, ip, b) \in Event
         /\ \A u \in Users, elevated \in BOOLEAN, status \in {"success", "denied"} :
              PermissionChange(ts, ip, u, elevated, status) \in Event
  <1>1. \A type \in EventTypes, status \in {"success", "failure", "denied", "info"}, n \in Users,
           p \in IPs \cup {NoIP} : LogEvent(type, status, n, p, ts) \in Event
    BY DEF LogEvent, Event
  <1>2. User \in Users
    BY GeneratorAssumption
  <1>3. \A n \in Users, ok \in BOOLEAN :
          ConsoleLogin(n, ts, ip, ok) \in Event /\ APICall(n, ts, ip, ok) \in Event
    BY <1>1 DEF ConsoleLogin, APICall, EventTypes
  <1>4. \A h \in Hosts : SSHLogin(ts, ip, h) \in Event
    BY <1>2 DEF SSHLogin, LogEvent, Event, EventTypes
  <1>5. \A m : AppLog(ts, m) \in Event
    BY <1>2, ClassifyType DEF AppLog, LogEvent, Event, EventTypes
  <1>6. \A b \in Nat : DataTransfer(ts, ip, b) \in Event
    BY <1>2 DEF DataTransfer, LogEvent, Event, EventTypes
  <1>7. \A u \in Users, elevated \in BOOLEAN, status \in {"success", "denied"} :
          PermissionChange(ts, ip, u, elevated, status) \in Event
    BY <1>2 DEF PermissionChange, LogEvent, Event, EventTypes
  <1>8. QED
    BY <1>3, <1>4, <1>5, <1>6, <1>7

LEMMA UserIPType == UserOK => \A x : UserIP(x) \in IPs
  BY GeneratorAssumption DEF UserIP

\* The row that the i-th of some events becomes
Stamped(es, i) == [es[i] EXCEPT !.id = Cardinality(events) + i]

\* Rows of the logs between two instants
Between(es, a, b) ==
  es \in Seq(Event) /\ \A i \in 1 .. Len(es) : a <= es[i].ts /\ es[i].ts <= b

LEMMA EmitType ==
  ASSUME events \in EventSets, NEW es \in Seq(Event), Emit(es)
  PROVE  /\ events' \in EventSets /\ events \subseteq events' /\ Cardinality(events) \in Nat
         /\ \A i \in 1 .. Len(es) : Stamped(es, i) \in events' /\ Stamped(es, i) \in Event
         /\ \A e \in events' \ events : \E i \in 1 .. Len(es) : e = Stamped(es, i)
  <1> DEFINE new == {Stamped(es, i) : i \in 1 .. Len(es)}
             f == [i \in 1 .. Len(es) |-> Stamped(es, i)]
  <1>1. events \in SUBSET Event /\ IsFiniteSet(events) /\ Cardinality(events) \in Nat
    BY FS_CardinalityType DEF EventSets
  <1>2. events' = events \cup new
    BY DEF Emit, Stamped
  <1>3. ASSUME NEW i \in 1 .. Len(es)
        PROVE  Stamped(es, i) \in Event
    <2>1. es[i] \in Event
      OBVIOUS
    <2>2. Cardinality(events) + i \in Nat
      BY <1>1
    <2>3. QED
      BY <2>1, <2>2 DEF Stamped, Event
  <1>4. IsFiniteSet(1 .. Len(es))
    BY FS_Interval
  <1>5. f \in Surjection(1 .. Len(es), new)
    BY DEF Surjection
  <1>6. IsFiniteSet(new)
    <2> HIDE DEF new, f
    <2> QED BY <1>4, <1>5, FS_Surjection
  <1>7. IsFiniteSet(events \cup new)
    BY <1>1, <1>6, FS_Union
  <1>8. QED
    BY <1>1, <1>2, <1>3, <1>7 DEF EventSets

-----------------------------------------------------------------------------
(* Attacks *)

\* An attack after three days, within the span
InSpan(a) ==
  /\ a.start <= a.end /\ {a.start, a.end} \subseteq Span
  /\ a.start >= Midnight + 3 * Day - Max({zone, 0}) * 60

\* Everything has its type.
TypesInv ==
  /\ UserOK /\ plan \in Seq(AlertTypes) /\ breached \subseteq Users
  /\ events \in EventSets /\ attacks \subseteq Attack /\ IsFiniteSet(attacks)
  /\ \A a \in attacks : InSpan(a)
  /\ alerts \in Seq(AlertRow) /\ mem \in [Users -> UserBaseline] /\ next \in Nat
  /\ stage \in {"attacks", "forced", "benign", "drain", "done"}

LEMMA TypesInit == Init => TypesInv
  <1> SUFFICES ASSUME Init PROVE TypesInv
    OBVIOUS
  <1>1. PICK c \in Cases :
          /\ zone = c.zone /\ workStart = c.workStart /\ workEnd = c.workEnd
          /\ office = c.office /\ plan = c.plan /\ warm = c.warm /\ organic = c.organic
    BY DEF Init
  <1> DEFINE Draws == [x : Extremes, denied : {"none", "first", "last"}]
             Organics == [kind : Kinds, x : Extremes, hour : {"first", "last", "shoulder"}, day : Nat]
  <1>2. UserOK /\ plan \in Seq(AlertTypes)
    <2>1. /\ c \in [zone : -480 .. 540, workStart : 7 .. 9, workEnd : 17 .. 20, office : BOOLEAN,
                    plan : Seq(AlertTypes), warm : Draws, organic : Organics]
          /\ Extremes \subseteq {"low", "high"}
      BY GeneratorAssumption
    <2> HIDE DEF Draws, Organics
    <2>2. /\ c.zone \in -480 .. 540 /\ c.workStart \in 7 .. 9 /\ c.workEnd \in 17 .. 20
          /\ c.office \in BOOLEAN /\ c.plan \in Seq(AlertTypes)
          /\ c.warm \in Draws /\ c.organic \in Organics
      BY <2>1
    <2>3. \A d \in Draws : d.x \in {"low", "high"}
      BY <2>1 DEF Draws
    <2>4. \A o \in Organics : /\ o.x \in {"low", "high"} /\ o.day \in Nat /\ o.kind \in Kinds
                             /\ o.hour \in {"first", "last", "shoulder"}
      BY <2>1 DEF Organics
    <2>5. QED
      BY <1>1, <2>2, <2>3, <2>4 DEF UserOK
  <1>3. {} \in EventSets
    BY FS_EmptySet DEF EventSets
  <1>4. IsFiniteSet({})
    BY FS_EmptySet
  <1>5. <<>> \in Seq(AlertRow)
    OBVIOUS
  <1>6. QED
    BY <1>2, <1>3, <1>4, <1>5, EmptyBaselinesType DEF Init, TypesInv

\* The row of the manifest spans the events.
LEMMA ManifestIs ==
  ASSUME attacks \subseteq Attack, IsFiniteSet(attacks), NEW type \in AlertTypes, NEW entity \in Names,
         NEW es, NEW a \in Nat, NEW b \in Nat, Between(es, a, b), Len(es) > 0, NEW pause \in Nat,
         Manifest(type, entity, es, pause)
  PROVE  \E atk \in Attack :
           /\ attacks' = attacks \cup {atk} /\ atk.type = type /\ atk.entity = entity
           /\ a <= atk.start /\ atk.start <= atk.end /\ atk.end <= b + pause
           /\ \A i \in 1 .. Len(es) : atk.start <= es[i].ts /\ es[i].ts <= atk.end
  <1> DEFINE span == {es[i].ts : i \in 1 .. Len(es)}
             lo == Min(span)
             hi == Max(span)
             atk == [id |-> Cardinality(attacks) + 1, type |-> type, entity |-> entity,
                     start |-> lo, end |-> hi + pause]
  <1>1. es \in Seq(Event) /\ \A i \in 1 .. Len(es) : a <= es[i].ts /\ es[i].ts <= b
    BY DEF Between
  <1>2. \A i \in 1 .. Len(es) : es[i].ts \in Nat
    <2>1. \A i \in 1 .. Len(es) : es[i] \in Event
      BY <1>1
    <2>2. QED
      BY <2>1 DEF Event
  <1>3. attacks' = attacks \cup {atk}
    <2>1. DOMAIN es = 1 .. Len(es)
      BY <1>1
    <2>2. QED
      BY <2>1 DEF Manifest
  <1>4. span \in SUBSET Nat /\ span # {} /\ \A x \in span : a <= x /\ x <= b
    <2>1. 1 \in 1 .. Len(es)
      BY <1>1
    <2>2. QED
      BY <1>1, <1>2, <2>1
  <1>5. \A i \in 1 .. Len(es) : es[i].ts \in span
    OBVIOUS
  <1> HIDE DEF span
  <1>6. lo \in span /\ hi \in span /\ \A x \in span : lo <= x /\ x <= hi
    BY <1>4, MinOfNat, MaxOfNat
  <1> HIDE DEF lo, hi
  <1>7. lo \in Nat /\ hi \in Nat /\ a <= lo /\ lo <= hi /\ hi <= b /\ hi + pause \in Nat
    BY <1>4, <1>6
  <1>8. Cardinality(attacks) + 1 \in Nat
    BY FS_CardinalityType
  <1>9. atk \in Attack
    BY <1>7, <1>8 DEF Attack
  <1>10. \A i \in 1 .. Len(es) : lo <= es[i].ts /\ es[i].ts <= hi + pause
    BY <1>2, <1>5, <1>6, <1>7
  <1>11. a <= atk.start /\ atk.start <= atk.end /\ atk.end <= b + pause
    BY <1>7
  <1>12. QED
    BY <1>3, <1>9, <1>10, <1>11

\* The two hours of an attack
LEMMA MadeTypes ==
  ASSUME TypesInv, NEW type \in AlertTypes, NEW entity \in Names,
         NEW es, NEW a \in Nat, NEW b \in Nat, Between(es, a, b), Len(es) > 0, NEW pause \in Nat,
         Midnight + 3 * Day - Max({zone, 0}) * 60 <= a, b + pause <= Midnight + (Days + 1) * Day,
         Make(type, entity, es, pause), breached' \subseteq Users
  PROVE  TypesInv'
  <1>1. PICK atk \in Attack :
           /\ attacks' = attacks \cup {atk} /\ atk.type = type /\ atk.entity = entity
           /\ a <= atk.start /\ atk.start <= atk.end /\ atk.end <= b + pause
    BY ManifestIs, SMTT(60) DEF TypesInv, Make
  <1>2. es \in Seq(Event) /\ Emit(es) /\ events \in EventSets
    BY DEF Between, Make, TypesInv
  <1>3. events' \in EventSets
    BY <1>2, EmitType
  <1>4. plan' \in Seq(AlertTypes)
    BY DEF Make, TypesInv
  <1>5. /\ UserOK' /\ alerts' = alerts /\ mem' = mem /\ next' = next /\ stage' = stage
        /\ zone' = zone
    BY DEF Make, TypesInv, UserOK, user, draining
  <1>6. InSpan(atk)
    <2> DEFINE s == atk.start
               e == atk.end
               m == Max({zone, 0})
    <2>1. s \in Nat /\ e \in Nat /\ a <= s /\ s <= e /\ e <= b + pause
      BY <1>1 DEF Attack
    <2>2. m \in 0 .. 540 /\ Days \in Nat /\ Midnight \in Nat
      <3>1. UserOK /\ m = (IF zone <= 0 THEN 0 ELSE zone) /\ zone \in -480 .. 540
        BY ZoneEast DEF TypesInv, UserOK
      <3> HIDE DEF m
      <3>2. m \in 0 .. 540
        BY <3>1
      <3>3. QED
        BY <3>2, GeneratorAssumption
    <2>3. Midnight + 3 * Day - m * 60 <= a /\ b + pause <= Midnight + (Days + 1) * Day
      OBVIOUS
    <2> HIDE DEF s, e, m
    <2>4. Midnight + 3 * Day - m * 60 <= s /\ e <= Midnight + (Days + 1) * Day
      BY <2>1, <2>2, <2>3 DEF Day, Hour
    <2>5. Midnight - Day <= s /\ Midnight - Day <= e
      <3>1. Midnight - Day <= Midnight + 3 * Day - m * 60
        BY <2>2 DEF Day, Hour
      <3> DEFINE x == Midnight - Day
                 y == Midnight + 3 * Day - m * 60
      <3>2. x \in Int /\ y \in Int
        BY <2>2 DEF Day, Hour
      <3>3. x <= y /\ y <= s
        BY <2>4, <3>1
      <3> HIDE DEF x, y
      <3>4. x <= s /\ x <= e
        BY <2>1, <3>2, <3>3
      <3>5. QED
        BY <3>4 DEF x
    <2>6. s \in Span /\ e \in Span
      <3> DEFINE x == Midnight - Day
                 y == Midnight + (Days + 1) * Day
      <3>1. x \in Int /\ y \in Int
        BY <2>2 DEF Day, Hour
      <3>2. x <= s /\ x <= e /\ e <= y
        BY <2>4, <2>5
      <3> HIDE DEF x, y
      <3>3. s \in x .. y /\ e \in x .. y
        BY <2>1, <3>1, <3>2
      <3>4. QED
        BY <3>3 DEF x, y, Span
    <2>7. QED
      BY <2>1, <2>2, <2>4, <2>6 DEF InSpan, s, e, m, Day, Hour
  <1>7. \A x \in attacks' : InSpan(x)'
    BY <1>1, <1>5, <1>6 DEF TypesInv, InSpan
  <1>8. IsFiniteSet(attacks')
    BY <1>1, FS_AddElement DEF TypesInv
  <1>9. QED
    BY <1>1, <1>3, <1>4, <1>5, <1>7, <1>8 DEF TypesInv

-----------------------------------------------------------------------------
(* What the rules find in the events of an attack *)

New(es) == {Stamped(es, i) : i \in 1 .. Len(es)}

\* In a window that a drain sweeps, a rule finds the attack.
Raised(type, entity, es) ==
  \E t \in Nat :
    /\ Aligned(t) /\ Midnight + Day <= t /\ \E i \in 1 .. Len(es) : t < es[i].ts
    /\ \E c \in RuleFindings(WindowEvents(New(es), t)) : c.type = type /\ c.entity = entity

LEMMA NewType ==
  ASSUME events \in EventSets, NEW es \in Seq(Event)
  PROVE  /\ New(es) \in EventSets
         /\ \A i, j \in 1 .. Len(es) : Stamped(es, i) = Stamped(es, j) => i = j
         /\ \A i \in 1 .. Len(es) : /\ Stamped(es, i).ts = es[i].ts /\ es[i].ts \in Nat
                                    /\ Stamped(es, i) \in Event
  <1> DEFINE f == [i \in 1 .. Len(es) |-> Stamped(es, i)]
  <1>1. Cardinality(events) \in Nat
    BY FS_CardinalityType DEF EventSets
  <1>2. ASSUME NEW i \in 1 .. Len(es)
        PROVE  /\ Stamped(es, i) \in Event /\ Stamped(es, i).id = Cardinality(events) + i
               /\ Stamped(es, i).ts = es[i].ts /\ es[i].ts \in Nat
    <2>1. es[i] \in Event
      OBVIOUS
    <2>2. Cardinality(events) + i \in Nat
      BY <1>1
    <2>3. QED
      BY <2>1, <2>2 DEF Stamped, Event
  <1>3. ASSUME NEW i \in 1 .. Len(es), NEW j \in 1 .. Len(es), Stamped(es, i) = Stamped(es, j)
        PROVE  i = j
    <2>1. Cardinality(events) + i = Cardinality(events) + j
      BY <1>2, <1>3
    <2>2. QED
      BY <1>1, <2>1
  <1>4. IsFiniteSet(New(es))
    <2>1. f \in Surjection(1 .. Len(es), New(es))
      BY DEF Surjection, New
    <2>2. IsFiniteSet(1 .. Len(es))
      BY FS_Interval
    <2> HIDE DEF f
    <2>3. QED
      BY <2>1, <2>2, FS_Surjection
  <1>5. QED
    BY <1>2, <1>3, <1>4 DEF EventSets, New

\* A row keeps what the event says.
LEMMA StampedIs ==
  ASSUME events \in EventSets, NEW es \in Seq(Event), NEW i \in 1 .. Len(es)
  PROVE  LET e == Stamped(es, i)
         IN /\ e \in Event /\ e.ts = es[i].ts /\ e.type = es[i].type /\ e.status = es[i].status
            /\ e.user = es[i].user /\ e.ip = es[i].ip /\ e.host = es[i].host
            /\ e.bytes = es[i].bytes /\ e.target = es[i].target
            /\ e.elevated = es[i].elevated /\ e.leaks = es[i].leaks
  <1>1. es[i] \in Event
    OBVIOUS
  <1>2. Stamped(es, i) \in Event
    BY NewType
  <1>3. QED
    BY <1>1, <1>2 DEF Stamped, Event

\* It is enough to find something in some of its events that share a window, ...
LEMMA RaisedAt ==
  ASSUME events \in EventSets, NEW es \in Seq(Event), NEW J \in SUBSET (1 .. Len(es)),
         NEW t \in Nat, Aligned(t), Midnight + Day <= t, \A i \in J : InWindow(es[i].ts, t),
         \E i \in J : t < es[i].ts, NEW c \in RuleFindings({Stamped(es, i) : i \in J})
  PROVE  Raised(c.type, c.entity, es)
  <1> DEFINE S == {Stamped(es, i) : i \in J}
             W == WindowEvents(New(es), t)
  <1>1. S \in SUBSET W
    <2>1. ASSUME NEW i \in J
          PROVE  Stamped(es, i) \in W
      <3>1. i \in 1 .. Len(es) /\ InWindow(es[i].ts, t)
        OBVIOUS
      <3>2. Stamped(es, i) \in New(es) /\ Stamped(es, i).ts = es[i].ts
        BY <3>1, NewType DEF New
      <3>3. QED
        BY <3>1, <3>2 DEF WindowEvents
    <2>2. QED
      BY <2>1
  <1>2. W \in EventSets
    BY NewType, EventSubset DEF WindowEvents
  <1> HIDE DEF S, W
  <1>3. c \in RuleFindings(S)
    BY DEF S
  <1>4. PICK d \in RuleFindings(W) : Same(d, c)
    BY <1>1, <1>2, <1>3, RulesGrow
  <1>5. PICK i \in 1 .. Len(es) : t < es[i].ts
    OBVIOUS
  <1>6. QED
    BY <1>4, <1>5 DEF Raised, Same, W

\* ... as all that happen within a step do.
LEMMA RaisedSoon ==
  ASSUME WithinReach, events \in EventSets, NEW es \in Seq(Event), NEW J \in SUBSET (1 .. Len(es)),
         J # {}, NEW f \in Nat, Midnight + 2 * Day <= f,
         \A i \in J : f <= es[i].ts /\ es[i].ts < f + 600,
         NEW c \in RuleFindings({Stamped(es, i) : i \in J})
  PROVE  Raised(c.type, c.entity, es)
  <1> DEFINE t == Truncate(f - 1)
  <1>1. Midnight \in Nat /\ Step = 600
    BY GeneratorAssumption DEF WithinReach
  <1>2. f - 1 \in Nat
    BY <1>1 DEF Day, Hour
  <1>3. t \in Nat /\ Aligned(t) /\ t <= f - 1 /\ f - 1 < t + Step
    BY <1>2, TruncateBounds, SMTT(60)
  <1> HIDE DEF t
  <1>4. Midnight + Day <= t
    BY <1>1, <1>3 DEF Day, Hour
  <1>5. ASSUME NEW i \in J
        PROVE  InWindow(es[i].ts, t) /\ t < es[i].ts
    <2> DEFINE x == es[i].ts
    <2>1. x \in Nat /\ f <= x /\ x < f + 600
      BY NewType
    <2> HIDE DEF x
    <2>2. t <= x /\ x < t + 2 * Step /\ t < x
      BY <1>1, <1>3, <2>1, SMTT(60)
    <2>3. QED
      BY <2>2 DEF x, InWindow
  <1>6. \A i \in J : InWindow(es[i].ts, t)
    BY <1>5
  <1>7. \E i \in J : t < es[i].ts
    BY <1>5
  <1>8. QED
    BY <1>3, <1>4, <1>6, <1>7, RaisedAt

\* A grant of a right to oneself
LEMMA GrantRaised ==
  ASSUME WithinReach, events \in EventSets, NEW es \in Seq(Event), NEW i \in 1 .. Len(es),
         Midnight + 2 * Day <= es[i].ts, es[i].type = "permission_change", es[i].status = "success",
         es[i].user = User, es[i].target = User, es[i].elevated
  PROVE  Raised("privilege_escalation", User, es)
  <1> DEFINE S == {Stamped(es, j) : j \in {i}}
             G == {e \in S : /\ e.type = "permission_change" /\ e.status = "success"
                             /\ e.user = User /\ e.target = User /\ e.elevated}
             c == Finding("privilege_escalation", User, User, Earliest(G).ip, G)
  <1>1. es[i] \in Event /\ es[i].ts \in Nat
    <2>1. es[i] \in Event
      OBVIOUS
    <2>2. QED
      BY <2>1, NewType
  <1>2. Stamped(es, i) \in G
    <2>1. Stamped(es, i) \in S
      OBVIOUS
    <2>2. QED
      BY <2>1, StampedIs
  <1>3. User \in Users \cup {NoUser}
    BY GeneratorAssumption
  <1>4. c \in PrivilegeEscalation(S)
    <2>1. G # {}
      BY <1>2
    <2>2. QED
      BY <1>3, <2>1 DEF PrivilegeEscalation
  <1>5. c.type = "privilege_escalation" /\ c.entity = User
    BY DEF Finding
  <1> HIDE DEF c
  <1>6. c \in RuleFindings(S)
    BY <1>4 DEF RuleFindings
  <1>7. \A j \in {i} : es[i].ts <= es[j].ts /\ es[j].ts < es[i].ts + 600
    BY <1>1
  <1>8. {i} \in SUBSET (1 .. Len(es)) /\ {i} # {}
    OBVIOUS
  <1>9. Raised(c.type, c.entity, es)
    BY <1>1, <1>6, <1>7, <1>8, RaisedSoon, ZenonT(60)
  <1>10. QED
    BY <1>5, <1>9

\* A message with a live secret
LEMMA LeakRaised ==
  ASSUME WithinReach, events \in EventSets, NEW es \in Seq(Event), NEW i \in 1 .. Len(es),
         Midnight + 2 * Day <= es[i].ts, es[i].leaks # {}, es[i].user = User
  PROVE  Raised("sensitive_data_exposure", User, es)
  <1> DEFINE S == {Stamped(es, j) : j \in {i}}
             L == {e \in {e \in S : e.leaks # {}} : ExposureKey(e) = User}
             c == Finding("sensitive_data_exposure", User, Earliest(L).user, Earliest(L).ip, L)
  <1>1. es[i] \in Event /\ es[i].ts \in Nat
    <2>1. es[i] \in Event
      OBVIOUS
    <2>2. QED
      BY <2>1, NewType
  <1>2. User # NoUser
    BY GeneratorAssumption, NameAssumption
  <1>3. Stamped(es, i).leaks # {} /\ Stamped(es, i).user = User
    BY StampedIs
  <1>4. ExposureKey(Stamped(es, i)) = User
    BY <1>2, <1>3 DEF ExposureKey
  <1>5. User \in {ExposureKey(e) : e \in {e \in S : e.leaks # {}}}
    BY <1>3, <1>4
  <1>6. c \in SensitiveDataExposure(S)
    BY <1>5 DEF SensitiveDataExposure
  <1>7. c.type = "sensitive_data_exposure" /\ c.entity = User
    BY DEF Finding
  <1> HIDE DEF c
  <1>8. c \in RuleFindings(S)
    BY <1>6 DEF RuleFindings
  <1>9. \A j \in {i} : es[i].ts <= es[j].ts /\ es[j].ts < es[i].ts + 600
    BY <1>1
  <1>10. {i} \in SUBSET (1 .. Len(es)) /\ {i} # {}
    OBVIOUS
  <1>11. Raised(c.type, c.entity, es)
    BY <1>1, <1>8, <1>9, <1>10, RaisedSoon, ZenonT(60)
  <1>12. QED
    BY <1>7, <1>11

-----------------------------------------------------------------------------
(* What the rules that count find in the events of an attack *)

\* As many different things as there are ways to name them, at least
LEMMA CountedAtLeast ==
  ASSUME NEW n \in Nat, NEW T, IsFiniteSet(T), NEW f, \A i \in 1 .. n : f[i] \in T,
         \A i, j \in 1 .. n : f[i] = f[j] => i = j
  PROVE  Cardinality(T) \in Nat /\ n <= Cardinality(T)
  <1> DEFINE g == [i \in 1 .. n |-> f[i]]
  <1>1. g \in Injection(1 .. n, T)
    BY DEF Injection, IsInjective
  <1> HIDE DEF g
  <1>2. Cardinality(1 .. n) <= Cardinality(T)
    BY <1>1, FS_Injection
  <1>3. Cardinality(1 .. n) = n
    BY FS_Interval
  <1>4. QED
    BY <1>2, <1>3, FS_CardinalityType

LEMMA StampedFinite ==
  ASSUME events \in EventSets, NEW es \in Seq(Event), NEW J \in SUBSET (1 .. Len(es))
  PROVE  /\ {Stamped(es, i) : i \in J} \in EventSets
         /\ Cardinality({Stamped(es, i) : i \in J}) = Cardinality(J)
  <1> DEFINE S == {Stamped(es, i) : i \in J}
             g == [i \in J |-> Stamped(es, i)]
  <1>1. S \in SUBSET New(es)
    BY DEF New
  <1>2. S \in EventSets
    BY <1>1, NewType, EventSubset
  <1>3. \A i, j \in J : Stamped(es, i) = Stamped(es, j) => i = j
    BY NewType
  <1>4. g \in Injection(J, S) /\ g \in Surjection(J, S)
    BY <1>3 DEF Injection, IsInjective, Surjection
  <1>5. IsFiniteSet(S)
    BY <1>2 DEF EventSets
  <1> HIDE DEF S, g
  <1>6. Cardinality(J) = Cardinality(S)
    BY <1>4, <1>5, FS_Injection
  <1>7. QED
    BY <1>2, <1>6 DEF S

\* Seven different hosts within a step
LEMMA HopsRaised ==
  ASSUME WithinReach, events \in EventSets, NEW es \in Seq(Event), Len(es) >= 7,
         NEW f \in Nat, Midnight + 2 * Day <= f,
         \A i \in 1 .. 7 : /\ f <= es[i].ts /\ es[i].ts < f + 600 /\ es[i].type = "ssh_login"
                           /\ es[i].status = "success" /\ es[i].user = User
                           /\ es[i].host = Listing(Hosts)[i]
  PROVE  Raised("lateral_movement", User, es)
  <1> DEFINE J == 1 .. 7
             S == {Stamped(es, j) : j \in J}
             H == {e \in S : /\ e.type = "ssh_login" /\ e.status = "success"
                             /\ e.user = User /\ e.host # NoHost}
             T == {e.host : e \in H}
             h(i) == Listing(Hosts)[i]
             g == [i \in J |-> h(i)]
             c == Finding("lateral_movement", User, User, Earliest(H).ip, H)
  <1>1. J \in SUBSET (1 .. Len(es)) /\ J # {}
    <2>1. Len(es) \in Nat
      OBVIOUS
    <2>2. 1 \in J
      OBVIOUS
    <2>3. QED
      BY <2>1, <2>2
  <1>2. \A i \in J : h(i) \in Hosts /\ \A j \in J : h(i) = h(j) => i = j
    <2>1. Lists(Listing(Hosts), Hosts) /\ Cardinality(Hosts) >= 14 /\ Cardinality(Hosts) \in Nat
      BY ListingIs, GeneratorAssumption, FS_CardinalityType
    <2>2. J \subseteq 1 .. Cardinality(Hosts)
      BY <2>1
    <2>3. QED
      BY <2>1, <2>2, SMTT(40) DEF Lists
  <1>3. \A i \in J : Stamped(es, i) \in H /\ Stamped(es, i).host = h(i)
    <2>1. ASSUME NEW i \in J
          PROVE  Stamped(es, i) \in H /\ Stamped(es, i).host = h(i)
      <3>1. i \in 1 .. Len(es) /\ Stamped(es, i) \in S
        BY <1>1
      <3>2. /\ Stamped(es, i).type = "ssh_login" /\ Stamped(es, i).status = "success"
            /\ Stamped(es, i).user = User /\ Stamped(es, i).host = h(i)
        BY <3>1, StampedIs, SMTT(60)
      <3>3. h(i) # NoHost
        BY <1>2, NameAssumption
      <3>4. QED
        BY <3>1, <3>2, <3>3
    <2>2. QED
      BY <2>1
  <1>4. \A i \in J : g[i] \in T
    <2>1. ASSUME NEW i \in J
          PROVE  g[i] \in T
      <3>1. g[i] = Stamped(es, i).host /\ Stamped(es, i) \in H
        BY <1>3
      <3> HIDE DEF g, H
      <3>2. QED
        BY <3>1
    <2>2. QED
      BY <2>1
  <1>5. \A i, j \in J : g[i] = g[j] => i = j
    BY <1>2, SMTT(60)
  <1>6. IsFiniteSet(T)
    <2>1. S \in EventSets
      BY <1>1, StampedFinite
    <2>2. IsFiniteSet(H)
      <3>1. H \in SUBSET S
        OBVIOUS
      <3> HIDE DEF H, S
      <3>2. QED
        BY <2>1, <3>1, EventSubset DEF EventSets
    <2>3. [e \in H |-> e.host] \in Surjection(H, T)
      BY DEF Surjection
    <2> HIDE DEF H, T
    <2>4. QED
      BY <2>2, <2>3, FS_Surjection
  <1>7. Cardinality(T) >= LateralDistinctHosts
    <2> DEFINE n == 7
    <2> HIDE DEF g, T
    <2>1. /\ n \in Nat /\ \A i \in 1 .. n : g[i] \in T
          /\ \A i, j \in 1 .. n : g[i] = g[j] => i = j
      BY <1>4, <1>5
    <2> HIDE DEF n
    <2>2. n <= Cardinality(T) /\ Cardinality(T) \in Nat
      BY <1>6, <2>1, CountedAtLeast, ZenonT(60)
    <2>3. QED
      BY <2>2, ThresholdAssumption, SMTT(60) DEF n, WithinReach
  <1>8. User \in Users
    BY GeneratorAssumption
  <1>9. c \in LateralMovement(S)
    BY <1>7, <1>8, ZenonT(60) DEF LateralMovement
  <1>10. c.type = "lateral_movement" /\ c.entity = User
    BY DEF Finding
  <1> HIDE DEF c
  <1>11. c \in RuleFindings(S)
    BY <1>9 DEF RuleFindings
  <1>12. \A j \in J : f <= es[j].ts /\ es[j].ts < f + 600
    OBVIOUS
  <1> HIDE DEF J
  <1>13. Raised(c.type, c.entity, es)
    BY <1>1, <1>11, <1>12, RaisedSoon, ZenonT(60)
  <1>14. QED
    BY <1>10, <1>13

\* The names of as many users as stuffing takes
LEMMA NamesDiffer ==
  ASSUME WithinReach
  PROVE  LET names == Listing(Fleet \cup {User})
             K     == Len(names)
         IN /\ K \in Nat /\ K >= 1 /\ StuffingMinUsers <= K
            /\ names \in Seq(Users) /\ \A i \in Nat : 1 + (i % K) \in 1 .. K
            /\ \A i, j \in 1 .. StuffingMinUsers :
                 names[1 + (i % K)] = names[1 + (j % K)] => i = j
  <1> DEFINE F == Fleet \cup {User}
             names == Listing(F)
             K == Len(names)
             M == StuffingMinUsers
  <1>1. F \in SUBSET Users /\ IsFiniteSet(F)
    BY GeneratorAssumption, FS_AddElement
  <1>2. Lists(names, F) /\ M \in Nat \ {0} /\ M <= Cardinality(F)
    BY <1>1, ListingIs, ThresholdAssumption DEF WithinReach
  <1>3. K \in Nat /\ M <= K /\ K >= 1 /\ names \in Seq(Users)
    <2> HIDE DEF F, M
    <2>1. names \in Seq(F) /\ K = Cardinality(F)
      BY <1>2 DEF Lists
    <2>2. K \in Nat
      BY <2>1
    <2>3. names \in Seq(Users)
      BY <1>1, <2>1
    <2>4. QED
      BY <1>2, <2>1, <2>2, <2>3
  <1>4. \A i, j \in 1 .. K : names[i] = names[j] => i = j
    BY <1>2 DEF Lists
  <1> HIDE DEF names, M, F
  <1>5. \A i \in Nat : 1 + (i % K) \in 1 .. K
    <2> HIDE DEF K
    <2> QED BY <1>3
  <1>6. ASSUME NEW i \in 1 .. M, NEW j \in 1 .. M, i % K = j % K
        PROVE  i = j
    <2> HIDE DEF K
    <2>1. i \in 1 .. K /\ j \in 1 .. K
      BY <1>2, <1>3
    <2>2. \A k \in 1 .. K : k % K = IF k = K THEN 0 ELSE k
      BY <1>3
    <2>3. QED
      BY <1>6, <2>1, <2>2
  <1>7. ASSUME NEW i \in 1 .. M, NEW j \in 1 .. M, names[1 + (i % K)] = names[1 + (j % K)]
        PROVE  i = j
    <2> DEFINE a == i % K
               b == j % K
    <2>1. i \in Nat /\ j \in Nat
      BY <1>2
    <2>2. 1 + a \in 1 .. K /\ 1 + b \in 1 .. K
      BY <1>5, <2>1
    <2>3. 1 + a = 1 + b
      <3> HIDE DEF a, b
      <3> QED BY <1>4, <1>7, <2>2 DEF a, b
    <2>4. a = b
      <3>1. a \in Int /\ b \in Int
        <4> HIDE DEF K
        <4> QED BY <1>3, <2>1
      <3> HIDE DEF a, b
      <3>2. QED
        BY <2>3, <3>1
    <2>5. QED
      BY <1>6, <2>4
  <1>8. QED
    BY <1>3, <1>5, <1>7 DEF names, M, F

\* Failed logins of one user after the other from one address, within a step
Guesses(es, n, f) ==
  LET names == Listing(Fleet \cup {User})
  IN \A i \in 1 .. n : /\ f <= es[i].ts /\ es[i].ts < f + 600 /\ es[i].type = "console_login"
                       /\ es[i].status = "failure" /\ es[i].ip = Fresh
                       /\ es[i].user = names[1 + (i % Len(names))]

\* Twenty-five are enough.
LEMMA SprayRaised ==
  ASSUME WithinReach, events \in EventSets, NEW es \in Seq(Event), NEW n \in Nat, 25 <= n, n <= Len(es),
         NEW f \in Nat, Midnight + 2 * Day <= f, Guesses(es, n, f)
  PROVE  Raised("credential_stuffing", Fresh, es)
  <1> DEFINE J == 1 .. n
             S == {Stamped(es, j) : j \in J}
             G == {e \in S : /\ e.status = "failure" /\ e.ip = Fresh
                             /\ e.type \in {"console_login", "ssh_login"}}
             T == {e.user : e \in G}
             M == StuffingMinUsers
             u(i) == Listing(Fleet \cup {User})[1 + (i % Len(Listing(Fleet \cup {User})))]
             g == [i \in J |-> u(i)]
             c == Finding("credential_stuffing", Fresh, NoUser, Fresh, G)
  <1>1. J \in SUBSET (1 .. Len(es)) /\ J # {}
    <2>1. Len(es) \in Nat /\ 1 \in J
      OBVIOUS
    <2>2. \A i \in J : i \in 1 .. Len(es)
      BY <2>1
    <2>3. QED
      BY <2>1, <2>2
  <1>2. ASSUME NEW i \in J
        PROVE  Stamped(es, i) \in G /\ Stamped(es, i).user = u(i)
    <2>1. i \in 1 .. Len(es) /\ Stamped(es, i) \in S
      BY <1>1
    <2>2. /\ es[i].type = "console_login" /\ es[i].status = "failure"
          /\ es[i].ip = Fresh /\ es[i].user = u(i)
      BY ZenonT(60) DEF Guesses
    <2> HIDE DEF u
    <2>3. /\ Stamped(es, i).type = "console_login" /\ Stamped(es, i).status = "failure"
          /\ Stamped(es, i).ip = Fresh /\ Stamped(es, i).user = u(i)
      BY <2>1, <2>2, StampedIs
    <2>4. QED
      BY <2>1, <2>3
  <1>3. G = S
    BY <1>2
  <1>4. G \in EventSets /\ Cardinality(G) = n
    <2>1. S \in EventSets /\ Cardinality(S) = Cardinality(J)
      BY <1>1, StampedFinite
    <2>2. Cardinality(J) = n
      BY FS_Interval
    <2>3. QED
      BY <1>3, <2>1, <2>2
  <1>5. Cardinality(G) >= StuffingFailures
    <2> HIDE DEF G
    <2> QED BY <1>4, ThresholdAssumption DEF WithinReach
  <1>6. Cardinality(T) >= M
    <2>1. M \in Nat /\ M <= 25
      BY ThresholdAssumption DEF WithinReach
    <2>2. ASSUME NEW i \in 1 .. M
          PROVE  g[i] \in T /\ g[i] = u(i)
      <3>1. i \in J
        BY <2>1
      <3>2. g[i] = Stamped(es, i).user /\ Stamped(es, i) \in G /\ g[i] = u(i)
        BY <1>2, <3>1
      <3> HIDE DEF g, G, u
      <3>3. QED
        BY <3>2
    <2>3. \A i, j \in 1 .. M : u(i) = u(j) => i = j
      BY NamesDiffer
    <2>4. IsFiniteSet(T)
      <3>1. [e \in G |-> e.user] \in Surjection(G, T)
        BY DEF Surjection
      <3> HIDE DEF G, T
      <3>2. IsFiniteSet(G)
        BY <1>4 DEF EventSets
      <3>3. QED
        BY <3>1, <3>2, FS_Surjection
    <2> HIDE DEF g, T, u, M
    <2>5. \A i \in 1 .. M : g[i] \in T
      BY <2>2
    <2>6. \A i, j \in 1 .. M : g[i] = g[j] => i = j
      BY <2>2, <2>3
    <2>7. M <= Cardinality(T) /\ Cardinality(T) \in Nat
      BY <2>1, <2>4, <2>5, <2>6, CountedAtLeast, ZenonT(60)
    <2>8. QED
      BY <2>1, <2>7
  <1>7. Fresh \in IPs
    BY GeneratorAssumption
  <1>8. c \in CredentialStuffing(S)
    BY <1>5, <1>6, <1>7 DEF CredentialStuffing
  <1>9. c.type = "credential_stuffing" /\ c.entity = Fresh
    BY DEF Finding
  <1> HIDE DEF c
  <1>10. c \in RuleFindings(S)
    BY <1>8 DEF RuleFindings
  <1>11. \A j \in J : f <= es[j].ts /\ es[j].ts < f + 600
    BY SMTT(60) DEF Guesses
  <1> HIDE DEF J
  <1>12. Raised(c.type, c.entity, es)
    BY <1>1, <1>10, <1>11, RaisedSoon
  <1>13. QED
    BY <1>9, <1>12

LEMMA VolumeAtLeast ==
  ASSUME NEW S \in EventSets, NEW b \in Nat, \A e \in S : e.bytes >= b
  PROVE  Volume(S) \in Nat /\ b * Cardinality(S) <= Volume(S)
  <1> DEFINE Light(T) == (\A e \in T : e.bytes >= b) /\ ~ (b * Cardinality(T) <= Volume(T))
             Bad == {n \in Nat : \E T \in EventSets : Cardinality(T) = n /\ Light(T)}
             n == Min(Bad)
  <1>1. \A T \in EventSets : Cardinality(T) \in Nat /\ Volume(T) \in Nat
    BY CountType, VolumeType
  <1>2. ASSUME Bad # {}
        PROVE  FALSE
    <2>1. n \in Bad /\ \A y \in Bad : n <= y
      <3>1. Bad \in SUBSET Nat
        OBVIOUS
      <3> HIDE DEF Bad
      <3>2. QED
        BY <1>2, <3>1, MinOfNat
    <2> HIDE DEF n
    <2>2. PICK T \in EventSets : Cardinality(T) = n /\ Light(T)
      BY <2>1
    <2>3. Cardinality(T) \in Nat /\ Volume(T) \in Nat
      BY <1>1
    <2>4. T # {}
      <3>1. CASE T = {}
        <4>1. Cardinality(T) = 0
          BY <3>1, FS_EmptySet
        <4>2. QED
          BY <2>2, <2>3, <4>1
      <3>2. QED
        BY <3>1
    <2>5. PICK e \in T : TRUE
      BY <2>4
    <2> DEFINE R == T \ {e}
    <2>6. R \in EventSets /\ Cardinality(R) = n - 1 /\ Volume(T) = e.bytes + Volume(R)
      <3>1. R \in EventSets /\ IsFiniteSet(T)
        BY EventSubset, CountType DEF EventSets
      <3>2. QED
        BY <2>2, <2>5, <3>1, FS_RemoveElement, VolumeWithout
    <2>7. n - 1 \in Nat /\ n - 1 \notin Bad /\ n \in Nat
      <3>1. n - 1 \in Nat /\ n \in Nat
        BY <1>1, <2>2, <2>6
      <3> HIDE DEF Bad
      <3>2. QED
        BY <2>1, <3>1
    <2>8. ~ Light(R)
      <3> HIDE DEF Light, R
      <3> QED BY <2>6, <2>7
    <2>9. b * (n - 1) <= Volume(R)
      <3>1. \A x \in R : x.bytes >= b
        BY <2>2
      <3> HIDE DEF R
      <3>2. QED
        BY <2>6, <2>8, <3>1
    <2>10. e.bytes >= b /\ e.bytes \in Nat /\ Volume(R) \in Nat
      <3>1. e \in Event
        BY <2>5 DEF EventSets
      <3>2. QED
        BY <1>1, <2>2, <2>5, <2>6, <3>1 DEF Event
    <2>11. b * n = b * (n - 1) + b
      BY <2>7
    <2>12. b * n <= Volume(T)
      <3> DEFINE v == Volume(R)
                 w == b * (n - 1)
      <3>1. w \in Nat /\ v \in Nat /\ w <= v /\ Volume(T) = e.bytes + v /\ b * n = w + b
        BY <2>6, <2>7, <2>9, <2>10, <2>11
      <3> HIDE DEF v, w
      <3>2. QED
        BY <2>10, <3>1
    <2>13. QED
      BY <2>2, <2>12
  <1>3. \A T \in EventSets : ~ Light(T)
    BY <1>1, <1>2
  <1>4. QED
    BY <1>1, <1>3

\* That many transfers are 150 gigabytes.
Worth(b, n) == 1500 <= b * n

\* So much in a window
Heavy(es, J, b, t) ==
  /\ J \in SUBSET (1 .. Len(es)) /\ Worth(b, Cardinality(J))
  /\ \A i \in J : /\ InWindow(es[i].ts, t) /\ es[i].type = "data_transfer"
                   /\ es[i].user = User /\ es[i].bytes >= b
  /\ \E i \in J : t < es[i].ts

LEMMA TransfersRaised ==
  ASSUME WithinReach, events \in EventSets, NEW es \in Seq(Event), NEW J, NEW b \in Nat,
         NEW t \in Nat, Aligned(t), Midnight + Day <= t, Heavy(es, J, b, t)
  PROVE  Raised("data_exfiltration", User, es)
  <1> DEFINE S == {Stamped(es, j) : j \in J}
             G == {e \in S : e.type = "data_transfer" /\ e.user = User}
             c == Finding("data_exfiltration", User, User, Earliest(G).ip, G)
             m == Cardinality(J)
  <1>1. S \in EventSets /\ Cardinality(S) = m
    BY StampedFinite DEF Heavy
  <1>2. \A e \in S : e.type = "data_transfer" /\ e.user = User /\ e.bytes >= b
    <2>1. ASSUME NEW i \in J
          PROVE  /\ Stamped(es, i).type = "data_transfer" /\ Stamped(es, i).user = User
                 /\ Stamped(es, i).bytes >= b
      <3>1. i \in 1 .. Len(es) /\ es[i].type = "data_transfer" /\ es[i].user = User /\ es[i].bytes >= b
        BY DEF Heavy
      <3>2. /\ Stamped(es, i).type = es[i].type /\ Stamped(es, i).user = es[i].user
            /\ Stamped(es, i).bytes = es[i].bytes
        BY <3>1, StampedIs
      <3>3. QED
        BY <3>1, <3>2
    <2>2. QED
      BY <2>1
  <1>3. G = S
    BY <1>2
  <1>4. Volume(G) >= ExfilBytes
    <2> HIDE DEF S
    <2>1. Volume(S) \in Nat /\ b * m <= Volume(S) /\ m \in Nat
      BY <1>1, CountType, <1>2, VolumeAtLeast
    <2>2. ExfilBytes \in Nat /\ ExfilBytes <= 1500
      BY ThresholdAssumption DEF WithinReach
    <2> DEFINE v == Volume(S)
               w == b * m
    <2>3. w \in Nat /\ v \in Nat /\ w <= v /\ 1500 <= w
      BY <2>1 DEF Heavy, Worth
    <2> HIDE DEF v, w
    <2>4. v >= ExfilBytes
      BY <2>2, <2>3
    <2> HIDE DEF G
    <2>5. QED
      BY <1>3, <2>4 DEF v
  <1>5. User \in Users
    BY GeneratorAssumption
  <1>6. c \in DataExfiltration(S)
    <2> DEFINE Moved(u) == {e \in S : e.type = "data_transfer" /\ e.user = u}
               Found(u) == Finding("data_exfiltration", u, u, Earliest(Moved(u)).ip, Moved(u))
    <2>1. DataExfiltration(S) = {Found(u) : u \in {v \in Users : Volume(Moved(v)) >= ExfilBytes}}
      BY DEF DataExfiltration, Volume
    <2>2. c = Found(User) /\ G = Moved(User)
      OBVIOUS
    <2> HIDE DEF Found, Moved, G, c
    <2>3. QED
      BY <1>4, <1>5, <2>1, <2>2
  <1>7. c.type = "data_exfiltration" /\ c.entity = User
    BY DEF Finding
  <1> HIDE DEF c
  <1>8. c \in RuleFindings(S)
    BY <1>6 DEF RuleFindings
  <1>9. Raised(c.type, c.entity, es)
    BY <1>8, RaisedAt DEF Heavy
  <1>10. QED
    BY <1>7, <1>9

\* Ten transfers 74 seconds apart do not fit the step that a window has at least
\* behind its first event: they may be found in the next window, one later.
LEMMA OneLater ==
  ASSUME WithinReach, events \in EventSets, NEW es \in Seq(Event), NEW n \in Nat, 2 <= n, n < Len(es),
         NEW f \in Nat, Midnight + 2 * Day <= f, NEW gap \in Nat, gap <= 74,
         NEW length \in Nat, length <= 592 + gap,
         NEW b \in Nat, Worth(b, n),
         \A i \in 1 .. n : f <= es[i].ts /\ es[i].ts <= f + length,
         \A i \in 2 .. n + 1 : f + gap <= es[i].ts /\ es[i].ts <= f + length + gap,
         \A i \in 1 .. n + 1 : /\ es[i].type = "data_transfer" /\ es[i].user = User
                               /\ es[i].bytes >= b
  PROVE  Raised("data_exfiltration", User, es)
  <1> DEFINE s == Truncate(f - 1)
             J == 1 .. n
             K == 2 .. n + 1
  <1>1. Midnight \in Nat /\ Step = 600
    BY GeneratorAssumption DEF WithinReach
  <1>2. f - 1 \in Nat
    BY <1>1 DEF Day, Hour
  <1>3. s \in Nat /\ Aligned(s) /\ s <= f - 1 /\ f - 1 < s + Step
    BY <1>2, TruncateBounds
  <1>4. s + Step \in Nat /\ Aligned(s + Step)
    <2> HIDE DEF s
    <2>1. s + Step \in Nat
      BY <1>1, <1>3, SMTT(60)
    <2>2. QED
      BY <1>1, <1>3, <2>1, SMTT(60) DEF Aligned
  <1> HIDE DEF s
  <1>5. Midnight + Day <= s /\ Midnight + Day <= s + Step
    BY <1>1, <1>3 DEF Day, Hour
  <1>6. n = Cardinality(J) /\ n = Cardinality(K)
    <2>1. 1 \in Int /\ 2 \in Int /\ n \in Int /\ n + 1 \in Int
      OBVIOUS
    <2>2. QED
      BY <2>1, FS_Interval
  <1>7. Worth(b, Cardinality(J)) /\ Worth(b, Cardinality(K))
    BY <1>6
  <1>8. /\ J \in SUBSET (1 .. Len(es)) /\ K \in SUBSET (1 .. Len(es)) /\ 2 \in K /\ 2 \in J
        /\ J \in SUBSET (1 .. n + 1) /\ K \in SUBSET (1 .. n + 1)
    <2>1. Len(es) \in Nat
      OBVIOUS
    <2>2. QED
      BY <2>1
  <1>9. \A i \in 1 .. Len(es) : es[i].ts \in Nat
    BY NewType
  <1>10. CASE f + length < s + 2 * Step
    <2>1. ASSUME NEW i \in J
          PROVE  InWindow(es[i].ts, s) /\ s < es[i].ts
      <3> DEFINE x == es[i].ts
      <3>1. x \in Nat /\ f <= x /\ x <= f + length
        BY <1>8, <1>9
      <3> HIDE DEF x
      <3>2. InWindow(x, s) /\ s < x
        BY <1>1, <1>3, <1>10, <3>1 DEF InWindow
      <3>3. QED
        BY <3>2 DEF x
    <2>2. \A i \in J : /\ InWindow(es[i].ts, s) /\ es[i].type = "data_transfer"
                       /\ es[i].user = User /\ es[i].bytes >= b
      BY <1>8, <2>1
    <2>3. \E i \in J : s < es[i].ts
      BY <1>8, <2>1
    <2> HIDE DEF J
    <2>4. Heavy(es, J, b, s)
      BY <1>7, <1>8, <2>2, <2>3 DEF Heavy
    <2>5. QED
      BY <1>3, <1>5, <2>4, TransfersRaised
  <1>11. CASE ~ (f + length < s + 2 * Step)
    <2>1. ASSUME NEW i \in K
          PROVE  InWindow(es[i].ts, s + Step) /\ s + Step < es[i].ts
      <3> DEFINE x == es[i].ts
      <3>1. x \in Nat /\ f + gap <= x /\ x <= f + length + gap
        BY <1>8, <1>9
      <3> HIDE DEF x
      <3>2. s + 1200 <= f + length /\ f <= s + 600
        BY <1>1, <1>3, <1>11, SMTT(60)
      <3>3. s + 608 <= f + gap /\ f + length + gap <= s + 1340
        BY <1>3, <3>2
      <3>4. InWindow(x, s + Step) /\ s + Step < x
        BY <1>1, <1>3, <3>1, <3>3 DEF InWindow
      <3>5. QED
        BY <3>4 DEF x
    <2>2. \A i \in K : /\ InWindow(es[i].ts, s + Step) /\ es[i].type = "data_transfer"
                       /\ es[i].user = User /\ es[i].bytes >= b
      BY <1>8, <2>1
    <2>3. \E i \in K : s + Step < es[i].ts
      BY <1>8, <2>1
    <2> HIDE DEF K
    <2>4. Heavy(es, K, b, s + Step)
      BY <1>7, <1>8, <2>2, <2>3 DEF Heavy
    <2>5. QED
      BY <1>4, <1>5, <2>4, TransfersRaised
  <1>12. QED
    BY <1>10, <1>11

-----------------------------------------------------------------------------
(* What an attack makes *)

\* An instant with the two hours after it, after the third day
InDay(ts) ==
  /\ ts \in Nat /\ Midnight + 3 * Day - Max({zone, 0}) * 60 <= ts
  /\ ts + 7200 <= Midnight + (Days + 1) * Day /\ Midnight + 2 * Day <= ts

LEMMA LocalInDay ==
  ASSUME UserOK, NEW day \in AttackDays, NEW hour \in Nat, hour <= 15, NEW minute \in Nat, minute <= 59
  PROVE  InDay(LocalTS(day, hour, minute))
  <1>1. day \in Nat /\ 3 <= day /\ day <= Days - 1 /\ Days \in Nat
    BY GeneratorAssumption DEF AttackDays
  <1>2. Max({zone, 0}) = IF zone <= 0 THEN 0 ELSE zone
    BY ZoneEast
  <1>3. day * Day >= 3 * Day /\ day * Day <= (Days - 1) * Day
    BY <1>1 DEF Day, Hour
  <1> DEFINE m == Max({zone, 0})
             d == day * Day
             e == (Days - 1) * Day
             ts == LocalTS(day, hour, minute)
  <1>4. /\ m \in Nat /\ zone \in Int /\ -480 <= zone /\ zone <= m /\ m <= 540
        /\ Midnight \in Nat /\ Midnight >= 24 * 3600
    BY <1>2, GeneratorAssumption DEF UserOK
  <1>5. d \in Nat /\ e \in Nat /\ 3 * Day <= d /\ d <= e /\ (Days + 1) * Day = e + 2 * Day
    BY <1>1, <1>3 DEF Day, Hour
  <1>6. ts = Midnight + d + hour * 3600 + minute * 60 - zone * 60
    BY DEF Hour, LocalTS
  <1> HIDE DEF m, d, e, ts
  <1>7. /\ ts \in Nat /\ Midnight + 3 * Day - m * 60 <= ts
        /\ ts + 7200 <= Midnight + (Days + 1) * Day /\ Midnight + 2 * Day <= ts
    BY <1>4, <1>5, <1>6 DEF Day, Hour
  <1>8. InDay(ts)
    BY <1>7 DEF InDay, m
  <1>9. QED
    BY <1>8 DEF ts

LEMMA InUTCDay ==
  ASSUME UserOK, NEW day \in AttackDays, NEW hour \in Nat, hour <= 23, NEW minute \in Nat, minute <= 59
  PROVE  InDay(Midnight + day * Day + hour * Hour + minute * 60)
  <1>1. day \in Nat /\ 3 <= day /\ day <= Days - 1 /\ Days \in Nat
    BY GeneratorAssumption DEF AttackDays
  <1>2. Max({zone, 0}) = IF zone <= 0 THEN 0 ELSE zone
    BY ZoneEast
  <1>3. day * Day >= 3 * Day /\ day * Day <= (Days - 1) * Day
    BY <1>1 DEF Day, Hour
  <1> DEFINE m == Max({zone, 0})
             d == day * Day
             e == (Days - 1) * Day
             ts == Midnight + day * Day + hour * Hour + minute * 60
  <1>4. /\ m \in Nat /\ zone \in Int /\ -480 <= zone /\ zone <= m /\ m <= 540
        /\ Midnight \in Nat /\ Midnight >= 24 * 3600
    BY <1>2, GeneratorAssumption DEF UserOK
  <1>5. d \in Nat /\ e \in Nat /\ 3 * Day <= d /\ d <= e /\ (Days + 1) * Day = e + 2 * Day
    BY <1>1, <1>3 DEF Day, Hour
  <1>6. ts = Midnight + d + hour * 3600 + minute * 60
    BY DEF Hour
  <1> HIDE DEF m, d, e, ts
  <1>7. /\ ts \in Nat /\ Midnight + 3 * Day - m * 60 <= ts
        /\ ts + 7200 <= Midnight + (Days + 1) * Day /\ Midnight + 2 * Day <= ts
    BY <1>4, <1>5, <1>6 DEF Day, Hour
  <1>8. InDay(ts)
    BY <1>7 DEF InDay, m
  <1>9. QED
    BY <1>8 DEF ts

LEMMA DrawnIn ==
  ASSUME NEW x, NEW low \in Nat, NEW high \in Nat, low <= high
  PROVE  Draw(x, low, high) \in Nat /\ low <= Draw(x, low, high) /\ Draw(x, low, high) <= high
  BY DEF Draw

\* Rows of those two hours
Placed(es, pause) ==
  /\ pause \in Nat /\ es \in Seq(Event) /\ Len(es) > 0
  /\ \E a, b \in Nat :
       /\ Between(es, a, b)
       /\ Midnight + 3 * Day - Max({zone, 0}) * 60 <= a
       /\ b + pause <= Midnight + (Days + 1) * Day

\* Events of a user or of an address; those that a rule is about are raised.
Made(type, entity) ==
  \E es, pause :
    /\ Placed(es, pause) /\ Make(type, entity, es, pause)
    /\ WithinReach /\ type \in RuleTypes => Raised(type, entity, es)

LEMMA PlacedIn ==
  ASSUME NEW ts, InDay(ts), NEW pause \in Nat, pause <= 7200, NEW es \in Seq(Event), Len(es) > 0,
         \A i \in 1 .. Len(es) : ts <= es[i].ts /\ es[i].ts + pause <= ts + 7200
  PROVE  Placed(es, pause)
  <1> DEFINE e == Midnight + (Days + 1) * Day
             b == ts + 7200 - pause
  <1>1. ts \in Nat /\ e \in Nat /\ ts + 7200 <= e
    BY GeneratorAssumption DEF InDay, Day, Hour
  <1> HIDE DEF e
  <1>2. b \in Nat /\ b + pause <= e
    BY <1>1
  <1>3. ASSUME NEW i \in 1 .. Len(es)
        PROVE  ts <= es[i].ts /\ es[i].ts <= b
    <2> DEFINE t == es[i].ts
    <2>1. t \in Nat
      <3>1. es[i] \in Event
        OBVIOUS
      <3>2. QED
        BY <3>1, SMTT(60) DEF Event
    <2>2. ts <= t /\ t + pause <= ts + 7200
      OBVIOUS
    <2> HIDE DEF t
    <2>3. t <= b
      BY <1>1, <2>1, <2>2
    <2>4. QED
      BY <2>2, <2>3 DEF t
  <1>4. Between(es, ts, b)
    BY <1>3 DEF Between
  <1> HIDE DEF b
  <1>5. QED
    BY <1>1, <1>2, <1>4 DEF Placed, InDay, e

LEMMA PrivEscMade ==
  ASSUME TypesInv, AttackPrivEsc
  PROVE  Made("privilege_escalation", User)
  <1>1. PICK x \in Extremes, y \in Extremes, day \in AttackDays :
          LET ts == LocalTS(day, workStart + Draw(x, 0, 5), Draw(x, 0, 59))
              Grant(status, t) == PermissionChange(t, UserIP(y), User, TRUE, status)
          IN Make("privilege_escalation", User,
                  IF x = "low" THEN <<Grant("success", ts)>>
                  ELSE <<Grant("denied", ts), Grant("success", ts + Draw(y, 20, 109))>>, 0)
    BY DEF AttackPrivEsc
  <1> DEFINE hour == workStart + Draw(x, 0, 5)
             minute == Draw(x, 0, 59)
             gap == Draw(y, 20, 109)
             ts == LocalTS(day, hour, minute)
             Grant(status, t) == PermissionChange(t, UserIP(y), User, TRUE, status)
             es == IF x = "low" THEN <<Grant("success", ts)>>
                   ELSE <<Grant("denied", ts), Grant("success", ts + gap)>>
             n == IF x = "low" THEN 1 ELSE 2
  <1>2. /\ UserOK /\ hour \in Nat /\ hour <= 15 /\ minute \in Nat /\ minute <= 59
        /\ gap \in Nat /\ gap <= 109
    <2>1. UserOK /\ workStart \in 7 .. 9
      BY DEF TypesInv, UserOK
    <2>2. QED
      BY <2>1, DrawnIn
  <1>3. InDay(ts)
    BY <1>2, LocalInDay
  <1>4. \A status \in {"success", "denied"}, t \in Nat :
          /\ Grant(status, t) \in Event /\ Grant(status, t).ts = t
          /\ Grant(status, t).type = "permission_change" /\ Grant(status, t).status = status
          /\ Grant(status, t).user = User /\ Grant(status, t).target = User
          /\ Grant(status, t).elevated
    <2>1. UserIP(y) \in IPs /\ User \in Users
      BY <1>2, UserIPType, GeneratorAssumption
    <2>2. \A status \in {"success", "denied"}, t \in Nat : Grant(status, t) \in Event
      BY <2>1, RowTypes
    <2>3. QED
      BY <2>2 DEF PermissionChange, LogEvent
  <1>5. Make("privilege_escalation", User, es, 0)
    BY <1>1
  <1> HIDE DEF ts, gap, Grant, hour, minute
  <1>6. /\ es \in Seq(Event) /\ Len(es) > 0 /\ n \in 1 .. Len(es)
        /\ \A i \in 1 .. Len(es) : ts <= es[i].ts /\ es[i].ts + 0 <= ts + 7200
        /\ ts \in Nat /\ es[n].ts \in Nat /\ es[n] = Grant("success", es[n].ts)
    <2>1. ts \in Nat /\ ts + gap \in Nat
      BY <1>2, <1>3 DEF InDay
    <2> DEFINE G(t) == Grant("success", t)
               D(t) == Grant("denied", t)
    <2>2. \A t \in Nat : /\ G(t) \in Event /\ G(t).ts = t /\ D(t) \in Event /\ D(t).ts = t
      BY <1>4
    <2>3. es = (IF x = "low" THEN <<G(ts)>> ELSE <<D(ts), G(ts + gap)>>)
      OBVIOUS
    <2> HIDE DEF es, G, D
    <2>4. CASE x = "low"
      <3>1. es = <<G(ts)>> /\ n = 1
        BY <2>3, <2>4
      <3>2. es \in Seq(Event) /\ Len(es) = 1 /\ es[1] = G(ts) /\ G(ts).ts = ts
        BY <2>1, <2>2, <3>1
      <3>3. es[n] = Grant("success", es[n].ts)
        BY <3>1, <3>2 DEF G
      <3>4. QED
        BY <1>2, <2>1, <3>1, <3>2, <3>3
    <2>5. CASE x # "low"
      <3>1. es = <<D(ts), G(ts + gap)>> /\ n = 2
        BY <2>3, <2>5
      <3>2. /\ es \in Seq(Event) /\ Len(es) = 2 /\ es[1] = D(ts) /\ es[2] = G(ts + gap)
            /\ D(ts).ts = ts /\ G(ts + gap).ts = ts + gap
        BY <2>1, <2>2, <3>1
      <3>3. es[n] = Grant("success", es[n].ts)
        BY <3>1, <3>2 DEF G
      <3>4. QED
        BY <1>2, <2>1, <3>1, <3>2, <3>3
    <2>6. QED
      BY <2>4, <2>5
  <1> HIDE DEF es, n
  <1>7. Placed(es, 0)
    <2> DEFINE p == 0
    <2>1. p \in Nat /\ p <= 7200 /\ Len(es) > 0
      BY <1>6
    <2>2. \A i \in 1 .. Len(es) : ts <= es[i].ts /\ es[i].ts + p <= ts + 7200
      BY <1>6
    <2> HIDE DEF p
    <2>3. Placed(es, p)
      BY <1>3, <1>6, <2>1, <2>2, PlacedIn, SMTT(30)
    <2>4. QED
      BY <2>3 DEF p
  <1>8. ASSUME WithinReach
        PROVE  Raised("privilege_escalation", User, es)
    <2>1. Midnight + 2 * Day <= es[n].ts
      <3> DEFINE z == Midnight + 2 * Day
      <3>1. z \in Nat /\ z <= ts
        BY <1>3, GeneratorAssumption DEF Day, Hour, InDay
      <3> HIDE DEF z
      <3>2. z <= es[n].ts
        BY <1>6, <3>1
      <3>3. QED
        BY <3>2 DEF z
    <2>2. /\ es[n].type = "permission_change" /\ es[n].status = "success"
          /\ es[n].user = User /\ es[n].target = User /\ es[n].elevated
      BY <1>4, <1>6
    <2>3. QED
      BY <1>6, <1>8, <2>1, <2>2, GrantRaised DEF TypesInv
  <1>9. QED
    BY <1>5, <1>7, <1>8 DEF Made

LEMMA RowsAre ==
  ASSUME NEW n \in Nat, NEW es \in [1 .. n -> Event]
  PROVE  es \in Seq(Event) /\ Len(es) = n
  <1>1. es \in Seq(Event)
    BY SeqDef
  <1>2. Len(es) \in Nat /\ 1 .. Len(es) = 1 .. n
    BY <1>1, LenProperties
  <1>3. QED
    BY <1>1, <1>2

\* That many events, and a pause after them, take two hours at most.
Short(n, gap, pause) == (n - 1) * gap + pause <= 7200

\* At equal distances
LEMMA BurstRows ==
  ASSUME NEW ts, InDay(ts), NEW n \in Nat, 1 <= n, NEW gap \in Nat, NEW pause \in Nat,
         Short(n, gap, pause), NEW es \in [1 .. n -> Event],
         \A i \in 1 .. n : es[i].ts = ts + (i - 1) * gap
  PROVE  es \in Seq(Event) /\ Len(es) = n /\ Placed(es, pause)
  <1> DEFINE w == (n - 1) * gap
  <1>1. n - 1 \in Nat /\ w \in Nat /\ w + pause <= 7200 /\ ts \in Nat
    BY DEF InDay, Short
  <1>2. es \in Seq(Event) /\ Len(es) = n
    BY RowsAre
  <1>3. ASSUME NEW i \in 1 .. n
        PROVE  ts <= es[i].ts /\ es[i].ts + pause <= ts + 7200
    <2> DEFINE d == (i - 1) * gap
    <2>1. i - 1 \in Nat /\ i - 1 <= n - 1 /\ gap <= gap
      OBVIOUS
    <2>2. d \in Nat /\ d <= w
      BY <1>1, <2>1, Product
    <2>3. es[i].ts = ts + d
      OBVIOUS
    <2> HIDE DEF d, w
    <2>4. QED
      BY <1>1, <2>2, <2>3
  <1>4. Len(es) > 0 /\ pause <= 7200
    <2> HIDE DEF w
    <2> QED BY <1>1, <1>2
  <1>5. \A i \in 1 .. Len(es) : ts <= es[i].ts /\ es[i].ts + pause <= ts + 7200
    BY <1>2, <1>3
  <1>6. Placed(es, pause)
    BY <1>2, <1>4, <1>5, PlacedIn, SMTT(60)
  <1>7. QED
    BY <1>2, <1>6

LEMMA Ticks ==
  ASSUME NEW ts \in Nat, NEW n \in Nat, NEW gap \in Nat
  PROVE  \A i \in 1 .. n : ts + (i - 1) * gap \in Nat
  <1>1. \A i \in 1 .. n : (i - 1) * gap \in Nat
    OBVIOUS
  <1>2. QED
    BY <1>1

\* The hours of an attack
LEMMA AttackHour ==
  ASSUME TypesInv, NEW x, NEW y, NEW m \in {0, 49, 59}, NEW l \in {4, 5, 6}, NEW day \in AttackDays
  PROVE  /\ InDay(LocalTS(day, workStart + Draw(x, 0, l), Draw(x, 0, m)))
         /\ InDay(LocalTS(day, workStart + 1 + Draw(x, 0, 4), Draw(x, 0, m)))
         /\ InDay(LocalTS(day, 2, Draw(x, 0, m)))
         /\ UserIP(y) \in IPs /\ User \in Users /\ events \in EventSets
  <1>1. UserOK /\ workStart \in Nat /\ workStart <= 9 /\ events \in EventSets
    BY DEF TypesInv, UserOK
  <1>2. /\ Draw(x, 0, l) \in Nat /\ Draw(x, 0, l) <= l
        /\ Draw(x, 0, 4) \in Nat /\ Draw(x, 0, 4) <= 4
    BY DrawnIn
  <1>3. Draw(x, 0, m) \in Nat /\ Draw(x, 0, m) <= 59
    BY DrawnIn
  <1>4. /\ workStart + 1 + Draw(x, 0, 4) \in Nat /\ workStart + 1 + Draw(x, 0, 4) <= 15
        /\ workStart + Draw(x, 0, l) \in Nat /\ workStart + Draw(x, 0, l) <= 15
    BY <1>1, <1>2
  <1>5. 2 \in Nat /\ 2 <= 15
    OBVIOUS
  <1>6. QED
    BY <1>1, <1>3, <1>4, <1>5, LocalInDay, UserIPType, GeneratorAssumption

LEMMA SecretLeaks == ASSUME NEW i \in Nat PROVE ClassifyMessage(LeakedMessage(i)) # {}
  <1> DEFINE f == <<"aws", "uri", "stripe_live">>[1 + ((i - 1) % 3)]
             k == RealSecret(f)
  <1>1. (i - 1) % 3 \in 0 .. 2
    OBVIOUS
  <1>2. f = "aws" \/ f = "uri" \/ f = "stripe_live"
    BY <1>1
  <1>3. LeakedMessage(i) = {k}
    BY DEF LeakedMessage
  <1> HIDE DEF f
  <1>4. ByForm(k) # {}
    BY <1>2 DEF RealSecret, ByForm, LooksLive, Placeholder
  <1> HIDE DEF k
  <1>5. QED
    BY <1>3, <1>4 DEF ClassifyMessage

LEMMA OffHoursMade ==
  ASSUME TypesInv, AttackOffHours
  PROVE  Made("off_hours_access", User)
  <1>1. PICK x \in Extremes, y \in Extremes, day \in AttackDays :
          Make("off_hours_access", User,
               Burst(1 + Draw(x, 3, 7), LocalTS(day, 2, Draw(x, 0, 49)), Draw(y, 60, 559),
                     LAMBDA i, ts : IF i = 1 THEN ConsoleLogin(User, ts, Home, TRUE)
                                    ELSE APICall(User, ts, Home, TRUE)), 0)
    BY ZenonT(60) DEF AttackOffHours
  <1> DEFINE n == 1 + Draw(x, 3, 7)
             gap == Draw(y, 60, 559)
             ts == LocalTS(day, 2, Draw(x, 0, 49))
             Row(i, t) == IF i = 1 THEN ConsoleLogin(User, t, Home, TRUE)
                          ELSE APICall(User, t, Home, TRUE)
             es == [i \in 1 .. n |-> Row(i, ts + (i - 1) * gap)]
  <1>2. n \in Nat /\ 1 <= n /\ gap \in Nat /\ Short(n, gap, 0)
    <2>1. (n = 4 \/ n = 8) /\ (gap = 60 \/ gap = 559)
      BY DEF Draw
    <2> HIDE DEF n, gap
    <2>2. QED
      BY <2>1 DEF Short
  <1>3. InDay(ts) /\ User \in Users
    BY AttackHour
  <1>4. \A i, t \in Nat : Row(i, t) \in Event /\ Row(i, t).ts = t
    <2>1. Home \in IPs
      BY GeneratorAssumption
    <2>2. \A t \in Nat : ConsoleLogin(User, t, Home, TRUE) \in Event /\ APICall(User, t, Home, TRUE) \in Event
      BY <1>3, <2>1, RowTypes
    <2>3. QED
      BY <2>2 DEF ConsoleLogin, APICall, LogEvent
  <1>5. Make("off_hours_access", User, es, 0)
    BY <1>1 DEF Burst
  <1> HIDE DEF ts, gap, Row, n
  <1>6. \A i \in 1 .. n : es[i] \in Event /\ es[i].ts = ts + (i - 1) * gap
    <2>1. \A i \in 1 .. n : ts + (i - 1) * gap \in Nat
      BY <1>2, <1>3, Ticks DEF InDay
    <2>2. \A i \in 1 .. n : es[i] = Row(i, ts + (i - 1) * gap) /\ i \in Nat
      OBVIOUS
    <2> HIDE DEF es
    <2>3. QED
      BY <1>4, <2>1, <2>2
  <1>7. es \in [1 .. n -> Event]
    BY <1>6
  <1> HIDE DEF es
  <1>8. Placed(es, 0)
    <2>1. 0 \in Nat
      OBVIOUS
    <2>2. QED
      BY <1>2, <1>3, <1>6, <1>7, <2>1, BurstRows
  <1>9. "off_hours_access" \notin RuleTypes
    BY DEF RuleTypes
  <1>10. QED
    BY <1>5, <1>8, <1>9 DEF Made

LEMMA LeakMade ==
  ASSUME TypesInv, AttackSecretLeak
  PROVE  Made("sensitive_data_exposure", User)
  <1>1. PICK x \in Extremes, y \in Extremes, day \in AttackDays :
          Make("sensitive_data_exposure", User,
               Burst(Draw(x, 1, 3), LocalTS(day, workStart + Draw(x, 0, 6), Draw(x, 0, 59)),
                     Draw(y, 30, 329), LAMBDA i, ts : AppLog(ts, LeakedMessage(i))), 0)
    BY ZenonT(60) DEF AttackSecretLeak
  <1> DEFINE n == Draw(x, 1, 3)
             gap == Draw(y, 30, 329)
             ts == LocalTS(day, workStart + Draw(x, 0, 6), Draw(x, 0, 59))
             Row(i, t) == AppLog(t, LeakedMessage(i))
             es == [i \in 1 .. n |-> Row(i, ts + (i - 1) * gap)]
  <1>2. n \in Nat /\ 1 <= n /\ gap \in Nat /\ Short(n, gap, 0)
    <2>1. (n = 1 \/ n = 3) /\ (gap = 30 \/ gap = 329)
      BY DEF Draw
    <2> HIDE DEF n, gap
    <2>2. QED
      BY <2>1 DEF Short
  <1>3. InDay(ts) /\ User \in Users /\ events \in EventSets
    BY AttackHour
  <1>4. \A i, t \in Nat : /\ Row(i, t) \in Event /\ Row(i, t).ts = t
                          /\ Row(i, t).user = User /\ Row(i, t).leaks # {}
    <2>1. Home \in IPs
      BY GeneratorAssumption
    <2>2. \A i, t \in Nat : Row(i, t) \in Event
      BY <2>1, RowTypes
    <2>3. QED
      BY <2>2, SecretLeaks DEF AppLog, LogEvent
  <1>5. Make("sensitive_data_exposure", User, es, 0)
    BY <1>1 DEF Burst
  <1> HIDE DEF ts, gap, Row, n
  <1>6. \A i \in 1 .. n : /\ es[i] \in Event /\ es[i].ts = ts + (i - 1) * gap
                          /\ es[i].user = User /\ es[i].leaks # {}
    <2>1. \A i \in 1 .. n : ts + (i - 1) * gap \in Nat
      BY <1>2, <1>3, Ticks DEF InDay
    <2>2. \A i \in 1 .. n : es[i] = Row(i, ts + (i - 1) * gap) /\ i \in Nat
      OBVIOUS
    <2> HIDE DEF es
    <2>3. QED
      BY <1>4, <2>1, <2>2
  <1>7. es \in [1 .. n -> Event]
    BY <1>6
  <1> HIDE DEF es
  <1>8. Placed(es, 0) /\ es \in Seq(Event) /\ Len(es) = n
    <2>1. 0 \in Nat /\ \A i \in 1 .. n : es[i].ts = ts + (i - 1) * gap
      BY <1>6
    <2>2. QED
      BY <1>2, <1>3, <1>7, <2>1, BurstRows
  <1>9. ASSUME WithinReach
        PROVE  Raised("sensitive_data_exposure", User, es)
    <2>1. 1 \in 1 .. n /\ es[1].ts = ts
      <3>1. 1 \in 1 .. n /\ (1 - 1) * gap = 0
        BY <1>2
      <3>2. ts \in Nat
        BY <1>3 DEF InDay
      <3>3. QED
        BY <1>6, <3>1, <3>2
    <2>2. Midnight + 2 * Day <= es[1].ts
      BY <1>3, <2>1 DEF InDay
    <2>3. QED
      BY <1>3, <1>6, <1>8, <1>9, <2>1, <2>2, LeakRaised
  <1>10. QED
    BY <1>5, <1>8, <1>9 DEF Made

LEMMA LocationMade ==
  ASSUME TypesInv, AttackNewLocation
  PROVE  Made("identity_anomaly", User)
  <1>1. PICK x \in Extremes, y \in Extremes, day \in AttackDays :
          Make("identity_anomaly", User,
               Burst(1 + Draw(y, 2, 4), LocalTS(day, workStart + 1 + Draw(x, 0, 4), Draw(x, 0, 59)),
                     Draw(y, 40, 239),
                     LAMBDA i, ts : IF i = 1 THEN ConsoleLogin(User, ts, Fresh, TRUE)
                                    ELSE APICall(User, ts, Fresh, TRUE)), 0)
    BY DEF AttackNewLocation
  <1> DEFINE n == 1 + Draw(y, 2, 4)
             gap == Draw(y, 40, 239)
             ts == LocalTS(day, workStart + 1 + Draw(x, 0, 4), Draw(x, 0, 59))
             Row(i, t) == IF i = 1 THEN ConsoleLogin(User, t, Fresh, TRUE)
                          ELSE APICall(User, t, Fresh, TRUE)
             es == [i \in 1 .. n |-> Row(i, ts + (i - 1) * gap)]
  <1>2. n \in Nat /\ 1 <= n /\ gap \in Nat /\ Short(n, gap, 0)
    <2>1. (n = 3 \/ n = 5) /\ (gap = 40 \/ gap = 239)
      BY DEF Draw
    <2> HIDE DEF n, gap
    <2>2. QED
      BY <2>1 DEF Short
  <1>3. InDay(ts) /\ User \in Users
    BY AttackHour
  <1>4. \A i, t \in Nat : Row(i, t) \in Event /\ Row(i, t).ts = t
    <2>1. Fresh \in IPs
      BY GeneratorAssumption
    <2>2. \A t \in Nat : ConsoleLogin(User, t, Fresh, TRUE) \in Event /\ APICall(User, t, Fresh, TRUE) \in Event
      BY <1>3, <2>1, RowTypes
    <2>3. QED
      BY <2>2 DEF ConsoleLogin, APICall, LogEvent
  <1>5. Make("identity_anomaly", User, es, 0)
    BY <1>1 DEF Burst
  <1> HIDE DEF ts, gap, Row, n
  <1>6. \A i \in 1 .. n : es[i] \in Event /\ es[i].ts = ts + (i - 1) * gap
    <2>1. \A i \in 1 .. n : ts + (i - 1) * gap \in Nat
      BY <1>2, <1>3, Ticks DEF InDay
    <2>2. \A i \in 1 .. n : es[i] = Row(i, ts + (i - 1) * gap) /\ i \in Nat
      OBVIOUS
    <2> HIDE DEF es
    <2>3. QED
      BY <1>4, <2>1, <2>2
  <1>7. es \in [1 .. n -> Event]
    BY <1>6
  <1> HIDE DEF es
  <1>8. Placed(es, 0)
    <2>1. 0 \in Nat
      OBVIOUS
    <2>2. QED
      BY <1>2, <1>3, <1>6, <1>7, <2>1, BurstRows
  <1>9. "identity_anomaly" \notin RuleTypes
    BY DEF RuleTypes
  <1>10. QED
    BY <1>5, <1>8, <1>9 DEF Made

LEMMA LateralMade ==
  ASSUME TypesInv, AttackLateral
  PROVE  Made("lateral_movement", User)
  <1>1. PICK x \in Extremes, y \in Extremes, day \in AttackDays :
          Make("lateral_movement", User,
               Burst(Draw(x, 8, 14), LocalTS(day, workStart + 1 + Draw(x, 0, 4), Draw(x, 0, 59)),
                     Draw(y, 20, 99), LAMBDA i, ts : SSHLogin(ts, UserIP(x), Listing(Hosts)[i])),
               Draw(y, 20, 99))
    BY DEF AttackLateral
  <1> DEFINE n == Draw(x, 8, 14)
             gap == Draw(y, 20, 99)
             ts == LocalTS(day, workStart + 1 + Draw(x, 0, 4), Draw(x, 0, 59))
             h(i) == Listing(Hosts)[i]
             Row(i, t) == SSHLogin(t, UserIP(x), h(i))
             es == [i \in 1 .. n |-> Row(i, ts + (i - 1) * gap)]
  <1>2. n \in Nat /\ 8 <= n /\ n <= 14 /\ gap \in Nat /\ gap <= 99 /\ Short(n, gap, gap)
    <2>1. (n = 8 \/ n = 14) /\ (gap = 20 \/ gap = 99)
      BY DEF Draw
    <2> HIDE DEF n, gap
    <2>2. QED
      BY <2>1 DEF Short
  <1>3. InDay(ts) /\ User \in Users /\ UserIP(x) \in IPs /\ events \in EventSets
    BY AttackHour
  <1>4. \A i \in 1 .. n : h(i) \in Hosts
    <2>1. Lists(Listing(Hosts), Hosts) /\ Cardinality(Hosts) >= 14 /\ Cardinality(Hosts) \in Nat
      BY ListingIs, GeneratorAssumption, FS_CardinalityType
    <2>2. Listing(Hosts) \in Seq(Hosts) /\ Len(Listing(Hosts)) = Cardinality(Hosts)
      BY <2>1 DEF Lists
    <2> HIDE DEF n
    <2>3. \A i \in 1 .. n : i \in 1 .. Len(Listing(Hosts))
      BY <1>2, <2>1, <2>2
    <2>4. QED
      BY <2>2, <2>3
  <1>5. \A i \in 1 .. n, t \in Nat :
          /\ Row(i, t) \in Event /\ Row(i, t).ts = t /\ Row(i, t).type = "ssh_login"
          /\ Row(i, t).status = "success" /\ Row(i, t).user = User /\ Row(i, t).host = h(i)
    <2>1. \A i \in 1 .. n, t \in Nat : Row(i, t) \in Event
      BY <1>3, <1>4, RowTypes
    <2>2. QED
      BY <2>1 DEF SSHLogin, LogEvent
  <1>6. Make("lateral_movement", User, es, gap)
    BY <1>1 DEF Burst
  <1> HIDE DEF ts, gap, Row, n, h
  <1>7. \A i \in 1 .. n :
          /\ es[i] \in Event /\ es[i].ts = ts + (i - 1) * gap /\ es[i].type = "ssh_login"
          /\ es[i].status = "success" /\ es[i].user = User /\ es[i].host = h(i)
    <2>1. \A i \in 1 .. n : ts + (i - 1) * gap \in Nat
      BY <1>2, <1>3, Ticks DEF InDay
    <2>2. \A i \in 1 .. n : es[i] = Row(i, ts + (i - 1) * gap)
      OBVIOUS
    <2> HIDE DEF es
    <2>3. QED
      BY <1>5, <2>1, <2>2
  <1>8. es \in [1 .. n -> Event]
    BY <1>7
  <1> HIDE DEF es
  <1>9. Placed(es, gap) /\ es \in Seq(Event) /\ Len(es) = n
    <2>1. 1 <= n /\ \A i \in 1 .. n : es[i].ts = ts + (i - 1) * gap
      BY <1>2, <1>7
    <2>2. QED
      BY <1>2, <1>3, <1>8, <2>1, BurstRows
  <1>10. ASSUME WithinReach
         PROVE  Raised("lateral_movement", User, es)
    <2>1. ts \in Nat /\ Midnight + 2 * Day <= ts
      BY <1>3 DEF InDay
    <2>2. ASSUME NEW i \in 1 .. 7
          PROVE  /\ ts <= es[i].ts /\ es[i].ts < ts + 600 /\ es[i].type = "ssh_login"
                 /\ es[i].status = "success" /\ es[i].user = User
                 /\ es[i].host = Listing(Hosts)[i]
      <3> DEFINE d == (i - 1) * gap
      <3>1. i \in 1 .. n /\ i - 1 \in Nat /\ i - 1 <= 6 /\ 6 \in Nat /\ 99 \in Nat
        BY <1>2
      <3>2. d \in Nat /\ d <= 6 * 99
        BY <1>2, <3>1, Product
      <3>3. es[i].ts = ts + d
        BY <1>7, <3>1
      <3> HIDE DEF d
      <3>4. ts <= es[i].ts /\ es[i].ts < ts + 600
        BY <2>1, <3>2, <3>3
      <3>5. QED
        BY <1>7, <3>1, <3>4 DEF h
    <2>3. Len(es) >= 7
      BY <1>2, <1>9
    <2>4. QED
      BY <1>3, <1>9, <1>10, <2>1, <2>2, <2>3, HopsRaised
  <1>11. QED
    BY <1>6, <1>9, <1>10 DEF Made

LEMMA ExfilMade ==
  ASSUME TypesInv, AttackExfil
  PROVE  Made("data_exfiltration", User)
  <1>1. PICK x \in Extremes, y \in Extremes, day \in AttackDays :
          LET n == Draw(x, 8, 24)
          IN Make("data_exfiltration", User,
                  Burst(n, LocalTS(day, workStart + Draw(x, 0, 5), Draw(x, 0, 59)), Draw(y, 15, 74),
                        LAMBDA i, ts : DataTransfer(ts, UserIP(x), 4000 \div n)),
                  Draw(y, 15, 74))
    BY ZenonT(60) DEF AttackExfil
  <1> DEFINE n == Draw(x, 8, 24)
             gap == Draw(y, 15, 74)
             ts == LocalTS(day, workStart + Draw(x, 0, 5), Draw(x, 0, 59))
             b == 4000 \div n
             Row(i, t) == DataTransfer(t, UserIP(x), b)
             es == [i \in 1 .. n |-> Row(i, ts + (i - 1) * gap)]
             p == IF n = 8 THEN 7 ELSE 10
  <1>2. /\ n \in Nat /\ 8 <= n /\ gap \in Nat /\ gap <= 74 /\ Short(n, gap, gap)
        /\ p \in Nat /\ 2 <= p /\ p < n /\ (p - 1) * gap <= 592 + gap /\ b \in Nat /\ Worth(b, p)
    <2>1. (n = 8 \/ n = 24) /\ (gap = 15 \/ gap = 74)
      BY DEF Draw
    <2> HIDE DEF n, gap
    <2>2. CASE n = 8
      <3>1. p = 7 /\ b = 500
        BY <2>2
      <3> HIDE DEF p, b
      <3>2. QED
        BY <2>1, <2>2, <3>1 DEF Worth, Short
    <2>3. CASE n = 24
      <3>1. p = 10 /\ b = 166
        BY <2>3
      <3> HIDE DEF p, b
      <3>2. QED
        BY <2>1, <2>3, <3>1 DEF Worth, Short
    <2>4. QED
      BY <2>1, <2>2, <2>3
  <1>3. InDay(ts) /\ User \in Users /\ UserIP(x) \in IPs /\ events \in EventSets
    BY AttackHour
  <1>4. Make("data_exfiltration", User, es, gap)
    BY <1>1 DEF Burst
  <1> HIDE DEF ts, gap, n, p, b
  <1>5. \A i, t \in Nat :
          /\ Row(i, t) \in Event /\ Row(i, t).ts = t /\ Row(i, t).type = "data_transfer"
          /\ Row(i, t).user = User /\ Row(i, t).bytes = b
    <2>1. \A i, t \in Nat : Row(i, t) \in Event
      BY <1>2, <1>3, RowTypes
    <2>2. QED
      BY <2>1 DEF DataTransfer, LogEvent
  <1> HIDE DEF Row
  <1>6. \A i \in 1 .. n : /\ es[i] \in Event /\ es[i].ts = ts + (i - 1) * gap
                          /\ es[i].type = "data_transfer" /\ es[i].user = User /\ es[i].bytes = b
    <2>1. \A i \in 1 .. n : ts + (i - 1) * gap \in Nat
      BY <1>2, <1>3, Ticks DEF InDay
    <2>2. \A i \in 1 .. n : es[i] = Row(i, ts + (i - 1) * gap) /\ i \in Nat
      OBVIOUS
    <2> HIDE DEF es
    <2>3. QED
      BY <1>5, <2>1, <2>2
  <1>7. es \in [1 .. n -> Event]
    BY <1>6
  <1> HIDE DEF es
  <1>8. Placed(es, gap) /\ es \in Seq(Event) /\ Len(es) = n
    <2>1. 1 <= n /\ \A i \in 1 .. n : es[i].ts = ts + (i - 1) * gap
      BY <1>2, <1>6
    <2>2. QED
      BY <1>2, <1>3, <1>7, <2>1, BurstRows
  <1>9. ASSUME WithinReach
        PROVE  Raised("data_exfiltration", User, es)
    <2> DEFINE length == (p - 1) * gap
    <2>1. ts \in Nat /\ Midnight + 2 * Day <= ts
      BY <1>3 DEF InDay
    <2>2. length \in Nat /\ length <= 592 + gap /\ p * gap = length + gap
      BY <1>2
    <2>3. ASSUME NEW i \in 1 .. p
          PROVE  ts <= es[i].ts /\ es[i].ts <= ts + length
      <3> DEFINE d == (i - 1) * gap
      <3>1. i \in 1 .. n /\ i - 1 \in Nat /\ i - 1 <= p - 1 /\ p - 1 \in Nat /\ gap <= gap
        BY <1>2
      <3>2. d \in Nat /\ d <= length
        BY <1>2, <3>1, Product
      <3>3. es[i].ts = ts + d
        BY <1>6, <3>1
      <3> HIDE DEF d, length
      <3>4. QED
        BY <2>1, <2>2, <3>2, <3>3
    <2>4. ASSUME NEW i \in 2 .. p + 1
          PROVE  ts + gap <= es[i].ts /\ es[i].ts <= ts + length + gap
      <3> DEFINE d == (i - 2) * gap
      <3>1. i \in 1 .. n /\ i - 2 \in Nat /\ i - 2 <= p - 1 /\ p - 1 \in Nat /\ gap <= gap
        BY <1>2
      <3>2. d \in Nat /\ d <= length
        BY <1>2, <3>1, Product
      <3>3. es[i].ts = ts + (d + gap)
        <4>1. (i - 1) * gap = d + gap
          BY <1>2, <3>1
        <4>2. es[i].ts = ts + (i - 1) * gap
          BY <1>6, <3>1
        <4>3. QED
          BY <4>1, <4>2
      <3> HIDE DEF d, length
      <3>4. QED
        BY <1>2, <2>1, <2>2, <3>2, <3>3
    <2>5. \A i \in 1 .. p + 1 : /\ es[i].type = "data_transfer" /\ es[i].user = User
                                /\ es[i].bytes >= b
      <3>1. \A i \in 1 .. p + 1 : i \in 1 .. n
        BY <1>2
      <3>2. QED
        BY <1>2, <1>6, <3>1
    <2>6. p < Len(es)
      BY <1>2, <1>8
    <2>7. p \in Nat /\ 2 <= p /\ gap \in Nat /\ gap <= 74 /\ b \in Nat /\ Worth(b, p)
      BY <1>2
    <2>8. length \in Nat /\ length <= 592 + gap
      BY <2>2
    <2> HIDE DEF length
    <2>9. QED
      BY <1>3, <1>8, <1>9, <2>1, <2>3, <2>4, <2>5, <2>6, <2>7, <2>8, OneLater
  <1>10. QED
    BY <1>4, <1>8, <1>9 DEF Made

\* The guesses of an attack are spread over its length.
LEMMA Spread ==
  ASSUME NEW fails, NEW length, (fails = 25 /\ length = 150) \/ (fails = 66 /\ length = 329),
         NEW i \in 1 .. fails
  PROVE  (length * (i - 1)) \div fails \in Nat /\ (length * (i - 1)) \div fails <= length
  <1>1. CASE fails = 25 /\ length = 150
    <2>1. i \in Int /\ 1 <= i /\ i <= 25
      BY <1>1
    <2>2. (150 * (i - 1)) \div 25 \in Nat /\ (150 * (i - 1)) \div 25 <= 150
      BY <2>1
    <2>3. QED
      BY <1>1, <2>2
  <1>2. CASE fails = 66 /\ length = 329
    <2>1. i \in Int /\ 1 <= i /\ i <= 66
      BY <1>2
    <2>2. (329 * (i - 1)) \div 66 \in Nat /\ (329 * (i - 1)) \div 66 <= 329
      BY <2>1
    <2>3. QED
      BY <1>2, <2>2
  <1>3. QED
    BY <1>1, <1>2

LEMMA ConcatIs ==
  ASSUME NEW T, NEW s \in Seq(T), NEW t \in Seq(T)
  PROVE  /\ s \o t \in Seq(T) /\ Len(s \o t) = Len(s) + Len(t)
         /\ \A i \in 1 .. Len(s) : (s \o t)[i] = s[i]
  BY ConcatProperties, LenProperties

LEMMA StuffingMade ==
  ASSUME TypesInv, AttackStuffing
  PROVE  Made("credential_stuffing", Fresh) /\ breached' \subseteq Users
  <1>1. PICK x \in Extremes, day \in AttackDays, hour \in SprayHours, entered \in {{}, {User}} :
          LET names  == Listing(Fleet \cup {User})
              fails  == Draw(x, 25, 66)
              length == Draw(x, 150, 329)
              base   == Midnight + day * Day + hour * Hour + Draw(x, 0, 59) * 60
              spray  == [i \in 1 .. fails |->
                           ConsoleLogin(names[1 + (i % Len(names))],
                                        base + (length * (i - 1)) \div fails, Fresh, FALSE)]
              in     == spray[fails].ts + Draw(x, 10, 49)
              breach == <<ConsoleLogin(User, in, Fresh, TRUE)>> \o
                        Burst(Draw(x, 2, 4), in + Draw(x, 30, 149), Draw(x, 30, 149),
                              LAMBDA i, ts : APICall(User, ts, Fresh, TRUE))
          IN /\ Make("credential_stuffing", Fresh,
                     IF entered = {} THEN spray ELSE spray \o breach, 0)
             /\ breached' = breached \cup entered
    BY DEF AttackStuffing
  <1> DEFINE names == Listing(Fleet \cup {User})
             K == Len(names)
             fails == Draw(x, 25, 66)
             length == Draw(x, 150, 329)
             base == Midnight + day * Day + hour * Hour + Draw(x, 0, 59) * 60
             at(i) == base + (length * (i - 1)) \div fails
             spray == [i \in 1 .. fails |-> ConsoleLogin(names[1 + (i % K)], at(i), Fresh, FALSE)]
             in == spray[fails].ts + Draw(x, 10, 49)
             gap == Draw(x, 30, 149)
             k == Draw(x, 2, 4)
             calls == [i \in 1 .. k |-> APICall(User, in + gap + (i - 1) * gap, Fresh, TRUE)]
             breach == <<ConsoleLogin(User, in, Fresh, TRUE)>> \o calls
             es == IF entered = {} THEN spray ELSE spray \o breach
             T == {e \in Event : base <= e.ts /\ e.ts <= base + 1200}
  <1>2. /\ (fails = 25 /\ length = 150) \/ (fails = 66 /\ length = 329)
        /\ gap \in Nat /\ gap <= 149 /\ (k = 2 \/ k = 4)
        /\ Draw(x, 10, 49) \in Nat /\ Draw(x, 10, 49) <= 49
        /\ Draw(x, 0, 59) \in Nat /\ Draw(x, 0, 59) <= 59
    BY DEF Draw
  <1>3. InDay(base) /\ User \in Users /\ Fresh \in IPs /\ events \in EventSets
    <2>1. hour \in Nat /\ hour <= 23 /\ UserOK /\ events \in EventSets
      BY GeneratorAssumption DEF TypesInv
    <2>2. QED
      BY <1>2, <2>1, InUTCDay, GeneratorAssumption
  <1>4. Make("credential_stuffing", Fresh, es, 0) /\ breached' \subseteq Users
    BY <1>1, <1>3 DEF Burst, TypesInv
  <1> HIDE DEF fails, length, base, gap, k
  <1>5. base \in Nat /\ fails \in Nat /\ 25 <= fails /\ length \in Nat /\ length <= 329 /\ k \in Nat
    BY <1>2, <1>3 DEF InDay
  <1>6. \A i \in 1 .. fails : at(i) \in Nat /\ base <= at(i) /\ at(i) <= base + length
    <2>1. ASSUME NEW i \in 1 .. fails
          PROVE  at(i) \in Nat /\ base <= at(i) /\ at(i) <= base + length
      <3> DEFINE d == (length * (i - 1)) \div fails
      <3>1. d \in Nat /\ d <= length
        BY <1>2, Spread
      <3> HIDE DEF d
      <3>2. base + d \in Nat /\ base <= base + d /\ base + d <= base + length
        BY <1>5, <3>1
      <3>3. QED
        BY <3>2 DEF d
    <2>2. QED
      BY <2>1
  <1> HIDE DEF at
  <1>7. \A i \in 1 .. fails : names[1 + (i % K)] \in Users
    <2>1. /\ Fleet \cup {User} \in SUBSET Users /\ IsFiniteSet(Fleet \cup {User})
          /\ Fleet \cup {User} # {}
      BY GeneratorAssumption, FS_AddElement
    <2>2. Lists(names, Fleet \cup {User})
      BY <2>1, ListingIs
    <2>3. Cardinality(Fleet \cup {User}) \in Nat /\ Cardinality(Fleet \cup {User}) # 0
      BY <2>1, FS_CardinalityType, FS_EmptySet
    <2>4. names \in Seq(Users) /\ K \in Nat /\ K >= 1
      <3>1. names \in Seq(Fleet \cup {User}) /\ K = Cardinality(Fleet \cup {User})
        BY <2>2 DEF Lists
      <3> HIDE DEF names
      <3>2. names \in Seq(Users)
        BY <2>1, <3>1
      <3>3. QED
        BY <2>3, <3>1, <3>2
    <2> HIDE DEF names
    <2>5. \A i \in Nat : 1 + (i % K) \in 1 .. K
      <3> DEFINE L == K
      <3>1. L \in Nat /\ L >= 1
        BY <2>4
      <3> HIDE DEF L
      <3>2. \A i \in Nat : 1 + (i % L) \in 1 .. L
        BY <3>1
      <3>3. QED
        BY <3>2 DEF L
    <2>6. \A i \in 1 .. fails : i \in Nat
      BY <1>5
    <2>7. QED
      BY <2>4, <2>5, <2>6, SMTT(60)
  <1>8. \A i \in 1 .. fails :
          /\ spray[i] \in Event /\ spray[i].ts = at(i) /\ spray[i].type = "console_login"
          /\ spray[i].status = "failure" /\ spray[i].ip = Fresh
          /\ spray[i].user = names[1 + (i % K)]
    <2> HIDE DEF names
    <2>1. \A i \in 1 .. fails : spray[i] = ConsoleLogin(names[1 + (i % K)], at(i), Fresh, FALSE)
      OBVIOUS
    <2>2. \A i \in 1 .. fails : ConsoleLogin(names[1 + (i % K)], at(i), Fresh, FALSE) \in Event
      BY <1>3, <1>6, <1>7, RowTypes
    <2>3. ASSUME NEW i \in 1 .. fails
          PROVE  /\ spray[i] \in Event /\ spray[i].ts = at(i) /\ spray[i].type = "console_login"
                 /\ spray[i].status = "failure" /\ spray[i].ip = Fresh
                 /\ spray[i].user = names[1 + (i % K)]
      <3> DEFINE u == names[1 + (i % K)]
      <3>1. spray[i] = ConsoleLogin(u, at(i), Fresh, FALSE)
        BY <2>1
      <3>2. spray[i] \in Event
        BY <2>1, <2>2
      <3>3. u = names[1 + (i % K)]
        OBVIOUS
      <3> HIDE DEF u, spray, names, K
      <3>4. /\ spray[i].ts = at(i) /\ spray[i].type = "console_login"
            /\ spray[i].status = "failure" /\ spray[i].ip = Fresh /\ spray[i].user = u
        BY <3>1 DEF ConsoleLogin, LogEvent
      <3>5. QED
        BY <3>2, <3>3, <3>4
    <2>4. QED
      BY <2>3
  <1>9. spray \in Seq(T) /\ Len(spray) = fails /\ spray \in Seq(Event)
    <2>1. spray \in [1 .. fails -> Event]
      BY <1>8
    <2>2. spray \in [1 .. fails -> T]
      <3>1. \A i \in 1 .. fails : spray[i] \in T
        <4> HIDE DEF spray
        <4> QED BY <1>5, <1>6, <1>8
      <3> HIDE DEF T
      <3>2. QED
        BY <3>1
    <2> HIDE DEF spray, T
    <2>3. spray \in Seq(T)
      BY <1>5, <2>2, SeqDef
    <2>4. QED
      BY <1>5, <2>1, <2>3, RowsAre
  <1> HIDE DEF spray
  <1>10. in \in Nat /\ base <= in /\ in <= base + 378
    <2>1. fails \in 1 .. fails
      BY <1>5
    <2>2. spray[fails].ts \in Nat /\ base <= spray[fails].ts /\ spray[fails].ts <= base + length
      BY <1>6, <1>8, <2>1
    <2>3. QED
      BY <1>2, <1>5, <2>2
  <1> HIDE DEF in
  <1>11. breach \in Seq(T)
    <2>1. \A t \in Nat : /\ ConsoleLogin(User, t, Fresh, TRUE) \in Event
                         /\ ConsoleLogin(User, t, Fresh, TRUE).ts = t
                         /\ APICall(User, t, Fresh, TRUE) \in Event
                         /\ APICall(User, t, Fresh, TRUE).ts = t
      <3>1. \A t \in Nat : /\ ConsoleLogin(User, t, Fresh, TRUE) \in Event
                           /\ APICall(User, t, Fresh, TRUE) \in Event
        BY <1>3, RowTypes
      <3>2. QED
        BY <3>1 DEF ConsoleLogin, APICall, LogEvent
    <2>2. <<ConsoleLogin(User, in, Fresh, TRUE)>> \in Seq(T)
      <3> DEFINE e == ConsoleLogin(User, in, Fresh, TRUE)
      <3>1. e \in Event /\ e.ts = in
        BY <1>10, <2>1
      <3> HIDE DEF e
      <3>2. e \in T
        BY <1>5, <1>10, <3>1
      <3> HIDE DEF T
      <3>3. <<e>> \in Seq(T)
        BY <3>2
      <3>4. QED
        BY <3>3 DEF e
    <2>3. ASSUME NEW i \in 1 .. k
          PROVE  calls[i] \in T
      <3> DEFINE t == in + gap + (i - 1) * gap
                 d == (i - 1) * gap
      <3>1. i - 1 \in Nat /\ i - 1 <= 3 /\ 3 \in Nat /\ 149 \in Nat
        BY <1>2
      <3>2. d \in Nat /\ d <= 3 * 149
        BY <1>2, <3>1, Product
      <3> HIDE DEF d
      <3>3. t \in Nat /\ base <= t /\ t <= base + 1200
        BY <1>2, <1>5, <1>10, <3>2 DEF d
      <3>4. calls[i] = APICall(User, t, Fresh, TRUE)
        OBVIOUS
      <3> DEFINE e == APICall(User, t, Fresh, TRUE)
      <3> HIDE DEF t, calls
      <3>5. e \in Event /\ e.ts = t /\ calls[i] = e
        BY <2>1, <3>3, <3>4, ZenonT(60)
      <3> HIDE DEF e
      <3>6. e \in T
        BY <1>5, <3>3, <3>5
      <3>7. QED
        BY <3>5, <3>6
    <2> HIDE DEF T
    <2>4. calls \in [1 .. k -> T]
      BY <2>3
    <2>5. calls \in Seq(T)
      <3> HIDE DEF calls
      <3> QED BY <1>5, <2>4, SeqDef
    <2> HIDE DEF calls
    <2>6. QED
      BY <2>2, <2>5, ConcatIs
  <1> HIDE DEF breach
  <1>12. es \in Seq(T) /\ fails <= Len(es) /\ Len(es) \in Nat /\ \A i \in 1 .. fails : es[i] = spray[i]
    <2> HIDE DEF T
    <2>1. Len(breach) \in Nat
      BY <1>11, LenProperties
    <2>2. /\ spray \o breach \in Seq(T) /\ Len(spray \o breach) = fails + Len(breach)
          /\ \A i \in 1 .. fails : (spray \o breach)[i] = spray[i]
      BY <1>9, <1>11, ConcatIs
    <2>3. QED
      BY <1>5, <1>9, <2>1, <2>2
  <1> HIDE DEF es
  <1>13. es \in Seq(Event) /\ \A i \in 1 .. Len(es) : base <= es[i].ts /\ es[i].ts + 0 <= base + 7200
    <2>1. \A i \in 1 .. Len(es) : es[i] \in T
      <3> HIDE DEF T
      <3> QED BY <1>12
    <2>2. T \in SUBSET Event
      OBVIOUS
    <2>3. es \in Seq(Event)
      <3> HIDE DEF T
      <3> QED BY <1>12, <2>2
    <2>4. \A i \in 1 .. Len(es) : es[i].ts \in Nat /\ base <= es[i].ts /\ es[i].ts <= base + 1200
      BY <2>1 DEF Event
    <2>5. QED
      BY <1>5, <2>3, <2>4
  <1>14. Placed(es, 0)
    <2>1. 0 \in Nat /\ 0 <= 7200 /\ Len(es) > 0
      BY <1>5, <1>12
    <2>2. QED
      BY <1>3, <1>13, <2>1, PlacedIn, SMTT(30)
  <1>15. ASSUME WithinReach
         PROVE  Raised("credential_stuffing", Fresh, es)
    <2>1. Midnight + 2 * Day <= base
      BY <1>3 DEF InDay
    <2>2. ASSUME NEW i \in 1 .. fails
          PROVE  /\ base <= es[i].ts /\ es[i].ts < base + 600 /\ es[i].type = "console_login"
                 /\ es[i].status = "failure" /\ es[i].ip = Fresh
                 /\ es[i].user = names[1 + (i % K)]
      <3>1. base <= at(i) /\ at(i) < base + 600
        BY <1>5, <1>6
      <3>2. QED
        BY <1>8, <1>12, <3>1
    <2>3. Guesses(es, fails, base)
      BY <2>2 DEF Guesses
    <2> HIDE DEF names
    <2>4. QED
      BY <1>3, <1>5, <1>12, <1>13, <1>15, <2>1, <2>3, SprayRaised
  <1>16. QED
    BY <1>4, <1>14, <1>15 DEF Made

LEMMA AttackMakes ==
  ASSUME TypesInv, Attacking
  PROVE  /\ breached' \subseteq Users
         /\ \E type \in AlertTypes, entity \in Names : Made(type, entity)
  <1>1. User \in Names /\ Fresh \in Names /\ breached \subseteq Users
    BY GeneratorAssumption DEF Names, TypesInv
  <1>2. \A type \in {"credential_stuffing", "privilege_escalation", "lateral_movement",
                     "data_exfiltration", "sensitive_data_exposure", "identity_anomaly",
                     "off_hours_access"} : type \in AlertTypes
    BY DEF AlertTypes
  <1>3. CASE AttackStuffing
    BY <1>1, <1>2, <1>3, StuffingMade
  <1>4. CASE AttackPrivEsc
    <2>1. breached' = breached
      BY <1>4 DEF AttackPrivEsc
    <2>2. QED
      BY <1>1, <1>2, <1>4, <2>1, PrivEscMade
  <1>5. CASE AttackSecretLeak
    <2>1. breached' = breached
      BY <1>5 DEF AttackSecretLeak
    <2>2. QED
      BY <1>1, <1>2, <1>5, <2>1, LeakMade
  <1>6. CASE AttackNewLocation
    <2>1. breached' = breached
      BY <1>6 DEF AttackNewLocation
    <2>2. QED
      BY <1>1, <1>2, <1>6, <2>1, LocationMade
  <1>7. CASE AttackLateral
    <2>1. breached' = breached
      BY <1>7 DEF AttackLateral
    <2>2. QED
      BY <1>1, <1>2, <1>7, <2>1, LateralMade
  <1>8. CASE AttackOffHours
    <2>1. breached' = breached
      BY <1>8 DEF AttackOffHours
    <2>2. QED
      BY <1>1, <1>2, <1>8, <2>1, OffHoursMade
  <1>9. CASE AttackExfil
    <2>1. breached' = breached
      BY <1>9 DEF AttackExfil
    <2>2. QED
      BY <1>1, <1>2, <1>9, <2>1, ExfilMade
  <1>10. QED
    BY <1>3, <1>4, <1>5, <1>6, <1>7, <1>8, <1>9 DEF Attacking

LEMMA MadeKeepsTypes ==
  ASSUME TypesInv, NEW type \in AlertTypes, NEW entity \in Names, Made(type, entity),
         breached' \subseteq Users
  PROVE  TypesInv'
  <1>1. PICK es, pause : Placed(es, pause) /\ Make(type, entity, es, pause)
    BY DEF Made
  <1>2. PICK a \in Nat, b \in Nat :
          /\ Between(es, a, b)
          /\ Midnight + 3 * Day - Max({zone, 0}) * 60 <= a
          /\ b + pause <= Midnight + (Days + 1) * Day
    BY <1>1 DEF Placed
  <1>3. pause \in Nat /\ Len(es) > 0
    BY <1>1 DEF Placed
  <1>4. QED
    BY <1>1, <1>2, <1>3, MadeTypes

-----------------------------------------------------------------------------
(* What benign activity makes *)

\* A row of the warm-up
LEMMA HomeRows ==
  ASSUME UserOK, NEW day \in Nat, NEW hour \in 0 .. 23, NEW minute \in 0 .. 59
  PROVE  LET ts == LocalTS(day, hour, minute)
         IN /\ ts \in Nat /\ ts + 5 \in Nat
            /\ \A x : \A ok \in BOOLEAN :
                 ConsoleLogin(User, ts, UserIP(x), ok) \in Event /\ APICall(User, ts, UserIP(x), ok) \in Event
            /\ ConsoleLogin(User, ts, Home, TRUE) \in Event
            /\ ConsoleLogin(User, ts, Office, TRUE) \in Event
  <1>1. LocalTS(day, hour, minute) \in Nat
    BY LocalTime
  <1>2. (\A x : UserIP(x) \in IPs) /\ Home \in IPs /\ Office \in IPs /\ User \in Users
    BY UserIPType, GeneratorAssumption
  <1>3. \A ip \in IPs, ok \in BOOLEAN :
          /\ ConsoleLogin(User, LocalTS(day, hour, minute), ip, ok) \in Event
          /\ APICall(User, LocalTS(day, hour, minute), ip, ok) \in Event
    BY <1>1, <1>2, RowTypes
  <1>4. LocalTS(day, hour, minute) + 5 \in Nat
    BY <1>1
  <1>5. TRUE \in BOOLEAN
    OBVIOUS
  <1>6. QED
    BY <1>1, <1>2, <1>3, <1>4, <1>5, Zenon

LEMMA MinuteDrawn ==
  ASSUME NEW x
  PROVE  /\ \A m \in {29, 44, 59} : Draw(x, 0, m) \in 0 .. 59 /\ Draw(x, 0, m) <= m
         /\ Draw(x, 2, 4) \in 2 .. 4
  BY DEF Draw

LEMMA FirstHosts == \A i \in Nat : 1 <= i /\ i <= 4 => Listing(Hosts)[i] \in Hosts
  <1>1. Lists(Listing(Hosts), Hosts) /\ Cardinality(Hosts) >= 14 /\ Cardinality(Hosts) \in Nat
    BY ListingIs, GeneratorAssumption, FS_CardinalityType
  <1>2. Listing(Hosts) \in Seq(Hosts) /\ Len(Listing(Hosts)) = Cardinality(Hosts)
    BY <1>1 DEF Lists
  <1>3. QED
    BY <1>1, <1>2

LEMMA WarmDayRows ==
  ASSUME UserOK, NEW day \in Nat, NEW x, NEW denied
  PROVE  /\ WarmDay(day, x, denied) \in Seq(Event) /\ Len(WarmDay(day, x, denied)) > 0
         /\ WarmDay(day, x, denied)[1].ts = LocalTS(day, workStart, Draw(x, 0, 29))
  <1> DEFINE first == ConsoleLogin(User, LocalTS(day, workStart, Draw(x, 0, 29)), Home, TRUE)
             second == ConsoleLogin(User, LocalTS(day, workStart + 1, Draw(x, 0, 29)),
                                    IF office THEN Office ELSE Home, TRUE)
             logins == <<first, second>>
             n == workEnd - workStart + 4
             hour(i) == workStart + i - 2
             calls == [i \in DOMAIN WarmHours |->
                         APICall(User, LocalTS(day, WarmHours[i], Draw(x, 0, 59)), UserIP(x),
                                 WarmHours[i] # denied)]
             ts == LocalTS(day, workStart + Draw(x, 2, 4), Draw(x, 0, 59))
             k == Draw(x, 2, 4)
             visits == [i \in 1 .. k |-> SSHLogin(ts + (i - 1) * 0, UserIP(x), Listing(Hosts)[i])]
  <1>1. /\ workStart \in 7 .. 9 /\ workEnd \in 17 .. 20 /\ office \in BOOLEAN
        /\ n \in Nat /\ \A i \in 1 .. n : hour(i) \in 0 .. 23
    BY DEF UserOK
  <1>2. /\ Draw(x, 0, 29) \in 0 .. 59 /\ Draw(x, 0, 59) \in 0 .. 59 /\ k \in Nat /\ 2 <= k /\ k <= 4
    BY MinuteDrawn
  <1>3. logins \in Seq(Event) /\ Len(logins) = 2 /\ logins[1] = first
        /\ first.ts = LocalTS(day, workStart, Draw(x, 0, 29))
    <2>1. workStart \in 0 .. 23 /\ workStart + 1 \in 0 .. 23
      BY <1>1
    <2>2. first \in Event /\ second \in Event
      BY <1>1, <1>2, <2>1, HomeRows
    <2>3. first.ts = LocalTS(day, workStart, Draw(x, 0, 29))
      BY DEF ConsoleLogin, LogEvent
    <2> HIDE DEF first, second
    <2>4. QED
      BY <2>2, <2>3
  <1>4. calls \in Seq(Event)
    <2>1. WarmHours = [i \in 1 .. n |-> hour(i)]
      BY DEF WarmHours
    <2>2. DOMAIN WarmHours = 1 .. n /\ \A i \in 1 .. n : WarmHours[i] = hour(i)
      BY <2>1
    <2> HIDE DEF hour, n
    <2>3. ASSUME NEW i \in 1 .. n
          PROVE  calls[i] \in Event
      <3>1. calls[i] = APICall(User, LocalTS(day, hour(i), Draw(x, 0, 59)), UserIP(x), hour(i) # denied)
        BY <2>2
      <3> DEFINE ok == hour(i) # denied
                 h == hour(i)
                 m == Draw(x, 0, 59)
      <3>2. calls[i] = APICall(User, LocalTS(day, h, m), UserIP(x), ok)
        BY <3>1
      <3>3. h \in 0 .. 23 /\ m \in 0 .. 59 /\ ok \in BOOLEAN
        BY <1>1, <1>2
      <3> HIDE DEF ok, h, m, calls
      <3>4. APICall(User, LocalTS(day, h, m), UserIP(x), ok) \in Event
        BY <3>3, HomeRows, Zenon
      <3>5. QED
        BY <3>2, <3>4
    <2>4. calls \in [1 .. n -> Event]
      BY <2>2, <2>3
    <2> HIDE DEF calls
    <2>5. QED
      BY <1>1, <2>4, RowsAre
  <1>5. visits \in Seq(Event)
    <2>1. workStart + k \in 0 .. 23
      BY <1>1, <1>2
    <2>2. ts \in Nat
      BY <1>2, <2>1, LocalTime
    <2>3. UserIP(x) \in IPs
      BY UserIPType
    <2>4. ASSUME NEW i \in 1 .. k
          PROVE  visits[i] \in Event
      <3> HIDE DEF k
      <3>1. ts + (i - 1) * 0 = ts
        BY <1>2, <2>2
      <3>2. Listing(Hosts)[i] \in Hosts
        BY <1>2, FirstHosts
      <3>3. visits[i] = SSHLogin(ts + (i - 1) * 0, UserIP(x), Listing(Hosts)[i])
        OBVIOUS
      <3>4. QED
        BY <2>2, <2>3, <3>1, <3>2, <3>3, RowTypes
    <2> HIDE DEF k
    <2>5. visits \in [1 .. k -> Event]
      BY <2>4
    <2> HIDE DEF visits
    <2>6. QED
      BY <1>2, <2>5, RowsAre
  <1>6. WarmDay(day, x, denied) = (logins \o calls) \o visits
    BY DEF WarmDay, Burst
  <1> HIDE DEF logins, calls, visits, first, second, k, n
  <1> DEFINE rows == logins \o calls
  <1>7. /\ rows \in Seq(Event) /\ Len(rows) = Len(logins) + Len(calls)
        /\ Len(calls) \in Nat /\ \A i \in 1 .. Len(logins) : rows[i] = logins[i]
    BY <1>3, <1>4, ConcatIs, LenProperties
  <1> HIDE DEF rows
  <1>8. rows \in Seq(Event) /\ Len(rows) \in Nat /\ Len(rows) >= 2 /\ rows[1] = logins[1]
    BY <1>3, <1>7
  <1>9. /\ rows \o visits \in Seq(Event) /\ Len(rows \o visits) = Len(rows) + Len(visits)
        /\ Len(visits) \in Nat /\ \A i \in 1 .. Len(rows) : (rows \o visits)[i] = rows[i]
    BY <1>5, <1>8, ConcatIs, LenProperties
  <1>10. (rows \o visits)[1] = first /\ Len(rows \o visits) > 0
    BY <1>3, <1>8, <1>9
  <1>11. QED
    BY <1>3, <1>6, <1>9, <1>10 DEF rows

LEMMA OneRow ==
  /\ <<>> \in Seq(Event) /\ \A e \in Event : <<e>> \in Seq(Event)
  /\ \A e, f \in Event : <<e, f>> \in Seq(Event)
  OBVIOUS

\* The baseline begins with a login on day 0.
LEMMA ForcedRows ==
  ASSUME UserOK, ForcedBaseline
  PROVE  \E es \in Seq(Event) :
           /\ Emit(es) /\ Len(es) > 0
           /\ es[1].ts = LocalTS(0, workStart, Draw(warm.x, 0, 29))
  <1> DEFINE x == warm.x
             A == WarmDay(0, x, DeniedHour)
             B == WarmDay(1, x, DeniedHour)
             c == ConsoleLogin(User, LocalTS(2, workStart, Draw(x, 0, 44)), Home, TRUE)
             d == ConsoleLogin(User, LocalTS(2, workStart + 2, Draw(x, 0, 44)), Office, TRUE)
             D == IF office THEN <<d>> ELSE <<>>
             es == ((A \o B) \o <<c>>) \o D
  <1>1. Emit(es)
    BY DEF ForcedBaseline
  <1>2. /\ A \in Seq(Event) /\ Len(A) > 0 /\ B \in Seq(Event)
        /\ A[1].ts = LocalTS(0, workStart, Draw(x, 0, 29))
    <2>1. 0 \in Nat /\ 1 \in Nat
      OBVIOUS
    <2>2. QED
      BY <2>1, WarmDayRows
  <1>3. c \in Event /\ d \in Event
    <2>1. workStart \in 0 .. 23 /\ workStart + 2 \in 0 .. 23 /\ 2 \in Nat
      BY DEF UserOK
    <2>2. Draw(x, 0, 44) \in 0 .. 59
      BY MinuteDrawn
    <2>3. QED
      BY <2>1, <2>2, HomeRows
  <1> HIDE DEF A, B, c, d
  <1>4. <<c>> \in Seq(Event)
    BY <1>3, OneRow, Zenon
  <1>5. D \in Seq(Event)
    <2>1. <<d>> \in Seq(Event) /\ <<>> \in Seq(Event)
      BY <1>3, OneRow, Zenon
    <2>2. D = <<d>> \/ D = <<>>
      OBVIOUS
    <2> HIDE DEF D
    <2>3. CASE D = <<d>>
      BY <2>1, <2>3
    <2>4. CASE D = <<>>
      BY <2>1, <2>4
    <2>5. QED
      BY <2>2, <2>3, <2>4
  <1> HIDE DEF D
  <1> DEFINE AB == A \o B
             ABC == AB \o <<c>>
  <1>6. AB \in Seq(Event) /\ Len(AB) = Len(A) + Len(B) /\ \A i \in 1 .. Len(A) : AB[i] = A[i]
    BY <1>2, ConcatIs
  <1>7. Len(A) \in Nat /\ Len(B) \in Nat /\ Len(D) \in Nat /\ Len(<<c>>) = 1
    BY <1>2, <1>5, LenProperties
  <1> HIDE DEF AB
  <1>8. Len(AB) > 0 /\ AB[1] = A[1] /\ Len(AB) \in Nat
    BY <1>2, <1>6, <1>7
  <1>9. ABC \in Seq(Event) /\ Len(ABC) = Len(AB) + 1 /\ \A i \in 1 .. Len(AB) : ABC[i] = AB[i]
    BY <1>4, <1>6, <1>7, ConcatIs
  <1> HIDE DEF ABC
  <1>10. Len(ABC) > 0 /\ ABC[1] = A[1] /\ Len(ABC) \in Nat
    BY <1>8, <1>9
  <1>11. ABC \o D \in Seq(Event) /\ Len(ABC \o D) = Len(ABC) + Len(D)
         /\ \A i \in 1 .. Len(ABC) : (ABC \o D)[i] = ABC[i]
    BY <1>5, <1>9, ConcatIs
  <1>12. Len(ABC \o D) > 0 /\ (ABC \o D)[1] = A[1]
    BY <1>7, <1>10, <1>11
  <1>13. es = ABC \o D
    BY DEF ABC, AB
  <1>14. QED
    BY <1>1, <1>2, <1>11, <1>12, <1>13

LEMMA OrganicRows ==
  ASSUME NEW kind \in Kinds, NEW ts \in Nat, NEW ip \in IPs, NEW es \in OrganicEvents(kind, ts, ip)
  PROVE  es \in Seq(Event)
  <1>1. ts + 5 \in Nat /\ 201 \in Nat /\ User \in Users /\ Fleet \subseteq Users
    BY GeneratorAssumption
  <1>2. Listing(Hosts)[1] \in Hosts
    BY FirstHosts
  <1>3. TRUE \in BOOLEAN /\ FALSE \in BOOLEAN
    OBVIOUS
  <1>4. /\ ConsoleLogin(User, ts, ip, TRUE) \in Event /\ ConsoleLogin(User, ts, ip, FALSE) \in Event
        /\ APICall(User, ts, ip, TRUE) \in Event /\ ConsoleLogin(User, ts + 5, ip, TRUE) \in Event
        /\ SSHLogin(ts, ip, Listing(Hosts)[1]) \in Event
        /\ DataTransfer(ts, ip, 201) \in Event
        /\ \A m : AppLog(ts, m) \in Event
    BY <1>1, <1>2, <1>3, RowTypes, Zenon
  <1>5. \A u \in Fleet \cup {User} : PermissionChange(ts, ip, u, FALSE, "success") \in Event
    <2>1. \A u \in Fleet \cup {User} : u \in Users
      BY <1>1
    <2>2. QED
      BY <1>3, <2>1, RowTypes, Zenon
  <1>6. CASE kind = "login"
    <2>1. OrganicEvents(kind, ts, ip) = {<<ConsoleLogin(User, ts, ip, TRUE)>>}
      BY <1>6 DEF OrganicEvents
    <2>2. QED
      BY <1>4, <2>1, OneRow, Zenon
  <1>7. CASE kind = "typo"
    <2> DEFINE e == ConsoleLogin(User, ts, ip, FALSE)
               f == ConsoleLogin(User, ts + 5, ip, TRUE)
    <2>1. es = <<e, f>>
      BY <1>7 DEF OrganicEvents
    <2>2. e \in Event /\ f \in Event
      BY <1>4
    <2> HIDE DEF e, f
    <2>3. <<e, f>> \in Seq(Event)
      BY <2>2, OneRow
    <2>4. QED
      BY <2>1, <2>3
  <1>8. CASE kind = "call"
    <2>1. OrganicEvents(kind, ts, ip) = {<<APICall(User, ts, ip, TRUE)>>}
      BY <1>8 DEF OrganicEvents
    <2>2. QED
      BY <1>4, <2>1, OneRow, Zenon
  <1>9. CASE kind = "ssh"
    <2>1. OrganicEvents(kind, ts, ip) = {<<SSHLogin(ts, ip, Listing(Hosts)[1])>>}
      BY <1>9 DEF OrganicEvents
    <2>2. QED
      BY <1>4, <2>1, OneRow, Zenon
  <1>10. CASE kind = "log"
    <2>1. OrganicEvents(kind, ts, ip) = {<<AppLog(ts, m)>> : m \in Placeholders}
      BY <1>10 DEF OrganicEvents
    <2>2. QED
      BY <1>4, <2>1, OneRow, Zenon
  <1>11. CASE kind = "transfer"
    <2>1. OrganicEvents(kind, ts, ip) = {<<DataTransfer(ts, ip, 201)>>}
      BY <1>11 DEF OrganicEvents
    <2>2. QED
      BY <1>4, <2>1, OneRow, ZenonT(60)
  <1>12. CASE kind = "grant"
    <2>1. OrganicEvents(kind, ts, ip)
            = {<<PermissionChange(ts, ip, u, FALSE, "success")>> : u \in Fleet \cup {User}}
      BY <1>12 DEF OrganicEvents
    <2>2. QED
      BY <1>5, <2>1, OneRow, Zenon
  <1>13. QED
    BY <1>6, <1>7, <1>8, <1>9, <1>10, <1>11, <1>12 DEF Kinds

LEMMA BenignRows ==
  ASSUME UserOK, Benign
  PROVE  \E es \in Seq(Event) : Emit(es)
  <1> DEFINE minute == Draw(organic.x, 0, 59)
             ts == LocalTS(organic.day, OrganicHour, minute)
             ip == UserIP(organic.x)
             n == 3 * Days
             Call(i) == APICall(User, LocalTS((i - 1) \div 3, workStart + 1 + 2 * (i % 3), 30), Home, TRUE)
             calls == [i \in 1 .. n |-> Call(i)]
  <1>1. PICK es \in OrganicEvents(organic.kind, ts, ip) : Emit(calls \o es)
    BY DEF Benign
  <1>2. es \in Seq(Event)
    <2>1. organic.kind \in Kinds /\ organic.day \in Nat
      BY DEF UserOK
    <2>2. OrganicHour \in 0 .. 23
      BY DEF UserOK, OrganicHour
    <2>3. minute \in 0 .. 59
      BY MinuteDrawn
    <2>4. ts \in Nat /\ ip \in IPs
      BY <2>1, <2>2, <2>3, LocalTime, UserIPType
    <2> HIDE DEF ts, ip
    <2>5. QED
      BY <1>1, <2>1, <2>4, OrganicRows
  <1>3. n \in Nat
    BY GeneratorAssumption
  <1>4. ASSUME NEW i \in 1 .. n
        PROVE  Call(i) \in Event
    <2> DEFINE day == (i - 1) \div 3
               hour == workStart + 1 + 2 * (i % 3)
    <2>1. i \in Nat /\ 1 <= i
      BY <1>3
    <2>2. day \in Nat /\ hour \in 0 .. 23 /\ 30 \in 0 .. 59
      <3>1. workStart \in 7 .. 9
        BY DEF UserOK
      <3>2. i % 3 \in 0 .. 2
        BY <2>1
      <3>3. day \in Nat
        BY <2>1
      <3>4. QED
        BY <3>1, <3>2, <3>3
    <2>3. LocalTS(day, hour, 30) \in Nat
      BY <2>2, LocalTime
    <2>4. Home \in IPs /\ User \in Users /\ TRUE \in BOOLEAN
      BY GeneratorAssumption
    <2> DEFINE t == LocalTS(day, hour, 30)
    <2>5. Call(i) = APICall(User, t, Home, TRUE)
      OBVIOUS
    <2>6. t \in Nat
      BY <2>3
    <2> HIDE DEF t, Call
    <2>7. APICall(User, t, Home, TRUE) \in Event
      BY <2>4, <2>6, RowTypes, Zenon
    <2>8. QED
      BY <2>5, <2>7
  <1> HIDE DEF Call, n
  <1>5. calls \in [1 .. n -> Event]
    BY <1>4
  <1> HIDE DEF calls
  <1>6. calls \in Seq(Event)
    BY <1>3, <1>5, RowsAre
  <1>7. calls \o es \in Seq(Event)
    BY <1>2, <1>6, ConcatIs
  <1>8. QED
    BY <1>1, <1>7

-----------------------------------------------------------------------------
(* The drain *)

LEMMA NextWindowIs ==
  ASSUME events \in EventSets, events # {}, next \in Nat
  PROVE  /\ NextWindow \in Nat /\ Origin(events) \in Nat
         /\ next = 0 => NextWindow = Origin(events)
         /\ next # 0 => NextWindow = (IF Origin(events) - Step <= next THEN next
                                      ELSE Origin(events) - Step)
  <1> DEFINE o == Origin(events)
             S == {next, o - Step}
             m == IF o - Step <= next THEN next ELSE o - Step
  <1>1. o \in Nat /\ Step \in Nat \ {0}
    BY OriginType, StepAssumption
  <1> HIDE DEF o
  <1>2. m \in S /\ m \in Nat /\ \A y \in S : m >= y
    BY <1>1
  <1>3. \A z \in S : (\A y \in S : z >= y) => z = m
    BY <1>1, <1>2
  <1> HIDE DEF S, m
  <1>4. Max(S) = m
    BY <1>2, <1>3 DEF Max
  <1>5. NextWindow = IF next = 0 THEN o ELSE m
    BY <1>4 DEF NextWindow, S, o
  <1>6. QED
    BY <1>1, <1>2, <1>5 DEF m, o

LEMMA DrainTypes ==
  ASSUME TypesInv, DrainWindow
  PROVE  /\ NextWindow \in Nat /\ events # {} /\ events' \in EventSets /\ next' \in Nat
         /\ alerts' \in Seq(AlertRow) /\ mem' \in [Users -> UserBaseline]
  <1> DEFINE t == NextWindow
             S == WindowEvents(events, t)
             F == Findings(S, mem)
  <1>1. /\ events # {} /\ mem' = Learn(mem, LeadEvents(S, t))
        /\ \E f \in Orders(F) : alerts' = Store(alerts, f)
        /\ events' = {e \in events : e.ts >= t + Step} /\ next' = t + Step
    BY DEF DrainWindow, Drainable
  <1>2. events \in EventSets /\ next \in Nat /\ alerts \in Seq(AlertRow)
        /\ mem \in [Users -> UserBaseline]
    BY DEF TypesInv
  <1>3. t \in Nat
    BY <1>1, <1>2, NextWindowIs
  <1> HIDE DEF t
  <1>4. S \in EventSets /\ LeadEvents(S, t) \in EventSets /\ events' \in EventSets
    <2>1. S \in SUBSET events /\ LeadEvents(S, t) \in SUBSET events /\ events' \in SUBSET events
      BY <1>1 DEF WindowEvents, LeadEvents
    <2> HIDE DEF S
    <2>2. QED
      BY <1>2, <2>1, EventSubset
  <1> HIDE DEF S
  <1>5. PICK f \in Orders(F) : alerts' = Store(alerts, f)
    BY <1>1
  <1>6. alerts' \in Seq(AlertRow)
    BY <1>2, <1>4, <1>5, FindingsCovered
  <1>7. mem' \in [Users -> UserBaseline]
    BY <1>1, <1>2, <1>4, LearnType
  <1>8. QED
    BY <1>1, <1>3, <1>4, <1>6, <1>7, StepAssumption DEF t

LEMMA TypesNext == TypesInv /\ [Next]_vars => TypesInv'
  <1> SUFFICES ASSUME TypesInv, [Next]_vars PROVE TypesInv'
    OBVIOUS
  <1> USE DEF user, draining
  <1>1. CASE Attacking
    BY <1>1, AttackMakes, MadeKeepsTypes
  <1>2. CASE AttacksMade
    BY <1>2, ZenonT(60) DEF AttacksMade, TypesInv, UserOK, InSpan
  <1>3. CASE ForcedBaseline
    <2>1. events' \in EventSets
      BY <1>3, ForcedRows, EmitType DEF TypesInv
    <2>2. stage' = "benign" /\ UNCHANGED <<user, plan, attacks, breached, draining>>
      BY <1>3 DEF ForcedBaseline
    <2>3. QED
      BY <2>1, <2>2 DEF TypesInv, UserOK, InSpan
  <1>4. CASE Benign
    <2>1. events' \in EventSets
      BY <1>4, BenignRows, EmitType DEF TypesInv
    <2>2. stage' = "drain" /\ UNCHANGED <<user, plan, attacks, breached, draining>>
      BY <1>4 DEF Benign
    <2>3. QED
      BY <2>1, <2>2 DEF TypesInv, UserOK, InSpan
  <1>5. CASE DrainWindow
    <2>1. UNCHANGED <<user, plan, attacks, breached, stage>>
      BY <1>5 DEF DrainWindow
    <2>2. QED
      BY <1>5, <2>1, DrainTypes, ZenonT(60) DEF TypesInv, UserOK, InSpan
  <1>6. CASE Drained
    BY <1>6, ZenonT(60) DEF Drained, TypesInv, UserOK, InSpan
  <1>7. CASE UNCHANGED vars
    BY <1>7, ZenonT(60) DEF vars, TypesInv, UserOK, InSpan
  <1>8. QED
    BY <1>1, <1>2, <1>3, <1>4, <1>5, <1>6, <1>7 DEF Next

\* Types and times: whatever is drawn, every row of the log and of the manifest
\* is well-formed, and an attack lies after three days of the user's time and
\* within the dataset; alerts and baselines of the drain are, too.
THEOREM GeneratorTypes == Spec => []TypeOK
  <1>1. TypesInv => TypeOK
    BY DEF TypesInv, TypeOK, InSpan, EventSets
  <1>2. QED
    BY <1>1, TypesInit, TypesNext, PTL DEF Spec

-----------------------------------------------------------------------------
(* Every attack that a rule is about is found *)

FindsIt(c, a) ==
  c.type = a.type /\ c.entity = a.entity /\ c.start <= a.end /\ a.start <= c.end

\* An alert covers a finding of it, ...
Seen(a) == \E c \in Candidate : FindsIt(c, a) /\ Covered(alerts, c)

\* ... or a window has one that the drain has still to sweep.
Due(a, t) ==
  /\ Aligned(t) /\ next <= t /\ Midnight + Day <= t /\ \E e \in events : t < e.ts
  /\ \E c \in RuleFindings(WindowEvents(events, t)) : FindsIt(c, a)

Pending(a) == \E t \in Nat : Due(a, t)

\* The drain starts on day 0 and stands at an aligned instant.
Drains ==
  /\ Aligned(next)
  /\ stage \notin {"drain", "done"} => next = 0
  /\ stage \in {"benign", "drain"} /\ next = 0 => \E e \in events : e.ts <= Midnight + Day

FoundInv ==
  /\ Drains
  /\ \A a \in attacks : a.type \in RuleTypes => Seen(a) \/ (stage # "done" /\ Pending(a))

LEMMA RuleType ==
  ASSUME NEW S \in EventSets, NEW c \in RuleFindings(S)
  PROVE  c \in Candidate /\ c.start \in Nat /\ c.end \in Nat
  <1>1. c \in Findings(S, EmptyBaselines)
    BY DEF Findings
  <1>2. c \in Candidate
    BY <1>1, FindingsType
  <1>3. QED
    BY <1>2 DEF Candidate

LEMMA AttackTimes == \A a \in Attack : a.start \in Nat /\ a.end \in Nat
  BY DEF Attack

\* More events leave it to be found.
LEMMA StaysDue ==
  ASSUME events \in EventSets, events' \in EventSets, events \subseteq events', next' = next,
         NEW a \in Attack, Pending(a)
  PROVE  Pending(a)'
  <1>1. PICK t \in Nat : Due(a, t)
    BY DEF Pending
  <1>2. PICK c \in RuleFindings(WindowEvents(events, t)) : FindsIt(c, a)
    BY <1>1 DEF Due
  <1> DEFINE S == WindowEvents(events, t)
             T == WindowEvents(events', t)
  <1>3. S \in EventSets /\ T \in EventSets /\ S \in SUBSET T
    <2>1. S \in SUBSET events /\ T \in SUBSET events' /\ S \in SUBSET T
      BY DEF WindowEvents
    <2> HIDE DEF S, T
    <2>2. QED
      BY <2>1, EventSubset
  <1> HIDE DEF S, T
  <1>4. c \in RuleFindings(S)
    BY DEF S
  <1>5. PICK d \in RuleFindings(T) : Same(d, c) /\ d.start <= c.start /\ c.end <= d.end
    BY <1>3, <1>4, RulesGrow
  <1>6. FindsIt(d, a)
    <2>1. c.start \in Nat /\ c.end \in Nat /\ d.start \in Nat /\ d.end \in Nat
      BY <1>3, <1>4, <1>5, RuleType
    <2>2. QED
      BY <1>2, <1>5, <2>1, AttackTimes DEF FindsIt, Same
  <1>7. \E x \in RuleFindings(WindowEvents(events', t)) : FindsIt(x, a)
    BY <1>5, <1>6 DEF T
  <1>8. Due(a, t)'
    BY <1>1, <1>7 DEF Due
  <1>9. QED
    BY <1>8 DEF Pending

\* An attack that was raised is in the dataset, to be found.
LEMMA RaisedDue ==
  ASSUME TypesInv, next = 0, next' = 0, NEW type \in RuleTypes, NEW entity \in Names, NEW es, NEW pause,
         Placed(es, pause), Make(type, entity, es, pause), Raised(type, entity, es)
  PROVE  \E atk \in Attack : attacks' = attacks \cup {atk} /\ Pending(atk)'
  <1>1. PICK a \in Nat, b \in Nat : Between(es, a, b)
    BY DEF Placed
  <1>2. /\ pause \in Nat /\ Len(es) > 0 /\ es \in Seq(Event) /\ Emit(es)
        /\ events \in EventSets /\ type \in AlertTypes
        /\ Manifest(type, entity, es, pause) /\ attacks \subseteq Attack /\ IsFiniteSet(attacks)
    BY DEF Placed, Make, TypesInv, RuleTypes, AlertTypes
  <1>3. PICK atk \in Attack :
          /\ attacks' = attacks \cup {atk} /\ atk.type = type /\ atk.entity = entity
          /\ \A i \in 1 .. Len(es) : atk.start <= es[i].ts /\ es[i].ts <= atk.end
    BY <1>1, <1>2, ManifestIs
  <1>4. PICK t \in Nat :
          /\ Aligned(t) /\ Midnight + Day <= t /\ \E i \in 1 .. Len(es) : t < es[i].ts
          /\ \E c \in RuleFindings(WindowEvents(New(es), t)) : c.type = type /\ c.entity = entity
    BY DEF Raised
  <1>5. PICK c \in RuleFindings(WindowEvents(New(es), t)) : c.type = type /\ c.entity = entity
    BY <1>4
  <1> DEFINE S == WindowEvents(New(es), t)
             T == WindowEvents(events', t)
  <1>6. events' \in EventSets /\ \A i \in 1 .. Len(es) : Stamped(es, i) \in events'
    BY <1>2, EmitType
  <1>7. New(es) \in EventSets /\ \A i \in 1 .. Len(es) : Stamped(es, i).ts = es[i].ts
    BY <1>2, NewType
  <1>8. S \in EventSets /\ T \in EventSets /\ S \in SUBSET T /\ S \subseteq New(es)
    <2>1. New(es) \subseteq events'
      BY <1>6 DEF New
    <2>2. S \in SUBSET New(es) /\ T \in SUBSET events' /\ S \in SUBSET T
      BY <2>1 DEF WindowEvents
    <2> HIDE DEF S, T
    <2>3. QED
      BY <1>6, <1>7, <2>2, EventSubset
  <1> HIDE DEF S, T
  <1>9. c \in RuleFindings(S)
    BY DEF S
  <1>10. PICK d \in RuleFindings(T) : Same(d, c) /\ d.start <= c.start /\ c.end <= d.end
    BY <1>8, <1>9, RulesGrow
  <1>11. /\ atk.start <= c.start /\ c.start <= atk.end
         /\ atk.start <= c.end /\ c.end <= atk.end
    <2>1. Spans(c, S)
      BY <1>8, <1>9, RuleSpans
    <2>2. PICK e \in S : e.ts = c.start
      BY <2>1 DEF Spans
    <2>3. PICK f \in S : f.ts = c.end
      BY <2>1 DEF Spans
    <2>4. \A x \in S : atk.start <= x.ts /\ x.ts <= atk.end
      BY <1>3, <1>7, <1>8 DEF New
    <2>5. QED
      BY <2>2, <2>3, <2>4
  <1>12. FindsIt(d, atk)
    <2>1. c.start \in Nat /\ c.end \in Nat /\ d.start \in Nat /\ d.end \in Nat
      BY <1>8, <1>9, <1>10, RuleType
    <2>2. d.start <= atk.end /\ atk.start <= d.end
      BY <1>10, <1>11, <2>1, AttackTimes
    <2>3. QED
      BY <1>3, <1>5, <1>10, <2>2 DEF FindsIt, Same
  <1>13. \E x \in RuleFindings(WindowEvents(events', t)) : FindsIt(x, atk)
    BY <1>10, <1>12 DEF T
  <1>14. \E e \in events' : t < e.ts
    BY <1>4, <1>6, <1>7
  <1>15. Due(atk, t)'
    BY <1>4, <1>13, <1>14 DEF Due
  <1>16. QED
    BY <1>3, <1>15 DEF Pending

-----------------------------------------------------------------------------
(* The drain passes no window in which something is due. *)

LEMMA StepBack ==
  ASSUME NEW o \in Nat, Aligned(o), o - Step \in Nat
  PROVE  Aligned(o - Step)
  <1> DEFINE x == Truncate(o - Step)
  <1>1. x \in Nat /\ Aligned(x) /\ x <= o - Step /\ o - Step < x + Step
    BY TruncateBounds
  <1> HIDE DEF x
  <1>2. Step \in Nat \ {0}
    BY StepAssumption
  <1>3. Aligned(x + Step) /\ x + Step \in Nat
    BY <1>1, <1>2, NextAligned
  <1>4. x + Step < o + Step /\ o < x + Step + Step
    BY <1>1, <1>2
  <1>5. x + Step = o
    BY <1>3, <1>4, AlignedApart
  <1>6. x = o - Step
    BY <1>1, <1>2, <1>5
  <1>7. QED
    BY <1>1, <1>6

LEMMA NextWindowAligned ==
  ASSUME TypesInv, Drains, events # {}
  PROVE  NextWindow \in Nat /\ Aligned(NextWindow)
  <1>1. events \in EventSets /\ next \in Nat /\ Aligned(next)
    BY DEF TypesInv, Drains
  <1>2. /\ NextWindow \in Nat /\ Origin(events) \in Nat
        /\ next = 0 => NextWindow = Origin(events)
        /\ next # 0 => NextWindow = (IF Origin(events) - Step <= next THEN next
                                     ELSE Origin(events) - Step)
    BY <1>1, NextWindowIs
  <1>3. Aligned(Origin(events))
    <2>1. PICK e \in events : Origin(events) = Truncate(e.ts)
      BY <1>1, OriginIs
    <2>2. e.ts \in Nat
      BY <1>1 DEF EventSets, Event
    <2>3. QED
      BY <2>1, <2>2, TruncateBounds
  <1>4. CASE next = 0 \/ Origin(events) - Step <= next
    BY <1>1, <1>2, <1>3, <1>4
  <1>5. CASE next # 0 /\ ~ (Origin(events) - Step <= next)
    <2>1. NextWindow = Origin(events) - Step /\ Origin(events) - Step \in Nat
      BY <1>2, <1>5
    <2>2. QED
      BY <1>2, <1>3, <2>1, StepBack
  <1>6. QED
    BY <1>4, <1>5

LEMMA DueAhead ==
  ASSUME TypesInv, Drains, stage = "drain", NEW a, NEW t \in Nat, Due(a, t)
  PROVE  events # {} /\ NextWindow <= t
  <1>1. /\ Aligned(t) /\ next <= t /\ Midnight + Day <= t /\ events # {}
        /\ RuleFindings(WindowEvents(events, t)) # {}
    BY DEF Due
  <1> DEFINE o == Origin(events)
             n == NextWindow
  <1>2. events \in EventSets /\ next \in Nat /\ Step \in Nat \ {0} /\ Midnight + Day \in Nat
    BY StepAssumption, GeneratorAssumption DEF TypesInv, Day, Hour
  <1>3. \A e \in events : e.ts \in Nat /\ o <= e.ts
    <2>1. \A e \in events : o <= e.ts
      BY <1>1, <1>2, OriginType
    <2>2. QED
      BY <1>2, <2>1 DEF EventSets, Event
  <1>4. /\ n \in Nat /\ o \in Nat /\ Aligned(n)
        /\ next = 0 => n = o
        /\ next # 0 => n = (IF o - Step <= next THEN next ELSE o - Step)
    BY <1>1, <1>2, NextWindowIs, NextWindowAligned
  <1> HIDE DEF o, n
  <1>5. CASE next = 0
    <2>1. PICK e \in events : e.ts <= Midnight + Day
      BY <1>5 DEF Drains
    <2> DEFINE x == e.ts
               y == Midnight + Day
    <2>2. x \in Nat /\ o <= x /\ x <= y /\ y <= t /\ y \in Nat
      BY <1>1, <1>2, <1>3, <2>1
    <2> HIDE DEF x, y
    <2>3. n <= t
      BY <1>4, <1>5, <2>2
    <2>4. QED
      BY <1>1, <2>3 DEF n
  <1>6. CASE next # 0 /\ o - Step <= next
    BY <1>1, <1>4, <1>6 DEF n
  <1>7. CASE next # 0 /\ ~ (o - Step <= next)
    <2>1. n = o - Step
      BY <1>4, <1>7
    <2>2. ASSUME t < n
          PROVE  FALSE
      <3>1. t + Step <= n
        <4>1. ASSUME n < t + Step
              PROVE  FALSE
          <5>1. t < n + Step
            BY <1>2, <1>4, <2>2
          <5>2. t = n
            BY <1>1, <1>4, <4>1, <5>1, AlignedApart
          <5>3. QED
            BY <1>4, <2>2, <5>2
        <4>2. QED
          BY <1>2, <1>4, <4>1
      <3>2. t + 2 * Step <= o
        BY <1>2, <1>4, <2>1, <3>1
      <3>3. \A e \in events : ~ InWindow(e.ts, t)
        <4>1. ASSUME NEW e \in events
              PROVE  ~ InWindow(e.ts, t)
          <5> DEFINE x == e.ts
          <5>1. x \in Nat /\ o <= x
            BY <1>3
          <5> HIDE DEF x
          <5>2. ~ (x < t + 2 * Step)
            BY <1>2, <1>4, <3>2, <5>1
          <5>3. QED
            BY <5>2 DEF InWindow, x
        <4>2. QED
          BY <4>1
      <3>4. WindowEvents(events, t) = {}
        BY <3>3 DEF WindowEvents
      <3>5. Findings({}, EmptyBaselines) = {}
        BY FindingsOfNone
      <3>6. RuleFindings({}) = {}
        BY <3>5 DEF Findings
      <3>7. QED
        BY <1>1, <3>4, <3>6
    <2>3. QED
      BY <1>1, <1>4, <2>2 DEF n
  <1>8. QED
    BY <1>5, <1>6, <1>7

\* A window that is swept covers what is due in it, and leaves the rest due.
LEMMA SweptOrDue ==
  ASSUME TypesInv, Drains, stage = "drain", DrainWindow, NEW a \in Attack, Pending(a)
  PROVE  Seen(a)' \/ Pending(a)'
  <1>1. PICK t \in Nat : Due(a, t)
    BY DEF Pending
  <1>2. PICK c \in RuleFindings(WindowEvents(events, t)) : FindsIt(c, a)
    BY <1>1 DEF Due
  <1> DEFINE n == NextWindow
             S == WindowEvents(events, n)
  <1>3. /\ Aligned(t) /\ Midnight + Day <= t /\ events # {} /\ n <= t /\ n \in Nat /\ Aligned(n)
        /\ \E e \in events : t < e.ts
    BY <1>1, DueAhead, NextWindowAligned DEF Due
  <1>4. /\ \E f \in Orders(Findings(S, mem)) : alerts' = Store(alerts, f)
        /\ events' = {e \in events : e.ts >= n + Step} /\ next' = n + Step
    BY DEF DrainWindow
  <1>5. events \in EventSets /\ alerts \in Seq(AlertRow) /\ Step \in Nat \ {0}
    BY StepAssumption DEF TypesInv
  <1>6. \A e \in events : e.ts \in Nat
    BY <1>5 DEF EventSets, Event
  <1>7. CASE t = n
    <2>1. S \in EventSets
      <3>1. S \in SUBSET events
        BY DEF WindowEvents
      <3>2. QED
        BY <1>5, <3>1, EventSubset
    <2>2. c \in Findings(S, mem)
      BY <1>2, <1>7 DEF Findings
    <2>3. c \in Candidate
      BY <2>1, <2>2, FindingsType
    <2>4. Covered(alerts', c)
      <3>1. PICK f \in Orders(Findings(S, mem)) : alerts' = Store(alerts, f)
        BY <1>4
      <3> HIDE DEF S
      <3>2. QED
        BY <1>5, <2>1, <2>2, <3>1, FindingsCovered
    <2>5. QED
      BY <1>2, <2>3, <2>4 DEF Seen
  <1>8. CASE t # n
    <2> HIDE DEF n
    <2>1. n + Step <= t
      <3>1. ASSUME t < n + Step
            PROVE  FALSE
        <4>1. n < t + Step
          BY <1>3, <1>5
        <4>2. t = n
          BY <1>3, <3>1, <4>1, AlignedApart
        <4>3. QED
          BY <1>8, <4>2
      <3>2. QED
        BY <1>3, <1>5, <3>1
    <2>2. \A e \in events : t <= e.ts => e.ts >= n + Step
      BY <1>3, <1>5, <1>6, <2>1
    <2>3. WindowEvents(events', t) = WindowEvents(events, t)
      BY <1>4, <2>2 DEF WindowEvents, InWindow
    <2>4. \E e \in events' : t < e.ts
      <3>1. PICK e \in events : t < e.ts
        BY <1>3
      <3>2. t <= e.ts
        BY <1>6, <3>1
      <3>3. QED
        BY <1>4, <2>2, <3>1, <3>2
    <2>5. \E x \in RuleFindings(WindowEvents(events', t)) : FindsIt(x, a)
      BY <1>2, <2>3
    <2>6. Due(a, t)'
      BY <1>3, <1>4, <2>1, <2>4, <2>5 DEF Due
    <2>7. QED
      BY <2>6 DEF Pending
  <1>9. QED
    BY <1>7, <1>8

\* When the drain ends, nothing is due.
LEMMA NothingDue ==
  ASSUME TypesInv, Drains, stage = "drain", ~ Drainable, NEW a, Pending(a)
  PROVE  FALSE
  <1>1. PICK t \in Nat : Due(a, t)
    BY DEF Pending
  <1>2. events # {} /\ NextWindow <= t
    BY <1>1, DueAhead
  <1>3. PICK e \in events : t < e.ts
    BY <1>1 DEF Due
  <1> DEFINE T == {x.ts : x \in events}
             f == [x \in events |-> x.ts]
             m == Max(T)
  <1>4. events \in EventSets
    BY DEF TypesInv
  <1>5. T \in SUBSET Nat /\ e.ts \in T
    BY <1>4 DEF EventSets, Event
  <1>6. IsFiniteSet(T)
    <2>1. f \in Surjection(events, T)
      BY DEF Surjection
    <2> HIDE DEF f, T
    <2>2. QED
      BY <1>4, <2>1, FS_Surjection DEF EventSets
  <1>7. ~ (NextWindow < m)
    BY <1>2 DEF Drainable
  <1> HIDE DEF T
  <1>8. PICK b \in Nat : \A y \in T : y <= b
    BY <1>5, <1>6, FiniteBounded
  <1>9. m \in T /\ e.ts <= m
    BY <1>5, <1>8, MaxOfNat
  <1>10. m \in Nat /\ e.ts \in Nat /\ NextWindow \in Nat
    BY <1>2, <1>5, <1>9, NextWindowAligned
  <1> DEFINE n == NextWindow
             y == e.ts
  <1>11. n <= t /\ t < y /\ y <= m /\ ~ (n < m) /\ n \in Nat /\ y \in Nat /\ m \in Nat
    BY <1>2, <1>3, <1>7, <1>9, <1>10
  <1> HIDE DEF n, y, m
  <1>12. QED
    BY <1>11

-----------------------------------------------------------------------------
(* No step loses an attack *)

LEMMA FoundInit == Init => FoundInv
  <1> SUFFICES ASSUME Init PROVE FoundInv
    OBVIOUS
  <1>1. next = 0 /\ stage = "attacks" /\ attacks = {}
    BY DEF Init
  <1>2. Aligned(0)
    BY StepAssumption DEF Aligned
  <1>3. QED
    BY <1>1, <1>2 DEF FoundInv, Drains

\* An attack is made before the drain, and is due when it is one for the rules.
LEMMA AttackFound ==
  ASSUME WithinReach, TypesInv, FoundInv, Attacking
  PROVE  FoundInv'
  <1>1. PICK type \in AlertTypes, entity \in Names : Made(type, entity)
    BY AttackMakes
  <1>2. PICK es, pause : /\ Placed(es, pause) /\ Make(type, entity, es, pause)
                         /\ type \in RuleTypes => Raised(type, entity, es)
    BY <1>1 DEF Made
  <1>3. /\ stage = "attacks" /\ stage' = stage /\ next' = next /\ alerts' = alerts
        /\ Emit(es) /\ Manifest(type, entity, es, pause)
    BY <1>2 DEF Make, draining
  <1>4. next = 0 /\ Drains'
    BY <1>3 DEF FoundInv, Drains
  <1>5. es \in Seq(Event) /\ events \in EventSets /\ attacks \subseteq Attack
    BY <1>2 DEF Placed, TypesInv
  <1>6. events' \in EventSets /\ events \subseteq events'
    BY <1>3, <1>5, EmitType
  <1>7. \A a \in attacks : a.type \in RuleTypes => Seen(a)' \/ Pending(a)'
    <2>1. ASSUME NEW a \in attacks, a.type \in RuleTypes
          PROVE  Seen(a)' \/ Pending(a)'
      <3>1. Seen(a) \/ Pending(a)
        BY <2>1 DEF FoundInv
      <3>2. Seen(a) => Seen(a)'
        BY <1>3 DEF Seen
      <3>3. Pending(a) => Pending(a)'
        BY <1>3, <1>5, <1>6, StaysDue
      <3>4. QED
        BY <3>1, <3>2, <3>3
    <2>2. QED
      BY <2>1
  <1>8. \A a \in attacks' : a \in attacks \/ (a.type \in RuleTypes => Pending(a)')
    <2>1. CASE type \in RuleTypes
      BY <1>2, <1>3, <1>4, <2>1, RaisedDue
    <2>2. CASE type \notin RuleTypes
      <3>1. \A a \in attacks' : a \in attacks \/ a.type = type
        BY <1>3 DEF Manifest
      <3>2. QED
        BY <2>2, <3>1
    <2>3. QED
      BY <2>1, <2>2
  <1>9. stage' # "done"
    BY <1>3
  <1>10. \A a \in attacks' : a.type \in RuleTypes => Seen(a)' \/ (stage' # "done" /\ Pending(a)')
    BY <1>7, <1>8, <1>9
  <1>11. QED
    BY <1>4, <1>10 DEF FoundInv

\* Benign events take nothing away.
LEMMA BenignFound ==
  ASSUME TypesInv, FoundInv, Drains', alerts' = alerts, attacks' = attacks, next' = next,
         stage # "done", stage' # "done", events' \in EventSets, events \subseteq events'
  PROVE  FoundInv'
  <1>1. ASSUME NEW a \in attacks, a.type \in RuleTypes
        PROVE  Seen(a)' \/ Pending(a)'
    <2>1. Seen(a) \/ Pending(a)
      BY <1>1 DEF FoundInv
    <2>2. Seen(a) => Seen(a)'
      BY DEF Seen
    <2>3. a \in Attack /\ events \in EventSets
      BY DEF TypesInv
    <2>4. Pending(a) => Pending(a)'
      BY <2>3, StaysDue
    <2>5. QED
      BY <2>1, <2>2, <2>4
  <1>2. QED
    BY <1>1 DEF FoundInv

LEMMA FoundNext == WithinReach /\ TypesInv /\ TypesInv' /\ FoundInv /\ [Next]_vars => FoundInv'
  <1> SUFFICES ASSUME WithinReach, TypesInv, TypesInv', FoundInv, [Next]_vars PROVE FoundInv'
    OBVIOUS
  <1> USE DEF user, draining
  <1>0. Drains /\ events \in EventSets /\ events' \in EventSets
    BY DEF FoundInv, TypesInv
  <1>1. CASE Attacking
    BY <1>1, AttackFound
  <1>2. CASE AttacksMade
    <2>1. /\ stage = "attacks" /\ stage' = "forced"
          /\ UNCHANGED <<events, attacks, alerts, next>>
      BY <1>2 DEF AttacksMade
    <2>2. Drains'
      BY <1>0, <2>1 DEF Drains
    <2>3. QED
      BY <1>0, <2>1, <2>2, BenignFound
  <1>3. CASE ForcedBaseline
    <2>1. stage = "forced" /\ stage' = "benign" /\ UNCHANGED <<attacks, alerts, next>>
      BY <1>3 DEF ForcedBaseline
    <2>2. PICK es \in Seq(Event) :
            /\ Emit(es) /\ Len(es) > 0
            /\ es[1].ts = LocalTS(0, workStart, Draw(warm.x, 0, 29))
      BY <1>3, ForcedRows DEF TypesInv
    <2>3. events \subseteq events' /\ \A i \in 1 .. Len(es) : Stamped(es, i) \in events'
      BY <1>0, <2>2, EmitType
    <2>4. LocalTS(0, workStart, Draw(warm.x, 0, 29)) <= Midnight + Day
      <3> DEFINE m == Draw(warm.x, 0, 29)
      <3>1. m \in 0 .. 59
        BY MinuteDrawn
      <3> HIDE DEF m
      <3>2. UserOK /\ Midnight \in Nat
        BY GeneratorAssumption DEF TypesInv
      <3>3. LocalTS(0, workStart, m) <= Midnight + Day
        BY <3>1, <3>2 DEF UserOK, LocalTS, Day, Hour
      <3>4. QED
        BY <3>3 DEF m
    <2>5. \E e \in events' : e.ts <= Midnight + Day
      <3>1. 1 \in 1 .. Len(es)
        BY <2>2
      <3>2. Stamped(es, 1).ts = es[1].ts /\ Stamped(es, 1) \in events'
        BY <1>0, <2>3, <3>1, NewType
      <3>3. QED
        BY <2>2, <2>4, <3>2
    <2>6. Drains'
      BY <1>0, <2>1, <2>5 DEF Drains
    <2>7. QED
      BY <1>0, <2>1, <2>3, <2>6, BenignFound
  <1>4. CASE Benign
    <2>1. stage = "benign" /\ stage' = "drain" /\ UNCHANGED <<attacks, alerts, next>>
      BY <1>4 DEF Benign
    <2>2. events \subseteq events'
      BY <1>0, <1>4, BenignRows, EmitType DEF TypesInv
    <2>3. Drains'
      BY <1>0, <2>1, <2>2 DEF Drains
    <2>4. QED
      BY <1>0, <2>1, <2>2, <2>3, BenignFound
  <1>5. CASE DrainWindow
    <2> DEFINE n == NextWindow
    <2>1. /\ stage = "drain" /\ stage' = "drain" /\ attacks' = attacks /\ events # {}
          /\ next' = n + Step
          /\ \E f \in Orders(Findings(WindowEvents(events, n), mem)) : alerts' = Store(alerts, f)
      BY <1>5 DEF DrainWindow, Drainable
    <2>2. n \in Nat /\ Aligned(n) /\ Step \in Nat \ {0}
      BY <1>0, <2>1, NextWindowAligned, StepAssumption
    <2>3. Drains'
      <3> HIDE DEF n
      <3>1. Aligned(n + Step) /\ n + Step # 0
        BY <2>2, NextAligned
      <3>2. QED
        BY <2>1, <3>1 DEF Drains
    <2>4. ASSUME NEW a \in attacks, a.type \in RuleTypes
          PROVE  Seen(a)' \/ Pending(a)'
      <3>1. Seen(a) \/ Pending(a)
        BY <2>4 DEF FoundInv
      <3>2. a \in Attack
        BY DEF TypesInv
      <3>3. ASSUME Seen(a)
            PROVE  Seen(a)'
        <4>1. PICK c \in Candidate : FindsIt(c, a) /\ Covered(alerts, c)
          BY <3>3 DEF Seen
        <4>2. WindowEvents(events, n) \in EventSets /\ alerts \in Seq(AlertRow)
          <5>1. WindowEvents(events, n) \in SUBSET events
            BY DEF WindowEvents
          <5>2. QED
            BY <1>0, <5>1, EventSubset DEF TypesInv
        <4>3. Covered(alerts', c)
          <5> DEFINE S == WindowEvents(events, n)
          <5>1. PICK f \in Orders(Findings(S, mem)) : alerts' = Store(alerts, f)
            BY <2>1
          <5>2. S \in EventSets
            BY <4>2
          <5> HIDE DEF S
          <5>3. QED
            BY <4>1, <4>2, <5>1, <5>2, FindingsCovered
        <4>4. QED
          BY <4>1, <4>3 DEF Seen
      <3>4. QED
        BY <1>0, <1>5, <2>1, <3>1, <3>2, <3>3, SweptOrDue
    <2>5. QED
      BY <2>1, <2>3, <2>4 DEF FoundInv
  <1>6. CASE Drained
    <2>1. /\ stage = "drain" /\ ~ Drainable /\ stage' = "done"
          /\ UNCHANGED <<attacks, alerts, next>>
      BY <1>6 DEF Drained
    <2>2. Drains'
      BY <1>0, <2>1 DEF Drains
    <2>3. ASSUME NEW a \in attacks, a.type \in RuleTypes
          PROVE  Seen(a)'
      <3>1. Seen(a) \/ Pending(a)
        BY <2>3 DEF FoundInv
      <3>2. ~ Pending(a)
        BY <1>0, <2>1, NothingDue
      <3>3. QED
        BY <2>1, <3>1, <3>2 DEF Seen
    <2>4. QED
      BY <2>1, <2>2, <2>3 DEF FoundInv
  <1>7. CASE UNCHANGED vars
    BY <1>7 DEF vars, FoundInv, Drains, Seen, Pending, Due
  <1>8. QED
    BY <1>1, <1>2, <1>3, <1>4, <1>5, <1>6, <1>7 DEF Next

-----------------------------------------------------------------------------
(* What the evaluator says of it *)

\* What is covered by a row is a hit, if no row is cut from the list.
LEMMA SeenIsHit ==
  ASSUME alerts \in Seq(AlertRow), Len(alerts) <= ListLimit, NEW a \in Attack, Seen(a),
         NEW r \in Results
  PROVE  a \notin r.missed
  <1>1. PICK c \in Candidate : FindsIt(c, a) /\ Covered(alerts, c)
    BY DEF Seen
  <1>2. PICK n \in 1 .. Len(alerts) : /\ Same(alerts[n], c) /\ alerts[n].start <= c.start
                                      /\ c.end <= alerts[n].end
    BY <1>1 DEF Covered, Same
  <1> DEFINE al == alerts[n]
             listed == {alerts[k] : k \in 1 .. Len(alerts)}
  <1>3. al \in listed /\ al.start \in Nat /\ al.end \in Nat
    BY RowNumbers
  <1>4. c.start \in Nat /\ c.end \in Nat /\ a.start \in Nat /\ a.end \in Nat /\ ScorePad \in Nat
    BY AttackTimes, PadAssumption DEF Candidate
  <1>5. al.type = a.type /\ al.entity = a.entity
    BY <1>1, <1>2 DEF FindsIt, Same
  <1>6. /\ c.start <= a.end /\ a.start <= c.end /\ al.start <= c.start /\ c.end <= al.end
    BY <1>1, <1>2 DEF FindsIt
  <1>7. Listings(alerts) = {listed}
    BY AllListings
  <1> HIDE DEF al, listed
  <1>8. al.start <= a.end + ScorePad /\ al.end >= a.start - ScorePad
    BY <1>3, <1>4, <1>6, SMTT(60)
  <1>9. OnTarget(al, a)
    BY <1>5, <1>8 DEF OnTarget, EntityMatches, InTime
  <1>10. r = Score(attacks, listed)
    BY <1>7 DEF Results, Scores
  <1>11. r.missed = {atk \in attacks : ~ \E x \in listed : x.type = atk.type /\ OnTarget(x, atk)}
    BY <1>10 DEF Score
  <1>12. QED
    BY <1>3, <1>5, <1>9, <1>11

\* The part of AttacksAreFound that no baseline has a say in: if the listing is
\* not cut, the evaluator misses no attack that a rule is about.
RuleAttacksFound ==
  stage = "done" /\ Len(alerts) <= ListLimit =>
    \A r \in Results : \A a \in r.missed : a.type \notin RuleTypes

\* "recall 100%", of the rules: for every user, plan, number of days, fleet and
\* draw, and wherever a burst lies across the windows, what the generator
\* attacks with is found by the detector made for it, if the thresholds are
\* within reach as the defaults are.
THEOREM RuleAttacksAreFound == WithinReach => (Spec => []RuleAttacksFound)
  <1> SUFFICES ASSUME WithinReach PROVE Spec => []RuleAttacksFound
    OBVIOUS
  <1>1. Init => TypesInv /\ FoundInv
    BY TypesInit, FoundInit
  <1>2. TypesInv /\ FoundInv /\ [Next]_vars => (TypesInv /\ FoundInv)'
    BY TypesNext, FoundNext
  <1>3. TypesInv /\ FoundInv => RuleAttacksFound
    <2> SUFFICES ASSUME TypesInv, FoundInv, stage = "done", Len(alerts) <= ListLimit,
                        NEW r \in Results, NEW a \in r.missed, a.type \in RuleTypes
        PROVE  FALSE
      BY DEF RuleAttacksFound
    <2>1. a \in attacks
      <3>1. PICK listed : r = Score(attacks, listed)
        BY DEF Results, Scores
      <3>2. QED
        BY <3>1 DEF Score
    <2>2. a \in Attack /\ alerts \in Seq(AlertRow) /\ Seen(a)
      BY <2>1 DEF TypesInv, FoundInv
    <2>3. QED
      BY <2>2, SeenIsHit
  <1>4. QED
    BY <1>1, <1>2, <1>3, PTL DEF Spec

=============================================================================
