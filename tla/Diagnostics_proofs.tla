---- MODULE Diagnostics_proofs ----
(***************************************************************************)
(* Proofs about Diagnostics, for any number of publishers, events, faults  *)
(* and restarts: what the timeline stores and in which order, and that the *)
(* incidents rebuilt from it are those of the tracker. What the recursive  *)
(* functions Build and Kept compute is found by induction, first on a      *)
(* number and from it on a sequence: a set that holds zero, and with each  *)
(* number the next, misses none, for it would miss a least one.            *)
(***************************************************************************)
EXTENDS Diagnostics, SequenceTheorems, WellFoundedInduction, TLAPS

-----------------------------------------------------------------------------
\* Induction.

Below == {p \in Nat \X Nat : p[1] < p[2]}

LEMMA BelowIsWellFounded == IsWellFoundedOn(Below, Nat)
  BY NatLessThanWellFounded, Zenon DEF OpToRel, Below

LEMMA LeastExists ==
  ASSUME NEW S, S \subseteq Nat, S # {}
  PROVE  \E n \in S : \A m \in S : n <= m
<1>1. PICK x \in S : \A y \in S : ~ (<<y, x>> \in Below)
  BY WFMin, BelowIsWellFounded
<1>2. ASSUME NEW y \in S PROVE x <= y
  <2>1. x \in Nat /\ y \in Nat /\ <<y, x>> \in Nat \X Nat
    OBVIOUS
  <2>2. ~ (y < x)
    BY <1>1, <2>1 DEF Below
  <2> QED
    BY <2>1, <2>2
<1> QED
  BY <1>1, <1>2

LEMMA NatInduct ==
  ASSUME NEW S, 0 \in S, \A n \in Nat : n \in S => n + 1 \in S
  PROVE  \A n \in Nat : n \in S
<1> SUFFICES ASSUME Nat \ S # {} PROVE FALSE
  OBVIOUS
<1>1. PICK n \in Nat \ S : \A m \in Nat \ S : n <= m
  BY LeastExists
<1>2. n # 0 /\ n - 1 \in Nat
  BY <1>1
<1>3. n - 1 \in S
  BY <1>1, <1>2
<1> QED
  BY <1>1, <1>2, <1>3, n = (n - 1) + 1

LEMMA SeqInduct ==
  ASSUME NEW S, NEW P, <<>> \in P,
         \A s \in Seq(S), e \in S : s \in P => Append(s, e) \in P
  PROVE  \A s \in Seq(S) : s \in P
<1> DEFINE N == {n \in Nat : \A s \in Seq(S) : Len(s) = n => s \in P}
<1>1. 0 \in N
  BY EmptySeq
<1>2. ASSUME NEW n \in Nat, n \in N PROVE n + 1 \in N
  <2> SUFFICES ASSUME NEW s \in Seq(S), Len(s) = n + 1 PROVE s \in P
    OBVIOUS
  <2>1. s # <<>>
    OBVIOUS
  <2>2. PICK t \in Seq(S), e \in S : s = Append(t, e)
    BY <2>1, SequenceEmptyOrAppend
  <2>3. Len(t) \in Nat /\ Len(s) = Len(t) + 1
    BY <2>2, AppendProperties
  <2>4. Len(t) = n
    BY <2>3
  <2>5. t \in P
    BY <1>2, <2>4
  <2> QED
    BY <2>2, <2>5
<1> HIDE DEF N
<1>3. \A n \in Nat : n \in N
  BY <1>1, <1>2, NatInduct
<1> QED
  BY <1>3 DEF N

-----------------------------------------------------------------------------
\* What build_incidents computes: each event is fed to what those before it gave.

\* The first n + 1 values of the recursive function of Build.
IsBuilt(events, n, b) ==
  /\ b[0] = NoBuilder
  /\ \A k \in 1..n : b[k] = Feed(b[k - 1], events[k])

LEMMA BuiltUnique ==
  ASSUME NEW s, NEW t, NEW n \in Nat, NEW b, NEW c, IsBuilt(s, n, b), IsBuilt(t, n, c),
         \A k \in 1..n : s[k] = t[k]
  PROVE  b[n] = c[n]
<1> DEFINE S == {k \in Nat : k <= n => b[k] = c[k]}
<1>1. 0 \in S
  BY DEF IsBuilt
<1>2. ASSUME NEW k \in Nat, k \in S PROVE k + 1 \in S
  <2> SUFFICES ASSUME k + 1 <= n PROVE b[k + 1] = c[k + 1]
    OBVIOUS
  <2>1. b[k] = c[k] /\ k + 1 \in 1..n /\ (k + 1) - 1 = k
    BY <1>2
  <2>2. b[k + 1] = Feed(b[k], s[k + 1]) /\ c[k + 1] = Feed(c[k], t[k + 1])
    BY <2>1 DEF IsBuilt
  <2> QED
    BY <2>1, <2>2
<1> HIDE DEF S
<1>3. \A k \in Nat : k \in S
  BY <1>1, <1>2, NatInduct
<1> QED
  BY <1>3 DEF S

LEMMA BuiltExists == ASSUME NEW s, NEW n \in Nat PROVE \E b : IsBuilt(s, n, b)
<1> DEFINE S == {k \in Nat : \E b : IsBuilt(s, k, b)}
<1>1. 0 \in S
  <2>1. IsBuilt(s, 0, [k \in {0} |-> NoBuilder])
    BY DEF IsBuilt
  <2> QED
    BY <2>1
<1>2. ASSUME NEW k \in Nat, k \in S PROVE k + 1 \in S
  <2>1. PICK b : IsBuilt(s, k, b)
    BY <1>2
  <2> DEFINE c == [i \in 0..k + 1 |-> IF i = k + 1 THEN Feed(b[k], s[k + 1]) ELSE b[i]]
  <2>2. c[0] = NoBuilder
    BY <2>1 DEF IsBuilt
  <2>3. ASSUME NEW i \in 1..k + 1 PROVE c[i] = Feed(c[i - 1], s[i])
    <3>1. i - 1 \in 0..k + 1 /\ i - 1 # k + 1
      OBVIOUS
    <3>2. CASE i = k + 1
      BY <3>1, <3>2
    <3>3. CASE i # k + 1
      BY <2>1, <3>1, <3>3 DEF IsBuilt
    <3> QED
      BY <3>2, <3>3
  <2>4. IsBuilt(s, k + 1, c)
    BY <2>2, <2>3 DEF IsBuilt
  <2> QED
    BY <2>4
<1> HIDE DEF S
<1>3. \A k \in Nat : k \in S
  BY <1>1, <1>2, NatInduct
<1> QED
  BY <1>3 DEF S

LEMMA BuildIsBuilt ==
  ASSUME NEW s, Len(s) \in Nat
  PROVE  \E b : IsBuilt(s, Len(s), b) /\ Build(s) = b[Len(s)]
<1> DEFINE part(n) == CHOOSE b : IsBuilt(s, n, b)
           f == [n \in Nat |-> part(n)[n]]
           b == CHOOSE g : g = [n \in Nat |-> IF n = 0 THEN NoBuilder ELSE Feed(g[n - 1], s[n])]
<1>1. \A n \in Nat : IsBuilt(s, n, part(n))
  BY BuiltExists
<1> HIDE DEF part
<1>2. \A n \in Nat \ {0} : part(n)[n - 1] = part(n - 1)[n - 1]
  <2> SUFFICES ASSUME NEW n \in Nat \ {0} PROVE part(n)[n - 1] = part(n - 1)[n - 1]
    OBVIOUS
  <2>1. n - 1 \in Nat /\ IsBuilt(s, n - 1, part(n - 1))
    BY <1>1
  <2>2. IsBuilt(s, n - 1, part(n))
    BY <1>1 DEF IsBuilt
  <2> QED
    BY <2>1, <2>2, BuiltUnique
<1>3. f = [n \in Nat |-> IF n = 0 THEN NoBuilder ELSE Feed(f[n - 1], s[n])]
  <2> SUFFICES ASSUME NEW n \in Nat PROVE f[n] = IF n = 0 THEN NoBuilder ELSE Feed(f[n - 1], s[n])
    OBVIOUS
  <2>1. CASE n = 0
    BY <2>1, <1>1 DEF IsBuilt
  <2>2. CASE n # 0
    <3>1. part(n)[n] = Feed(part(n)[n - 1], s[n])
      BY <2>2, <1>1 DEF IsBuilt
    <3> QED
      BY <3>1, <1>2, <2>2
  <2> QED
    BY <2>1, <2>2
<1> HIDE DEF f
<1>4. b = [n \in Nat |-> IF n = 0 THEN NoBuilder ELSE Feed(b[n - 1], s[n])]
  BY <1>3, Zenon
<1>5. Build(s) = b[Len(s)]
  BY Zenon DEF Build
<1> HIDE DEF b
<1>6. IsBuilt(s, Len(s), b)
  <2>1. b[0] = NoBuilder
    BY <1>4
  <2>2. \A k \in 1..Len(s) : b[k] = Feed(b[k - 1], s[k])
    BY <1>4
  <2> QED
    BY <2>1, <2>2 DEF IsBuilt
<1> QED
  BY <1>5, <1>6

\* An event more is fed to what the others gave.
LEMMA BuildAppend ==
  ASSUME NEW S, NEW s \in Seq(S), NEW e \in S
  PROVE  Build(Append(s, e)) = Feed(Build(s), e)
<1> DEFINE t == Append(s, e)
<1>1. Len(t) \in Nat /\ Len(s) \in Nat /\ Len(t) = Len(s) + 1
      /\ t[Len(s) + 1] = e /\ \A k \in 1..Len(s) : t[k] = s[k]
  BY AppendProperties
<1> HIDE DEF t
<1>2. PICK b : IsBuilt(s, Len(s), b) /\ Build(s) = b[Len(s)]
  BY <1>1, BuildIsBuilt
<1>3. PICK c : IsBuilt(t, Len(t), c) /\ Build(t) = c[Len(t)]
  BY <1>1, BuildIsBuilt
<1>4. IsBuilt(t, Len(s), c)
  BY <1>1, <1>3 DEF IsBuilt
<1>5. b[Len(s)] = c[Len(s)]
  <2>1. Len(s) \in Nat
    BY <1>1
  <2>2. IsBuilt(s, Len(s), b)
    BY <1>2
  <2>3. \A k \in 1..Len(s) : s[k] = t[k]
    BY <1>1
  <2> QED
    BY <1>4, <2>1, <2>2, <2>3, BuiltUnique
<1>6. c[Len(s) + 1] = Feed(c[Len(s)], e)
  <2>1. Len(s) + 1 \in 1..Len(t) /\ (Len(s) + 1) - 1 = Len(s)
    BY <1>1
  <2> QED
    BY <1>1, <1>3, <2>1 DEF IsBuilt
<1> QED
  BY <1>1, <1>2, <1>3, <1>5, <1>6 DEF t

LEMMA BuildEmpty == Build(<<>>) = NoBuilder
<1>1. Len(<<>>) = 0
  OBVIOUS
<1>2. PICK b : IsBuilt(<<>>, 0, b) /\ Build(<<>>) = b[0]
  BY <1>1, BuildIsBuilt
<1> QED
  BY <1>2 DEF IsBuilt

-----------------------------------------------------------------------------
\* What the DELETE of prune_older_than leaves, likewise.

Keep(kept, e, m) == IF e.id > m THEN Append(kept, e) ELSE kept

\* The first n + 1 values of the recursive function of Kept.
IsKept(events, m, n, b) ==
  /\ b[0] = <<>>
  /\ \A k \in 1..n : b[k] = Keep(b[k - 1], events[k], m)

LEMMA KeptUnique ==
  ASSUME NEW s, NEW m, NEW t, NEW n \in Nat, NEW b, NEW c, IsKept(s, m, n, b), IsKept(t, m, n, c),
         \A k \in 1..n : s[k] = t[k]
  PROVE  b[n] = c[n]
<1> DEFINE S == {k \in Nat : k <= n => b[k] = c[k]}
<1>1. 0 \in S
  BY DEF IsKept
<1>2. ASSUME NEW k \in Nat, k \in S PROVE k + 1 \in S
  <2> SUFFICES ASSUME k + 1 <= n PROVE b[k + 1] = c[k + 1]
    OBVIOUS
  <2>1. b[k] = c[k] /\ k + 1 \in 1..n /\ (k + 1) - 1 = k
    BY <1>2
  <2>2. b[k + 1] = Keep(b[k], s[k + 1], m) /\ c[k + 1] = Keep(c[k], t[k + 1], m)
    BY <2>1 DEF IsKept
  <2> QED
    BY <2>1, <2>2
<1> HIDE DEF S
<1>3. \A k \in Nat : k \in S
  BY <1>1, <1>2, NatInduct
<1> QED
  BY <1>3 DEF S

LEMMA KeptExists == ASSUME NEW s, NEW m, NEW n \in Nat PROVE \E b : IsKept(s, m, n, b)
<1> DEFINE S == {k \in Nat : \E b : IsKept(s, m, k, b)}
<1>1. 0 \in S
  <2>1. IsKept(s, m, 0, [k \in {0} |-> <<>>])
    BY DEF IsKept
  <2> QED
    BY <2>1
<1>2. ASSUME NEW k \in Nat, k \in S PROVE k + 1 \in S
  <2>1. PICK b : IsKept(s, m, k, b)
    BY <1>2
  <2> DEFINE c == [i \in 0..k + 1 |-> IF i = k + 1 THEN Keep(b[k], s[k + 1], m) ELSE b[i]]
  <2>2. c[0] = <<>>
    BY <2>1 DEF IsKept
  <2>3. ASSUME NEW i \in 1..k + 1 PROVE c[i] = Keep(c[i - 1], s[i], m)
    <3>1. i - 1 \in 0..k + 1 /\ i - 1 # k + 1
      OBVIOUS
    <3>2. CASE i = k + 1
      BY <3>1, <3>2
    <3>3. CASE i # k + 1
      BY <2>1, <3>1, <3>3 DEF IsKept
    <3> QED
      BY <3>2, <3>3
  <2>4. IsKept(s, m, k + 1, c)
    BY <2>2, <2>3 DEF IsKept
  <2> QED
    BY <2>4
<1> HIDE DEF S
<1>3. \A k \in Nat : k \in S
  BY <1>1, <1>2, NatInduct
<1> QED
  BY <1>3 DEF S

LEMMA KeptIsKept ==
  ASSUME NEW s, NEW m, Len(s) \in Nat
  PROVE  \E b : IsKept(s, m, Len(s), b) /\ Kept(s, m) = b[Len(s)]
<1> DEFINE part(n) == CHOOSE b : IsKept(s, m, n, b)
           f == [n \in Nat |-> part(n)[n]]
           b == CHOOSE g : g = [n \in Nat |-> IF n = 0 THEN <<>> ELSE Keep(g[n - 1], s[n], m)]
<1>1. \A n \in Nat : IsKept(s, m, n, part(n))
  BY KeptExists
<1> HIDE DEF part
<1>2. \A n \in Nat \ {0} : part(n)[n - 1] = part(n - 1)[n - 1]
  <2> SUFFICES ASSUME NEW n \in Nat \ {0} PROVE part(n)[n - 1] = part(n - 1)[n - 1]
    OBVIOUS
  <2>1. n - 1 \in Nat /\ IsKept(s, m, n - 1, part(n - 1))
    BY <1>1
  <2>2. IsKept(s, m, n - 1, part(n))
    BY <1>1 DEF IsKept
  <2> QED
    BY <2>1, <2>2, KeptUnique
<1>3. f = [n \in Nat |-> IF n = 0 THEN <<>> ELSE Keep(f[n - 1], s[n], m)]
  <2> SUFFICES ASSUME NEW n \in Nat PROVE f[n] = IF n = 0 THEN <<>> ELSE Keep(f[n - 1], s[n], m)
    OBVIOUS
  <2>1. CASE n = 0
    BY <2>1, <1>1 DEF IsKept
  <2>2. CASE n # 0
    <3>1. part(n)[n] = Keep(part(n)[n - 1], s[n], m)
      BY <2>2, <1>1 DEF IsKept
    <3> QED
      BY <3>1, <1>2, <2>2
  <2> QED
    BY <2>1, <2>2
<1> HIDE DEF f
<1>4. b = [n \in Nat |-> IF n = 0 THEN <<>> ELSE Keep(b[n - 1], s[n], m)]
  BY <1>3, Zenon
<1>5. Kept(s, m) = b[Len(s)]
  BY Zenon DEF Kept, Keep
<1> HIDE DEF b
<1>6. IsKept(s, m, Len(s), b)
  <2>1. b[0] = <<>>
    BY <1>4
  <2>2. \A k \in 1..Len(s) : b[k] = Keep(b[k - 1], s[k], m)
    BY <1>4
  <2> QED
    BY <2>1, <2>2 DEF IsKept
<1> QED
  BY <1>5, <1>6

\* An event more is kept or not.
LEMMA KeptAppend ==
  ASSUME NEW m, NEW S, NEW s \in Seq(S), NEW e \in S
  PROVE  Kept(Append(s, e), m) = Keep(Kept(s, m), e, m)
<1> DEFINE t == Append(s, e)
<1>1. Len(t) \in Nat /\ Len(s) \in Nat /\ Len(t) = Len(s) + 1
      /\ t[Len(s) + 1] = e /\ \A k \in 1..Len(s) : t[k] = s[k]
  BY AppendProperties
<1> HIDE DEF t
<1>2. PICK b : IsKept(s, m, Len(s), b) /\ Kept(s, m) = b[Len(s)]
  BY <1>1, KeptIsKept
<1>3. PICK c : IsKept(t, m, Len(t), c) /\ Kept(t, m) = c[Len(t)]
  BY <1>1, KeptIsKept
<1>4. IsKept(t, m, Len(s), c)
  BY <1>1, <1>3 DEF IsKept
<1>5. b[Len(s)] = c[Len(s)]
  <2>1. Len(s) \in Nat
    BY <1>1
  <2>2. IsKept(s, m, Len(s), b)
    BY <1>2
  <2>3. \A k \in 1..Len(s) : s[k] = t[k]
    BY <1>1
  <2> QED
    BY <1>4, <2>1, <2>2, <2>3, KeptUnique
<1>6. c[Len(s) + 1] = Keep(c[Len(s)], e, m)
  <2>1. Len(s) + 1 \in 1..Len(t) /\ (Len(s) + 1) - 1 = Len(s)
    BY <1>1
  <2> QED
    BY <1>1, <1>3, <2>1 DEF IsKept
<1> QED
  BY <1>1, <1>2, <1>3, <1>5, <1>6 DEF t

LEMMA KeptEmpty == ASSUME NEW m PROVE Kept(<<>>, m) = <<>>
<1>1. Len(<<>>) = 0
  OBVIOUS
<1>2. PICK b : IsKept(<<>>, m, 0, b) /\ Kept(<<>>, m) = b[0]
  BY <1>1, KeptIsKept
<1> QED
  BY <1>2 DEF IsKept

-----------------------------------------------------------------------------
\* The data.

Messages  == [id : Nat, kind : Kinds, by : Publishers \cup {"runtime"}]
Incidents == [events : Seq(Nat), states : Seq(IncidentStates)]
Builders  == [closed : Seq(Incidents), open : Incidents]

Heard(k, e) == [events |-> Append(k.events, e.id), states |-> k.states]

\* The cases of feed, with the incident written out.
LEMMA FeedCases ==
  ASSUME NEW b \in Builders, NEW e \in Messages
  PROVE  /\ e.kind \in IncidentStates =>
              Feed(b, e) = [closed |-> b.closed,
                            open   |-> [events |-> Append(b.open.events, e.id),
                                        states |-> Append(b.open.states, e.kind)]]
         /\ e.kind = "calm" =>
              Feed(b, e) = IF IsOpen(b) THEN [closed |-> Append(b.closed, Heard(b.open, e)),
                                              open   |-> NoIncident]
                                        ELSE b
         /\ e.kind = "plain" =>
              Feed(b, e) = IF IsOpen(b) THEN [closed |-> b.closed, open |-> Heard(b.open, e)]
                                        ELSE b
         /\ e.kind \in IncidentStates \cup {"calm", "plain"}
<1> USE DiagnosticsAssumption
<1> DEFINE heard == [b.open EXCEPT !.events = Append(@, e.id)]
<1>1. PICK c, k : b = [closed |-> c, open |-> k] /\ k \in Incidents
  BY DEF Builders
<1>2. PICK u, v : k = [events |-> u, states |-> v]
  BY <1>1 DEF Incidents
<1>3. heard = Heard(b.open, e)
  <2>1. b.open \in Incidents
    BY DEF Builders
  <2> DEFINE r == b.open
             x == Append(r.events, e.id)
  <2>2. r \in [events : Seq(Nat), states : Seq(IncidentStates)]
    BY <2>1 DEF Incidents
  <2> HIDE DEF r, x
  <2>3. [r EXCEPT !.events = x] = [events |-> x, states |-> r.states]
    BY <2>2
  <2> QED
    BY <2>3 DEF Heard, r, x
<1>4. e.kind \in IncidentStates \cup {"calm", "plain"}
  <2>1. e.kind \in Kinds
    BY DEF Messages
  <2> QED
    BY <2>1 DEF Kinds
<1>5. ASSUME e.kind \in IncidentStates
      PROVE  Feed(b, e) = [closed |-> b.closed,
                           open   |-> [events |-> Append(b.open.events, e.id),
                                       states |-> Append(b.open.states, e.kind)]]
  <2>1. Feed(b, e) = [b EXCEPT !.open = [heard EXCEPT !.states = Append(@, e.kind)]]
    BY <1>5 DEF Feed
  <2>2. [heard EXCEPT !.states = Append(@, e.kind)] =
          [events |-> Append(b.open.events, e.id), states |-> Append(b.open.states, e.kind)]
    <3> HIDE DEF heard
    <3>1. heard = [events |-> Append(b.open.events, e.id), states |-> b.open.states]
      BY <1>3 DEF Heard
    <3> DEFINE x == Append(b.open.events, e.id)
               y == b.open.states
               z == Append(b.open.states, e.kind)
    <3>2. heard.states = y /\ heard.events = x
      BY <3>1
    <3> HIDE DEF x, y, z
    <3>3. heard \in [events : {x}, states : {y}]
      BY <3>1 DEF x, y
    <3>4. [heard EXCEPT !.states = z] = [events |-> heard.events, states |-> z]
      BY <3>3
    <3> QED
      BY <3>2, <3>4 DEF x, y, z
  <2> QED
    BY <1>1, <2>1, <2>2
<1>6. ASSUME e.kind = "calm"
      PROVE  Feed(b, e) = IF IsOpen(b) THEN [closed |-> Append(b.closed, Heard(b.open, e)),
                                             open   |-> NoIncident]
                                       ELSE b
  <2>1. e.kind \notin IncidentStates
    BY <1>6
  <2> QED
    BY <1>3, <1>6, <2>1 DEF Feed
<1>7. ASSUME e.kind = "plain"
      PROVE  Feed(b, e) = IF IsOpen(b) THEN [closed |-> b.closed, open |-> Heard(b.open, e)] ELSE b
  <2>1. e.kind \notin IncidentStates
    BY <1>7
  <2>2. [b EXCEPT !.open = heard] = [closed |-> b.closed, open |-> Heard(b.open, e)]
    BY <1>1, <1>3
  <2> QED
    BY <1>7, <2>1, <2>2 DEF Feed
<1> QED
  BY <1>4, <1>5, <1>6, <1>7

LEMMA HeardTyped ==
  ASSUME NEW k \in Incidents, NEW e \in Messages
  PROVE  Heard(k, e) \in Incidents
<1>1. k.events \in Seq(Nat) /\ k.states \in Seq(IncidentStates) /\ e.id \in Nat
  BY DEF Incidents, Messages
<1>2. Append(k.events, e.id) \in Seq(Nat)
  BY <1>1
<1> QED
  BY <1>1, <1>2 DEF Heard, Incidents

LEMMA FeedTyped ==
  ASSUME NEW b \in Builders, NEW e \in Messages
  PROVE  Feed(b, e) \in Builders
<1>1. b.open \in Incidents /\ b.closed \in Seq(Incidents)
  BY DEF Builders
<1>2. Heard(b.open, e) \in Incidents
  BY <1>1, HeardTyped
<1>3. NoIncident \in Incidents
  BY DEF NoIncident, Incidents
<1>4. CASE e.kind \in IncidentStates
  <2> DEFINE k == [events |-> Append(b.open.events, e.id), states |-> Append(b.open.states, e.kind)]
  <2>1. Append(b.open.events, e.id) \in Seq(Nat)
    BY <1>2 DEF Heard, Incidents
  <2>2. Append(b.open.states, e.kind) \in Seq(IncidentStates)
    BY <1>1, <1>4 DEF Incidents
  <2>3. k \in Incidents
    BY <2>1, <2>2 DEF Incidents
  <2>4. Feed(b, e) = [closed |-> b.closed, open |-> k]
    BY <1>4, FeedCases
  <2> HIDE DEF k
  <2> QED
    BY <1>1, <2>3, <2>4 DEF Builders
<1>5. CASE e.kind = "calm"
  <2>1. Append(b.closed, Heard(b.open, e)) \in Seq(Incidents)
    BY <1>1, <1>2
  <2> QED
    BY <1>1, <1>3, <1>5, <2>1, FeedCases DEF Builders
<1>6. CASE e.kind = "plain"
  BY <1>1, <1>2, <1>6, FeedCases DEF Builders
<1> QED
  BY <1>4, <1>5, <1>6, FeedCases

LEMMA NewestFacts ==
  ASSUME NEW S, NEW s \in Seq(S), NEW n \in Nat \ {0}
  PROVE  /\ Newest(s, n) \in Seq(S)
         /\ Len(Newest(s, n)) = IF Len(s) > n THEN n ELSE Len(s)
         /\ \A i \in 1..Len(Newest(s, n)) :
              Newest(s, n)[i] = s[i + (Len(s) - Len(Newest(s, n)))]
<1>1. Len(s) \in Nat
  OBVIOUS
<1>2. CASE Len(s) > n
  <2> DEFINE a == Len(s) - n + 1
  <2>1. a \in 1..Len(s) /\ Len(s) - a + 1 = n
    BY <1>1, <1>2
  <2>2. Newest(s, n) = SubSeq(s, a, Len(s))
    BY <1>2 DEF Newest
  <2> HIDE DEF a
  <2>3. Newest(s, n) \in Seq(S) /\ Len(Newest(s, n)) = n
        /\ \A i \in 1..n : Newest(s, n)[i] = s[a + i - 1]
    <3>1. \A i \in a..Len(s) : s[i] \in S
      BY <2>1
    <3> QED
      BY <1>1, <2>1, <2>2, <3>1, SubSeqProperties
  <2>4. \A i \in 1..n : a + i - 1 = i + (Len(s) - n)
    BY <1>1, <2>1
  <2> QED
    BY <1>2, <2>3, <2>4
<1>3. CASE ~(Len(s) > n)
  <2>1. Newest(s, n) = s
    BY <1>3 DEF Newest
  <2>2. Len(s) - Len(Newest(s, n)) = 0
    BY <1>1, <2>1
  <2>3. ASSUME NEW i \in 1..Len(Newest(s, n))
        PROVE  Newest(s, n)[i] = s[i + (Len(s) - Len(Newest(s, n)))]
    <3>1. i + (Len(s) - Len(Newest(s, n))) = i
      BY <2>2
    <3> QED
      BY <2>1, <3>1
  <2>4. Len(Newest(s, n)) = IF Len(s) > n THEN n ELSE Len(s)
    BY <1>3, <2>1
  <2> QED
    BY <2>1, <2>3, <2>4
<1> QED
  BY <1>2, <1>3

\* Where the events that are kept stood.
Places(s, n, f) ==
  /\ f \in [1..Len(Kept(s, n)) -> 1..Len(s)]
  /\ \A i \in 1..Len(Kept(s, n)) : Kept(s, n)[i] = s[f[i]] /\ s[f[i]].id > n
  /\ \A i, j \in 1..Len(Kept(s, n)) : i < j => f[i] < f[j]
  /\ \A k \in 1..Len(s) : s[k].id > n => \E i \in 1..Len(Kept(s, n)) : f[i] = k

LEMMA KeptFacts ==
  ASSUME NEW n \in Nat, NEW s \in Seq(Messages)
  PROVE  Kept(s, n) \in Seq(Messages) /\ \E f : Places(s, n, f)
<1> DEFINE P == {t \in Seq(Messages) : Kept(t, n) \in Seq(Messages) /\ \E f : Places(t, n, f)}
<1>1. <<>> \in P
  <2>1. Kept(<<>>, n) = <<>>
    BY KeptEmpty
  <2>2. Places(<<>>, n, [i \in 1..0 |-> 0])
    BY <2>1 DEF Places
  <2>3. \E f : Places(<<>>, n, f)
    BY <2>2
  <2>4. <<>> \in Seq(Messages)
    OBVIOUS
  <2> QED
    BY <2>1, <2>3, <2>4
<1>2. ASSUME NEW t \in Seq(Messages), NEW e \in Messages, t \in P PROVE Append(t, e) \in P
  <2> DEFINE u == Append(t, e)
             K == Kept(t, n)
             L == Kept(u, n)
  <2>1. K \in Seq(Messages) /\ L = Keep(K, e, n)
    BY <1>2, KeptAppend
  <2>2. PICK f : Places(t, n, f)
    BY <1>2
  <2>3. u \in Seq(Messages) /\ Len(u) = Len(t) + 1 /\ Len(t) \in Nat /\ u[Len(t) + 1] = e
        /\ \A i \in 1..Len(t) : u[i] = t[i]
    BY AppendProperties
  <2>4. Len(K) \in Nat
    BY <2>1
  <2>5. /\ f \in [1..Len(K) -> 1..Len(t)]
        /\ \A i \in 1..Len(K) : K[i] = t[f[i]] /\ t[f[i]].id > n
        /\ \A i, j \in 1..Len(K) : i < j => f[i] < f[j]
        /\ \A k \in 1..Len(t) : t[k].id > n => \E i \in 1..Len(K) : f[i] = k
    BY <2>2 DEF Places
  <2>6. SUFFICES L \in Seq(Messages) /\ \E g : Places(u, n, g)
    BY <2>3
  <2>7. CASE e.id > n
    <3> DEFINE g == [i \in 1..Len(K) + 1 |-> IF i = Len(K) + 1 THEN Len(t) + 1 ELSE f[i]]
    <3>1. L = Append(K, e)
      BY <2>1, <2>7 DEF Keep
    <3>2. L \in Seq(Messages) /\ Len(L) = Len(K) + 1 /\ L[Len(K) + 1] = e
          /\ \A i \in 1..Len(K) : L[i] = K[i]
      BY <2>1, <3>1, AppendProperties
    <3> HIDE DEF u, K, L
    <3>3. g \in [1..Len(L) -> 1..Len(u)]
      BY <2>3, <2>4, <2>5, <3>2
    <3>4. \A i \in 1..Len(L) : L[i] = u[g[i]] /\ u[g[i]].id > n
      <4> TAKE i \in 1..Len(L)
      <4>1. CASE i = Len(K) + 1
        BY <2>3, <2>4, <2>7, <3>2, <4>1
      <4>2. CASE i # Len(K) + 1
        <5>1. i \in 1..Len(K)
          BY <2>4, <3>2, <4>2
        <5>2. i \in 1..Len(K) + 1 /\ g[i] = f[i]
          BY <2>4, <4>2, <5>1
        <5>3. f[i] \in 1..Len(t)
          BY <2>5, <5>1
        <5> QED
          BY <2>3, <2>5, <3>2, <5>1, <5>2, <5>3
      <4> QED
        BY <4>1, <4>2
    <3>5. \A i, j \in 1..Len(L) : i < j => g[i] < g[j]
      <4> SUFFICES ASSUME NEW i \in 1..Len(L), NEW j \in 1..Len(L), i < j PROVE g[i] < g[j]
        OBVIOUS
      <4>1. i \in 1..Len(K) /\ g[i] = f[i] /\ f[i] \in 1..Len(t)
        BY <2>4, <2>5, <3>2
      <4>2. CASE j = Len(K) + 1
        BY <2>3, <3>2, <4>1, <4>2
      <4>3. CASE j # Len(K) + 1
        <5>1. j \in 1..Len(K) /\ g[j] = f[j]
          BY <2>4, <3>2, <4>3
        <5> QED
          BY <2>5, <4>1, <5>1
      <4> QED
        BY <4>2, <4>3
    <3>6. ASSUME NEW k \in 1..Len(u), u[k].id > n PROVE \E i \in 1..Len(L) : g[i] = k
      <4>1. CASE k = Len(t) + 1
        <5>1. Len(K) + 1 \in 1..Len(L) /\ g[Len(K) + 1] = k
          BY <2>4, <3>2, <4>1
        <5> QED
          BY <5>1
      <4>2. CASE k # Len(t) + 1
        <5>1. k \in 1..Len(t) /\ t[k].id > n
          BY <2>3, <3>6, <4>2
        <5>2. PICK i \in 1..Len(K) : f[i] = k
          BY <2>5, <5>1
        <5>3. i \in 1..Len(L) /\ g[i] = k
          BY <2>4, <3>2, <5>2
        <5> QED
          BY <5>3
      <4> QED
        BY <2>3, <4>1, <4>2
    <3> HIDE DEF g
    <3>7. Places(u, n, g)
      BY <3>3, <3>4, <3>5, <3>6 DEF Places, L
    <3> QED
      BY <3>2, <3>7
  <2>8. CASE ~(e.id > n)
    <3>1. L = K
      BY <2>1, <2>8 DEF Keep
    <3> HIDE DEF u, K, L
    <3>2. f \in [1..Len(L) -> 1..Len(u)]
      BY <2>3, <2>4, <2>5, <3>1
    <3>3. \A i \in 1..Len(L) : L[i] = u[f[i]] /\ u[f[i]].id > n
      BY <2>3, <2>5, <3>1
    <3>4. ASSUME NEW k \in 1..Len(u), u[k].id > n PROVE \E i \in 1..Len(L) : f[i] = k
      <4>1. k \in 1..Len(t) /\ t[k].id > n
        BY <2>3, <2>8, <3>4
      <4> QED
        BY <2>5, <3>1, <4>1
    <3>5. Places(u, n, f)
      BY <2>5, <3>1, <3>2, <3>3, <3>4 DEF Places, L
    <3> QED
      BY <2>1, <3>1, <3>5
  <2> QED
    BY <2>7, <2>8
<1> HIDE DEF P
<1>3. \A t \in Seq(Messages) : t \in P
  BY <1>1, <1>2, SeqInduct
<1> QED
  BY <1>3 DEF P
-----------------------------------------------------------------------------
\* Types.

TypeInv ==
  /\ up \in {"down", "serving", "detached", "closed"}
  /\ published \in 0..MaxEvents /\ boot \in 0..published /\ cut \in 0..published
  /\ faults \in 0..MaxFaults
  /\ log \in Seq(Messages) /\ inserts \in Seq(Messages) /\ strays \subseteq Messages
  /\ \A i \in 1..Len(log) : log[i].id \in 1..published
  /\ \A i \in 1..Len(inserts) : inserts[i].id \in 1..published
  /\ \A e \in strays : e.id \in 1..published
  /\ lost \subseteq 1..published /\ disowned \subseteq lost
  /\ tracker \in Builders /\ Len(tracker.closed) <= MaxHistory

LEMMA RemoveAtFacts ==
  ASSUME NEW S, NEW s \in Seq(S), NEW i \in 1..Len(s)
  PROVE  /\ RemoveAt(s, i) \in Seq(S) /\ Len(RemoveAt(s, i)) = Len(s) - 1
         /\ \A k \in 1..Len(s) - 1 : RemoveAt(s, i)[k] = IF k < i THEN s[k] ELSE s[k + 1]
<1> DEFINE a == SubSeq(s, 1, i - 1)
           b == SubSeq(s, i + 1, Len(s))
<1>1. Len(s) \in Nat /\ i \in Nat /\ i >= 1 /\ i <= Len(s)
  OBVIOUS
<1>2. a \in Seq(S) /\ Len(a) = i - 1 /\ \A k \in 1..i - 1 : a[k] = s[k]
  BY <1>1
<1>3. b \in Seq(S) /\ Len(b) = Len(s) - i /\ \A k \in 1..Len(s) - i : b[k] = s[k + i]
  BY <1>1
<1>4. RemoveAt(s, i) = a \o b
  BY DEF RemoveAt
<1> HIDE DEF a, b
<1>5. /\ a \o b \in Seq(S) /\ Len(a \o b) = Len(a) + Len(b)
      /\ \A k \in 1..Len(a) + Len(b) : (a \o b)[k] = IF k <= Len(a) THEN a[k] ELSE b[k - Len(a)]
  BY <1>2, <1>3, ConcatProperties
<1>6. ASSUME NEW k \in 1..Len(s) - 1 PROVE (a \o b)[k] = IF k < i THEN s[k] ELSE s[k + 1]
  <2>1. CASE k < i
    BY <1>1, <1>2, <1>3, <1>5, <2>1
  <2>2. CASE ~(k < i)
    <3>1. k - Len(a) \in 1..Len(s) - i /\ (k - Len(a)) + i = k + 1
      BY <1>1, <1>2, <2>2
    <3>2. b[k - Len(a)] = s[k + 1]
      BY <1>3, <3>1
    <3> QED
      BY <1>1, <1>2, <1>3, <1>5, <2>2, <3>2
  <2> QED
    BY <2>1, <2>2
<1> QED
  BY <1>1, <1>2, <1>3, <1>4, <1>5, <1>6

LEMMA EventTyped ==
  ASSUME TypeInv, NEW kind \in Kinds, NEW by \in Publishers \cup {"runtime"}
  PROVE  Event(kind, by) \in Messages /\ Event(kind, by).id = published + 1
  BY DiagnosticsAssumption DEF TypeInv, Event, Messages

\* The tracker's history is bounded after each event.
LEMMA TrackTyped ==
  ASSUME TypeInv, NEW e \in Messages, Track(e)
  PROVE  tracker' \in Builders /\ Len(tracker'.closed) <= MaxHistory
<1> DEFINE b == Feed(tracker, e)
<1>1. b \in Builders
  BY FeedTyped DEF TypeInv
<1> HIDE DEF b
<1>2. tracker' = [b EXCEPT !.closed = Newest(b.closed, MaxHistory)]
  BY DEF Track, b
<1>3. b.closed \in Seq(Incidents) /\ b.open \in Incidents
  BY <1>1 DEF Builders
<1>4. Newest(b.closed, MaxHistory) \in Seq(Incidents) /\ Len(Newest(b.closed, MaxHistory)) <= MaxHistory
  <2>1. Len(b.closed) \in Nat
    BY <1>3
  <2> QED
    BY <1>3, <2>1, DiagnosticsAssumption, NewestFacts
<1>5. tracker' = [closed |-> Newest(b.closed, MaxHistory), open |-> b.open]
  BY <1>1, <1>2 DEF Builders
<1> QED
  BY <1>3, <1>4, <1>5 DEF Builders

LEMMA TypeInit == Init => TypeInv
<1>1. NoBuilder \in Builders /\ Len(NoBuilder.closed) = 0
  BY DEF NoBuilder, NoIncident, Builders, Incidents
<1> QED
  BY <1>1, DiagnosticsAssumption DEF Init, TypeInv

LEMMA TypeNext == TypeInv /\ [Next]_vars => TypeInv'
<1> SUFFICES ASSUME TypeInv, [Next]_vars PROVE TypeInv'
  OBVIOUS
<1> USE DiagnosticsAssumption
<1>1. Len(log) \in Nat /\ Len(inserts) \in Nat /\ published \in Nat
  BY DEF TypeInv
<1>2. CASE Boot
  <2> DEFINE e == Event("calm", "runtime")
  <2>1. e \in Messages /\ e.id = published + 1
    BY EventTyped DEF Kinds
  <2>2. NoBuilder \in Builders /\ Len(NoBuilder.closed) = 0
    BY DEF NoBuilder, NoIncident, Builders, Incidents
  <2> HIDE DEF e
  <2>3. inserts' = <<e>> /\ published' = published + 1 /\ published < MaxEvents
    BY <1>2 DEF Boot, e
  <2>4. inserts' \in Seq(Messages) /\ \A i \in 1..Len(inserts') : inserts'[i].id \in 1..published'
    BY <1>1, <2>1, <2>3
  <2> QED
    BY <1>1, <1>2, <2>2, <2>3, <2>4 DEF Boot, TypeInv
<1>3. ASSUME NEW t \in Publishers, NEW kind \in Kinds, Publish(t, kind) PROVE TypeInv'
  <2> DEFINE e == Event(kind, t)
  <2>1. e \in Messages /\ e.id = published + 1
    BY EventTyped
  <2> HIDE DEF e
  <2>2. inserts' = Append(inserts, e) /\ published' = published + 1 /\ published < MaxEvents
    BY <1>3 DEF Publish, e
  <2>3. tracker' \in Builders /\ Len(tracker'.closed) <= MaxHistory
    BY <1>3, <2>1, TrackTyped DEF Publish, e
  <2>4. inserts \in Seq(Messages)
    BY DEF TypeInv
  <2>5. inserts' \in Seq(Messages) /\ \A i \in 1..Len(inserts') : inserts'[i].id \in 1..published'
    BY <1>1, <2>1, <2>2, <2>4, AppendProperties DEF TypeInv
  <2> QED
    BY <1>1, <1>3, <2>2, <2>3, <2>5 DEF Publish, ghost, TypeInv
<1>4. CASE Insert
  <2>1. inserts \in Seq(Messages) /\ inserts # <<>> /\ log \in Seq(Messages)
    BY <1>4 DEF Insert, TypeInv
  <2>2. Head(inserts) = inserts[1] /\ 1 \in 1..Len(inserts) /\ Head(inserts) \in Messages
    BY <2>1
  <2>3. inserts' \in Seq(Messages) /\ \A i \in 1..Len(inserts') : inserts'[i].id \in 1..published
    BY <1>1, <1>4, <2>1, HeadTailProperties DEF Insert, TypeInv
  <2>4. log' \in Seq(Messages) /\ \A i \in 1..Len(log') : log'[i].id \in 1..published
    BY <1>1, <1>4, <2>1, <2>2, AppendProperties DEF Insert, TypeInv
  <2> QED
    BY <1>4, <2>3, <2>4 DEF Insert, ghost, TypeInv
<1>5. CASE InsertFails
  <2>1. inserts \in Seq(Messages) /\ inserts # <<>>
    BY <1>5 DEF InsertFails, TypeInv
  <2>2. Head(inserts) = inserts[1] /\ 1 \in 1..Len(inserts)
    BY <2>1
  <2>3. inserts' \in Seq(Messages) /\ \A i \in 1..Len(inserts') : inserts'[i].id \in 1..published
    BY <1>1, <1>5, <2>1, HeadTailProperties DEF InsertFails, TypeInv
  <2>4. lost' \subseteq 1..published /\ disowned' \subseteq lost'
    BY <1>5, <2>2 DEF InsertFails, TypeInv
  <2>5. faults' \in 0..MaxFaults
    BY <1>5 DEF InsertFails, TypeInv
  <2> QED
    BY <1>5, <2>3, <2>4, <2>5 DEF InsertFails, TypeInv
<1>6. ASSUME NEW i \in 1..Len(inserts), CancelPublish(i) PROVE TypeInv'
  <2>1. inserts \in Seq(Messages) /\ inserts[i].id \in 1..published /\ inserts[i] \in Messages
    BY DEF TypeInv
  <2>2. inserts' \in Seq(Messages) /\ \A k \in 1..Len(inserts') : inserts'[k].id \in 1..published
    <3>1. inserts' = RemoveAt(inserts, i)
      BY <1>6 DEF CancelPublish
    <3>2. inserts' \in Seq(Messages) /\ Len(inserts') = Len(inserts) - 1
          /\ \A k \in 1..Len(inserts) - 1 : inserts'[k] = IF k < i THEN inserts[k] ELSE inserts[k + 1]
      BY <2>1, <3>1, RemoveAtFacts
    <3> QED
      BY <1>1, <3>2 DEF TypeInv
  <2>3. lost' \subseteq 1..published /\ disowned' \subseteq lost'
    BY <1>6, <2>1 DEF CancelPublish, TypeInv
  <2>4. strays' \subseteq Messages /\ \A e \in strays' : e.id \in 1..published
    BY <1>6, <2>1 DEF CancelPublish, TypeInv
  <2>5. faults' \in 0..MaxFaults
    BY <1>6 DEF CancelPublish, TypeInv
  <2> QED
    BY <1>6, <2>2, <2>3, <2>4, <2>5 DEF CancelPublish, TypeInv
<1>7. ASSUME NEW e \in strays, StrayRuns(e) PROVE TypeInv'
  <2>1. log \in Seq(Messages) /\ e \in Messages /\ e.id \in 1..published
    BY DEF TypeInv
  <2>2. log' \in Seq(Messages) /\ \A i \in 1..Len(log') : log'[i].id \in 1..published
    <3>1. CASE log' = log
      BY <3>1 DEF TypeInv
    <3>2. CASE log' = Append(log, e)
      BY <1>1, <2>1, <3>2, AppendProperties DEF TypeInv
    <3> QED
      BY <1>7, <3>1, <3>2 DEF StrayRuns
  <2> QED
    BY <1>7, <2>2 DEF StrayRuns, ghost, TypeInv
<1>8. CASE Detach
  BY <1>8 DEF Detach, ghost, TypeInv
<1>9. CASE Close
  BY <1>9 DEF Close, ghost, TypeInv
<1>10. CASE Exit
  <2>1. Ids(inserts) \subseteq 1..published
    BY DEF Ids, TypeInv
  <2>2. inserts' \in Seq(Messages) /\ Len(inserts') = 0 /\ strays' = {}
    BY <1>10 DEF Exit
  <2>3. lost' \subseteq 1..published /\ disowned \subseteq lost'
    BY <1>10, <2>1 DEF Exit, TypeInv
  <2> QED
    BY <1>10, <2>2, <2>3 DEF Exit, TypeInv
<1>11. ASSUME NEW n \in 1..published, Prune(n) PROVE TypeInv'
  <2>1. log \in Seq(Messages) /\ n \in Nat /\ log' = Kept(log, n)
    BY <1>11, <1>1 DEF Prune, TypeInv
  <2>2. PICK f : Places(log, n, f)
    BY <2>1, KeptFacts
  <2>3. log' \in Seq(Messages)
    BY <2>1, KeptFacts
  <2>4. \A i \in 1..Len(log') : log'[i].id \in 1..published
    BY <2>1, <2>2 DEF Places, TypeInv
  <2>5. cut' \in 0..published
    BY <1>1, <1>11 DEF Prune
  <2> QED
    BY <1>11, <2>3, <2>4, <2>5 DEF Prune, TypeInv
<1>12. CASE UNCHANGED vars
  BY <1>12 DEF vars, ghost, TypeInv
<1> QED
  BY <1>2, <1>3, <1>4, <1>5, <1>6, <1>7, <1>8, <1>9, <1>10, <1>11, <1>12 DEF Next

LEMMA TypeInvariance == Spec => []TypeInv
  BY TypeInit, TypeNext, PTL DEF Spec

\* Numbers, queues and the tracker's history keep their bounds.
THEOREM TypeCorrect == Spec => []TypeOK
<1>1. TypeInv => TypeOK
  <2> SUFFICES ASSUME TypeInv PROVE TypeOK
    OBVIOUS
  <2>1. lost \cup disowned \cup Ids(log) \cup Ids(inserts) \subseteq 1..published
    BY DEF TypeInv, Ids
  <2> QED
    BY <2>1 DEF TypeInv, TypeOK
<1> QED
  BY <1>1, TypeInvariance, PTL
-----------------------------------------------------------------------------
\* Order. The queue is served from its head, so what left it, into the table or
\* into a thread of its own, is older than what is in it.

Behind == \A i \in 1..Len(log), j \in 1..Len(inserts) : log[i].id < inserts[j].id

QueueInv ==
  \A j \in 1..Len(inserts) :
    /\ inserts[j].id >= boot /\ inserts[j].id \notin lost
    /\ \A i \in 1..Len(inserts) : i < j => inserts[i].id < inserts[j].id

StraysInv ==
  \A e \in strays :
    /\ e.id \in disowned /\ e.id >= boot
    /\ \A i \in 1..Len(log) : log[i].id # e.id
    /\ \A j \in 1..Len(inserts) : e.id < inserts[j].id
    /\ \A f \in strays : f.id = e.id => f = e

\* An event is newer than any before it in the table, unless it is disowned.
LogInv ==
  \A i, j \in 1..Len(log) : i < j =>
    /\ log[i].id # log[j].id
    /\ log[j].id \notin disowned => log[i].id < log[j].id

\* What this process stored comes after what earlier ones did.
NewestLast == \A i, j \in 1..Len(log) : i < j /\ log[i].id >= boot => log[j].id >= boot

DownInv == up = "down" => inserts = <<>> /\ strays = {}

OrderInv == Behind /\ QueueInv /\ StraysInv /\ LogInv /\ NewestLast /\ DownInv

LEMMA OrderInit == Init => OrderInv
  BY DEF Init, OrderInv, Behind, QueueInv, StraysInv, LogInv, NewestLast, DownInv

\* An event that is appended to the table: the oldest insert, or a stray one.
LEMMA OrderAppend ==
  ASSUME TypeInv, OrderInv, NEW e \in Messages, log' = Append(log, e), boot' = boot,
         disowned' = disowned, e.id >= boot,
         \A i \in 1..Len(log) : log[i].id # e.id,
         e.id \notin disowned => \A i \in 1..Len(log) : log[i].id < e.id
  PROVE  LogInv' /\ NewestLast'
<1>1. log \in Seq(Messages) /\ Len(log) \in Nat
  BY DEF TypeInv
<1>2. /\ Len(log') = Len(log) + 1 /\ log'[Len(log) + 1] = e
      /\ \A i \in 1..Len(log) : log'[i] = log[i]
  BY <1>1, AppendProperties
<1>3. ASSUME NEW i \in 1..Len(log'), NEW j \in 1..Len(log'), i < j
      PROVE  /\ log'[i].id # log'[j].id
             /\ log'[j].id \notin disowned' => log'[i].id < log'[j].id
             /\ log'[i].id >= boot' => log'[j].id >= boot'
  <2>1. i \in 1..Len(log) /\ log'[i] = log[i]
    BY <1>1, <1>2, <1>3
  <2>2. CASE j = Len(log) + 1
    BY <1>2, <2>1, <2>2
  <2>3. CASE j # Len(log) + 1
    <3>1. j \in 1..Len(log) /\ log'[j] = log[j]
      BY <1>1, <1>2, <2>3
    <3> QED
      BY <1>3, <2>1, <3>1 DEF OrderInv, LogInv, NewestLast
  <2> QED
    BY <2>2, <2>3
<1> QED
  BY <1>3 DEF LogInv, NewestLast

LEMMA OrderNext == TypeInv /\ TypeInv' /\ OrderInv /\ [Next]_vars => OrderInv'
<1> SUFFICES ASSUME TypeInv, TypeInv', OrderInv, [Next]_vars PROVE OrderInv'
  OBVIOUS
<1>1. Len(log) \in Nat /\ Len(inserts) \in Nat /\ published \in Nat /\ boot \in Nat
      /\ log \in Seq(Messages) /\ inserts \in Seq(Messages)
  BY DEF TypeInv
<1>2. CASE Boot
  <2> DEFINE e == Event("calm", "runtime")
  <2>1. e \in Messages /\ e.id = published + 1
    BY EventTyped DEF Kinds
  <2> HIDE DEF e
  <2>2. /\ inserts' = <<e>> /\ boot' = published + 1 /\ log' = log /\ strays' = {} /\ up' = "serving"
        /\ lost' = lost /\ disowned' = disowned
    BY <1>2 DEF Boot, e, OrderInv, DownInv
  <2>3. Len(inserts') = 1 /\ inserts'[1] = e
    BY <2>2
  <2>4. \A i \in 1..Len(log) : log[i].id \in 1..published
    BY DEF TypeInv
  <2>5. Behind'
    BY <1>1, <2>1, <2>2, <2>3, <2>4 DEF Behind
  <2>6. QueueInv'
    <3>1. \A id \in lost : id \in 1..published
      BY DEF TypeInv
    <3> QED
      BY <1>1, <2>1, <2>2, <2>3, <3>1 DEF QueueInv
  <2>7. NewestLast'
    BY <1>1, <2>2, <2>4 DEF NewestLast
  <2> QED
    BY <2>2, <2>5, <2>6, <2>7 DEF OrderInv, StraysInv, LogInv, DownInv
<1>3. ASSUME NEW t \in Publishers, NEW kind \in Kinds, Publish(t, kind) PROVE OrderInv'
  <2> DEFINE e == Event(kind, t)
  <2>1. e \in Messages /\ e.id = published + 1
    BY EventTyped
  <2> HIDE DEF e
  <2>2. inserts' = Append(inserts, e) /\ up' = "serving" /\ UNCHANGED <<log, strays, boot, lost, disowned>>
    BY <1>3 DEF Publish, ghost, e
  <2>3. /\ Len(inserts') = Len(inserts) + 1 /\ inserts'[Len(inserts) + 1] = e
        /\ \A i \in 1..Len(inserts) : inserts'[i] = inserts[i]
    BY <1>1, <2>1, <2>2, AppendProperties
  <2>4. Behind'
    BY <1>1, <2>1, <2>2, <2>3 DEF OrderInv, Behind, TypeInv
  <2>5. ASSUME NEW j \in 1..Len(inserts')
        PROVE  /\ inserts'[j].id >= boot' /\ inserts'[j].id \notin lost'
               /\ \A i \in 1..Len(inserts') : i < j => inserts'[i].id < inserts'[j].id
    <3>1. CASE j = Len(inserts) + 1
      <4>1. e.id >= boot /\ e.id \notin lost
        BY <1>1, <2>1 DEF TypeInv
      <4>2. ASSUME NEW i \in 1..Len(inserts'), i < j PROVE inserts'[i].id < e.id
        <5>1. i \in 1..Len(inserts) /\ inserts'[i] = inserts[i]
          BY <1>1, <2>3, <3>1, <4>2
        <5>2. inserts[i].id \in 1..published
          BY <5>1 DEF TypeInv
        <5> QED
          BY <1>1, <2>1, <5>1, <5>2
      <4> QED
        BY <2>2, <2>3, <3>1, <4>1, <4>2
    <3>2. CASE j # Len(inserts) + 1
      <4>1. j \in 1..Len(inserts)
        BY <1>1, <2>3, <3>2
      <4>2. \A i \in 1..Len(inserts') : i < j => i \in 1..Len(inserts)
        BY <1>1, <2>3, <4>1
      <4> QED
        BY <2>2, <2>3, <4>1, <4>2 DEF OrderInv, QueueInv
    <3> QED
      BY <3>1, <3>2
  <2>6. StraysInv'
    <3>1. \A f \in strays : f.id < e.id
      BY <1>1, <2>1 DEF TypeInv
    <3> QED
      BY <1>1, <2>2, <2>3, <3>1 DEF OrderInv, StraysInv
  <2> QED
    BY <2>2, <2>4, <2>5, <2>6 DEF OrderInv, QueueInv, LogInv, NewestLast, DownInv
<1>4. CASE Insert
  <2>1. /\ inserts # <<>> /\ log' = Append(log, Head(inserts)) /\ inserts' = Tail(inserts) /\ up' # "down"
        /\ UNCHANGED <<strays, boot, lost, disowned>>
    BY <1>4 DEF Insert, ghost
  <2>2. 1 \in 1..Len(inserts) /\ Head(inserts) = inserts[1] /\ Head(inserts) \in Messages
    BY <1>1, <2>1
  <2>3. /\ Len(inserts') = Len(inserts) - 1
        /\ \A i \in 1..Len(inserts') : i + 1 \in 1..Len(inserts) /\ inserts'[i] = inserts[i + 1]
    BY <1>1, <2>1, HeadTailProperties
  <2>4. /\ Len(log') = Len(log) + 1 /\ log'[Len(log) + 1] = inserts[1]
        /\ \A i \in 1..Len(log) : log'[i] = log[i]
    BY <1>1, <2>1, <2>2, AppendProperties
  <2>5. \A j \in 1..Len(inserts') : inserts[1].id < inserts[j + 1].id
    BY <1>1, <2>2, <2>3 DEF OrderInv, QueueInv
  <2>6. Behind'
    <3> SUFFICES ASSUME NEW i \in 1..Len(log'), NEW j \in 1..Len(inserts')
                 PROVE  log'[i].id < inserts'[j].id
      BY DEF Behind
    <3>1. CASE i = Len(log) + 1
      BY <2>3, <2>4, <2>5, <3>1
    <3>2. CASE i # Len(log) + 1
      <4>1. i \in 1..Len(log)
        BY <1>1, <2>4, <3>2
      <4> QED
        BY <2>3, <2>4, <4>1 DEF OrderInv, Behind
    <3> QED
      BY <3>1, <3>2
  <2>7. QueueInv'
    <3> SUFFICES ASSUME NEW j \in 1..Len(inserts')
                 PROVE  /\ inserts'[j].id >= boot /\ inserts'[j].id \notin lost
                        /\ \A i \in 1..Len(inserts') : i < j => inserts'[i].id < inserts'[j].id
      BY <2>1 DEF QueueInv
    <3>1. inserts[j + 1].id >= boot /\ inserts[j + 1].id \notin lost
      BY <2>3 DEF OrderInv, QueueInv
    <3>2. ASSUME NEW i \in 1..Len(inserts'), i < j PROVE inserts[i + 1].id < inserts[j + 1].id
      <4>1. i + 1 < j + 1
        BY <1>1, <2>3, <3>2
      <4> QED
        BY <2>3, <4>1 DEF OrderInv, QueueInv
    <3> QED
      BY <2>3, <3>1, <3>2
  <2>8. StraysInv'
    <3> SUFFICES ASSUME NEW e \in strays
                 PROVE  /\ \A i \in 1..Len(log') : log'[i].id # e.id
                        /\ \A j \in 1..Len(inserts') : e.id < inserts'[j].id
      BY <2>1 DEF OrderInv, StraysInv
    <3>1. e.id < inserts[1].id
      BY <2>2 DEF OrderInv, StraysInv
    <3>2. ASSUME NEW i \in 1..Len(log') PROVE log'[i].id # e.id
      <4>1. CASE i = Len(log) + 1
        BY <2>2, <2>4, <3>1, <4>1 DEF TypeInv
      <4>2. CASE i # Len(log) + 1
        <5>1. i \in 1..Len(log)
          BY <1>1, <2>4, <4>2
        <5> QED
          BY <2>4, <5>1 DEF OrderInv, StraysInv
      <4> QED
        BY <4>1, <4>2
    <3> QED
      BY <2>3, <3>2 DEF OrderInv, StraysInv
  <2>9. LogInv' /\ NewestLast'
    <3>1. inserts[1].id >= boot
      BY <2>2 DEF OrderInv, QueueInv
    <3>2. \A i \in 1..Len(log) : log[i].id < inserts[1].id
      BY <2>2 DEF OrderInv, Behind
    <3>3. \A i \in 1..Len(log) : log[i].id # inserts[1].id
      BY <2>2, <3>2 DEF TypeInv
    <3> QED
      BY <2>1, <2>2, <3>1, <3>2, <3>3, OrderAppend
  <2> QED
    <3>1. DownInv'
      BY <2>1 DEF DownInv
    <3> QED
      BY <2>6, <2>7, <2>8, <2>9, <3>1 DEF OrderInv
<1>5. ASSUME NEW i \in 1..Len(inserts), inserts' = RemoveAt(inserts, i),
             lost' = lost \cup {inserts[i].id}, log' = log, boot' = boot, up' = up, up # "down",
             \/ strays' = strays /\ disowned' = disowned
             \/ i = 1 /\ strays' = strays \cup {inserts[1]} /\ disowned' = disowned \cup {inserts[1].id}
      PROVE  OrderInv'
  <2>1. /\ Len(inserts') = Len(inserts) - 1
        /\ \A k \in 1..Len(inserts') : inserts'[k] = IF k < i THEN inserts[k] ELSE inserts[k + 1]
    BY <1>1, <1>5, RemoveAtFacts
  <2> DEFINE old(k) == IF k < i THEN k ELSE k + 1
  <2>2. ASSUME NEW k \in 1..Len(inserts')
        PROVE  /\ old(k) \in 1..Len(inserts) /\ old(k) # i /\ inserts'[k] = inserts[old(k)]
               /\ old(k) < i \/ i < old(k)
               /\ \A j \in 1..Len(inserts') : j < k => old(j) < old(k)
    BY <1>1, <2>1
  <2>3. i = 1 => \A k \in 1..Len(inserts') : 1 < old(k)
    BY <2>1
  <2> HIDE DEF old
  <2>4. Behind'
    BY <1>5, <2>2 DEF OrderInv, Behind
  <2>5. \A j, k \in 1..Len(inserts) : j < k => inserts[j].id < inserts[k].id
    BY DEF OrderInv, QueueInv
  <2>6. \A k \in 1..Len(inserts) : inserts[k].id \in Nat
    BY DEF TypeInv
  <2>7. ASSUME NEW j \in 1..Len(inserts')
        PROVE  /\ inserts'[j].id >= boot /\ inserts'[j].id \notin lost'
               /\ \A k \in 1..Len(inserts') : k < j => inserts'[k].id < inserts'[j].id
    <3>1. inserts[old(j)].id >= boot /\ inserts[old(j)].id \notin lost
      BY <2>2 DEF OrderInv, QueueInv
    <3>2. inserts[old(j)].id # inserts[i].id
      BY <2>2, <2>5, <2>6
    <3>3. \A k \in 1..Len(inserts') : k < j => inserts[old(k)].id < inserts[old(j)].id
      BY <2>2, <2>5
    <3> QED
      BY <1>5, <2>2, <3>1, <3>2, <3>3
  <2>8. QueueInv'
    BY <1>5, <2>7 DEF QueueInv
  <2>9. StraysInv'
    <3>1. ASSUME NEW e \in strays
          PROVE  /\ e.id \in disowned /\ e.id >= boot /\ \A k \in 1..Len(log) : log[k].id # e.id
                 /\ \A k \in 1..Len(inserts') : e.id < inserts'[k].id
                 /\ \A f \in strays : f.id = e.id => f = e
      BY <2>2 DEF OrderInv, StraysInv
    <3>2. CASE strays' = strays /\ disowned' = disowned
      BY <1>5, <3>1, <3>2 DEF StraysInv
    <3>3. CASE i = 1 /\ strays' = strays \cup {inserts[1]} /\ disowned' = disowned \cup {inserts[1].id}
      <4> DEFINE h == inserts[1]
      <4>1. 1 \in 1..Len(inserts) /\ h.id >= boot
        BY <3>3 DEF OrderInv, QueueInv
      <4>2. \A k \in 1..Len(log) : log[k].id # h.id
        <5>1. \A k \in 1..Len(log) : log[k].id < h.id
          BY <4>1 DEF OrderInv, Behind
        <5>2. \A k \in 1..Len(log) : log[k].id \in Nat
          BY DEF TypeInv
        <5> QED
          BY <2>6, <4>1, <5>1, <5>2
      <4>3. \A k \in 1..Len(inserts') : h.id < inserts'[k].id
        BY <2>2, <2>3, <2>5, <3>3, <4>1
      <4>4. \A f \in strays : f.id # h.id
        <5>1. \A f \in strays : f.id \in Nat /\ f.id < h.id
          BY <4>1 DEF OrderInv, StraysInv, TypeInv
        <5> QED
          BY <2>6, <4>1, <5>1
      <4> HIDE DEF h
      <4>5. strays' = strays \cup {h} /\ disowned' = disowned \cup {h.id}
        BY <3>3 DEF h
      <4> QED
        BY <1>5, <3>1, <4>1, <4>2, <4>3, <4>4, <4>5 DEF StraysInv
    <3> QED
      BY <1>5, <3>2, <3>3
  <2>10. LogInv'
    BY <1>5 DEF OrderInv, LogInv
  <2>11. NewestLast' /\ DownInv'
    BY <1>5 DEF OrderInv, NewestLast, DownInv
  <2> QED
    BY <2>4, <2>8, <2>9, <2>10, <2>11 DEF OrderInv
<1>6. CASE InsertFails
  <2>1. /\ inserts # <<>> /\ up # "down" /\ inserts' = Tail(inserts) /\ lost' = lost \cup {Head(inserts).id}
        /\ UNCHANGED <<up, strays, log, boot, disowned>>
    BY <1>6 DEF InsertFails
  <2>2. 1 \in 1..Len(inserts) /\ Head(inserts) = inserts[1]
    BY <1>1, <2>1
  <2>3. Tail(inserts) = RemoveAt(inserts, 1)
    <3>1. Tail(inserts) \in Seq(Messages) /\ Len(Tail(inserts)) = Len(inserts) - 1
          /\ \A k \in 1..Len(inserts) - 1 : Tail(inserts)[k] = inserts[k + 1]
      BY <1>1, <2>1, HeadTailProperties
    <3>2. RemoveAt(inserts, 1) \in Seq(Messages) /\ Len(RemoveAt(inserts, 1)) = Len(inserts) - 1
          /\ \A k \in 1..Len(inserts) - 1 : RemoveAt(inserts, 1)[k] = inserts[k + 1]
      BY <1>1, <2>2, RemoveAtFacts
    <3> QED
      BY <3>1, <3>2, SeqEqual
  <2> QED
    BY <1>5, <2>1, <2>2, <2>3
<1>7. ASSUME NEW i \in 1..Len(inserts), CancelPublish(i) PROVE OrderInv'
  <2>1. up # "down"
    BY <1>1 DEF OrderInv, DownInv
  <2> QED
    BY <1>5, <1>7, <2>1 DEF CancelPublish
<1>8. ASSUME NEW e \in strays, StrayRuns(e) PROVE OrderInv'
  <2>1. e \in Messages /\ e.id \in disowned /\ e.id >= boot /\ strays' = strays \ {e}
        /\ \A i \in 1..Len(log) : log[i].id # e.id
    BY <1>8 DEF StrayRuns, OrderInv, StraysInv, TypeInv
  <2>2. UNCHANGED <<up, inserts, boot, lost, disowned>>
    BY <1>8 DEF StrayRuns, ghost
  <2>3. CASE log' = log
    <3>1. StraysInv'
      BY <2>1, <2>2, <2>3 DEF OrderInv, StraysInv
    <3> QED
      BY <2>1, <2>2, <2>3, <3>1 DEF OrderInv, Behind, QueueInv, LogInv, NewestLast, DownInv
  <2>4. CASE log' = Append(log, e)
    <3>1. LogInv' /\ NewestLast'
      BY <2>1, <2>2, <2>4, OrderAppend
    <3>2. /\ Len(log') = Len(log) + 1 /\ log'[Len(log) + 1] = e
          /\ \A i \in 1..Len(log) : log'[i] = log[i]
      BY <1>1, <2>1, <2>4, AppendProperties
    <3>3. \A i \in 1..Len(log') : i \in 1..Len(log) \/ i = Len(log) + 1
      BY <1>1, <3>2
    <3>4. Behind'
      BY <2>2, <3>2, <3>3 DEF OrderInv, Behind, StraysInv
    <3>5. StraysInv'
      BY <2>1, <2>2, <3>2, <3>3 DEF OrderInv, StraysInv
    <3>6. QueueInv' /\ DownInv'
      BY <2>1, <2>2 DEF OrderInv, QueueInv, DownInv
    <3> QED
      BY <3>1, <3>4, <3>5, <3>6 DEF OrderInv
  <2> QED
    BY <1>8, <2>3, <2>4 DEF StrayRuns
<1>9. CASE Exit
  <2>1. inserts' = <<>> /\ strays' = {} /\ log' = log /\ boot' = boot /\ disowned' = disowned
    BY <1>9 DEF Exit
  <2>2. Len(inserts') = 0
    BY <2>1
  <2> QED
    BY <2>1, <2>2 DEF OrderInv, Behind, QueueInv, StraysInv, LogInv, NewestLast, DownInv
<1>10. ASSUME NEW n \in 1..published, Prune(n) PROVE OrderInv'
  <2>1. n \in Nat /\ log' = Kept(log, n) /\ UNCHANGED <<up, inserts, strays, boot, lost, disowned>>
    BY <1>1, <1>10 DEF Prune
  <2>2. PICK f : Places(log, n, f)
    BY <1>1, <2>1, KeptFacts
  <2>3. ASSUME NEW i \in 1..Len(log')
        PROVE  /\ f[i] \in 1..Len(log) /\ log'[i] = log[f[i]]
               /\ \A j \in 1..Len(log') : i < j => f[i] < f[j]
    BY <2>1, <2>2 DEF Places
  <2>4. Behind'
    BY <2>1, <2>3 DEF OrderInv, Behind
  <2>5. QueueInv' /\ DownInv'
    BY <2>1 DEF OrderInv, QueueInv, DownInv
  <2>6. StraysInv'
    BY <2>1, <2>3 DEF OrderInv, StraysInv
  <2>7. ASSUME NEW i \in 1..Len(log'), NEW j \in 1..Len(log'), i < j
        PROVE  /\ log'[i].id # log'[j].id
               /\ log'[j].id \notin disowned => log'[i].id < log'[j].id
               /\ log'[i].id >= boot => log'[j].id >= boot
    <3>1. f[i] \in 1..Len(log) /\ f[j] \in 1..Len(log) /\ f[i] < f[j]
      BY <2>3, <2>7
    <3>2. log'[i] = log[f[i]] /\ log'[j] = log[f[j]]
      BY <2>3
    <3> QED
      BY <3>1, <3>2 DEF OrderInv, LogInv, NewestLast
  <2>8. LogInv' /\ NewestLast'
    BY <2>1, <2>7 DEF LogInv, NewestLast
  <2> QED
    BY <2>4, <2>5, <2>6, <2>7, <2>8 DEF OrderInv
<1>11. CASE Detach \/ Close \/ UNCHANGED vars
  <2>1. UNCHANGED <<inserts, strays, log, boot, lost, disowned>> /\ (up' = "down" => up = "down")
    BY <1>11 DEF Detach, Close, vars, ghost
  <2> QED
    BY <2>1 DEF OrderInv, Behind, QueueInv, StraysInv, LogInv, NewestLast, DownInv
<1> QED
  BY <1>2, <1>3, <1>4, <1>6, <1>7, <1>8, <1>9, <1>10, <1>11 DEF Next

LEMMA OrderInvariance == Spec => []OrderInv
  BY OrderInit, OrderNext, TypeInvariance, PTL DEF Spec

\* The table is in the order of publication, but for events whose publisher was
\* cancelled while they were being inserted, and has no event twice.
THEOREM StoredInOrder == Spec => []LogKeepsOrder
<1>1. OrderInv => LogKeepsOrder
  BY DEF OrderInv, LogInv, LogKeepsOrder
<1> QED
  BY <1>1, OrderInvariance, PTL
-----------------------------------------------------------------------------
\* Completeness.

LEMMA NothingVanishesInit == Init => NothingVanishes
  BY DEF Init, NothingVanishes

\* Where an event can be after a step, given where it was.
LEMMA NothingVanishesNext ==
  TypeInv /\ OrderInv /\ NothingVanishes /\ [Next]_vars => NothingVanishes'
<1> SUFFICES ASSUME TypeInv, OrderInv, NothingVanishes, [Next]_vars PROVE NothingVanishes'
  OBVIOUS
<1>1. Len(log) \in Nat /\ Len(inserts) \in Nat /\ published \in Nat /\ cut \in Nat
      /\ log \in Seq(Messages) /\ inserts \in Seq(Messages)
  BY DEF TypeInv
<1> DEFINE Here == Ids(log) \cup Ids(inserts) \cup lost
<1>2. ASSUME published' = published, cut' = cut, Here \subseteq Here'
      PROVE  NothingVanishes'
  BY <1>2 DEF NothingVanishes
<1>3. ASSUME NEW e, e.id = published + 1, published' = published + 1, cut' = cut, lost' = lost,
             log' = log, Ids(inserts) \cup {e.id} \subseteq Ids(inserts')
      PROVE  NothingVanishes'
  <2> SUFFICES ASSUME NEW id \in 1..published', id > cut'
               PROVE  id \in Ids(log') \cup Ids(inserts') \cup lost'
    BY DEF NothingVanishes
  <2>1. id \in 1..published \/ id = e.id
    BY <1>1, <1>3
  <2> QED
    BY <1>3, <2>1 DEF NothingVanishes
<1>4. CASE Boot
  <2> DEFINE e == Event("calm", "runtime")
  <2>1. inserts = <<>> /\ inserts' = <<e>> /\ e.id = published + 1
    BY <1>4 DEF Boot, OrderInv, DownInv, Event
  <2>2. Ids(inserts) = {} /\ e.id \in Ids(inserts')
    <3>1. Len(inserts) = 0 /\ Len(inserts') = 1 /\ inserts'[1] = e
      BY <2>1
    <3> QED
      BY <3>1 DEF Ids
  <2> QED
    BY <1>3, <1>4, <2>1, <2>2 DEF Boot
<1>5. ASSUME NEW t \in Publishers, NEW kind \in Kinds, Publish(t, kind) PROVE NothingVanishes'
  <2> DEFINE e == Event(kind, t)
  <2>1. e \in Messages /\ e.id = published + 1
    BY EventTyped
  <2>2. inserts' = Append(inserts, e)
    BY <1>5 DEF Publish
  <2> HIDE DEF e
  <2>3. /\ Len(inserts') = Len(inserts) + 1 /\ inserts'[Len(inserts) + 1] = e
        /\ \A i \in 1..Len(inserts) : inserts'[i] = inserts[i]
    BY <1>1, <2>1, <2>2, AppendProperties
  <2>4. Ids(inserts) \subseteq Ids(inserts')
    <3> SUFFICES ASSUME NEW i \in 1..Len(inserts) PROVE inserts[i].id \in Ids(inserts')
      BY DEF Ids
    <3>1. i \in 1..Len(inserts') /\ inserts'[i] = inserts[i]
      BY <1>1, <2>3
    <3> QED
      BY <3>1 DEF Ids
  <2>5. e.id \in Ids(inserts')
    <3>1. Len(inserts) + 1 \in 1..Len(inserts')
      BY <1>1, <2>3
    <3> QED
      BY <2>3, <3>1 DEF Ids
  <2> QED
    BY <1>3, <1>5, <2>1, <2>4, <2>5 DEF Publish, ghost
\* An insert leaves the queue, into the table or lost.
<1>6. ASSUME NEW i \in 1..Len(inserts), inserts' = RemoveAt(inserts, i)
      PROVE  Ids(inserts) \subseteq Ids(inserts') \cup {inserts[i].id}
  <2>1. /\ Len(inserts') = Len(inserts) - 1
        /\ \A k \in 1..Len(inserts') : inserts'[k] = IF k < i THEN inserts[k] ELSE inserts[k + 1]
    BY <1>1, <1>6, RemoveAtFacts
  <2> SUFFICES ASSUME NEW k \in 1..Len(inserts), k # i PROVE inserts[k].id \in Ids(inserts')
    BY DEF Ids
  <2>2. CASE k < i
    <3>1. k \in 1..Len(inserts') /\ inserts'[k] = inserts[k]
      BY <1>1, <2>1, <2>2
    <3> QED
      BY <3>1 DEF Ids
  <2>3. CASE k > i
    <3>1. k - 1 \in 1..Len(inserts') /\ ~(k - 1 < i) /\ (k - 1) + 1 = k
      BY <1>1, <2>1, <2>3
    <3>2. inserts'[k - 1] = inserts[k]
      BY <2>1, <3>1
    <3> QED
      BY <3>1, <3>2 DEF Ids
  <2> QED
    BY <1>1, <2>2, <2>3
<1>7. ASSUME inserts # <<>>, inserts' = Tail(inserts)
      PROVE  Ids(inserts) \subseteq Ids(inserts') \cup {Head(inserts).id}
  <2>1. Head(inserts) = inserts[1] /\ Len(inserts') = Len(inserts) - 1
        /\ \A k \in 1..Len(inserts') : inserts'[k] = inserts[k + 1]
    BY <1>1, <1>7, HeadTailProperties
  <2> SUFFICES ASSUME NEW k \in 1..Len(inserts), k # 1 PROVE inserts[k].id \in Ids(inserts')
    BY <2>1 DEF Ids
  <2>2. k - 1 \in 1..Len(inserts') /\ (k - 1) + 1 = k
    BY <1>1, <2>1
  <2>3. inserts'[k - 1] = inserts[k]
    BY <2>1, <2>2
  <2> QED
    BY <2>2, <2>3 DEF Ids
<1>8. ASSUME NEW e \in Messages, log' = Append(log, e)
      PROVE  Ids(log) \cup {e.id} \subseteq Ids(log')
  <2>1. /\ Len(log') = Len(log) + 1 /\ log'[Len(log) + 1] = e
        /\ \A i \in 1..Len(log) : log'[i] = log[i]
    BY <1>1, <1>8, AppendProperties
  <2>2. Len(log) + 1 \in 1..Len(log')
    BY <1>1, <2>1
  <2>3. \A i \in 1..Len(log) : i \in 1..Len(log') /\ log'[i] = log[i]
    BY <1>1, <2>1
  <2> QED
    BY <2>1, <2>2, <2>3 DEF Ids
<1>9. CASE Insert
  <2>1. Head(inserts) \in Messages
    BY <1>1, <1>9 DEF Insert
  <2>2. Here \subseteq Here'
    BY <1>7, <1>8, <1>9, <2>1 DEF Insert, ghost
  <2> QED
    BY <1>2, <1>9, <2>2 DEF Insert, ghost
<1>10. CASE InsertFails
  <2>1. Here \subseteq Here'
    BY <1>7, <1>10 DEF InsertFails
  <2> QED
    BY <1>2, <1>10, <2>1 DEF InsertFails
<1>11. ASSUME NEW i \in 1..Len(inserts), CancelPublish(i) PROVE NothingVanishes'
  <2>1. Here \subseteq Here'
    BY <1>6, <1>11 DEF CancelPublish
  <2> QED
    BY <1>2, <1>11, <2>1 DEF CancelPublish
<1>12. ASSUME NEW e \in strays, StrayRuns(e) PROVE NothingVanishes'
  <2>1. e \in Messages
    BY DEF TypeInv
  <2>2. Ids(log) \subseteq Ids(log')
    BY <1>8, <1>12, <2>1 DEF StrayRuns
  <2>3. Here \subseteq Here'
    BY <1>12, <2>2 DEF StrayRuns, ghost
  <2> QED
    BY <1>2, <1>12, <2>3 DEF StrayRuns, ghost
<1>13. CASE Exit
  <2>1. Here \subseteq Here'
    BY <1>13 DEF Exit
  <2> QED
    BY <1>2, <1>13, <2>1 DEF Exit
<1>14. ASSUME NEW n \in 1..published, Prune(n) PROVE NothingVanishes'
  <2>1. n \in Nat /\ n > cut /\ log' = Kept(log, n) /\ cut' = n /\ UNCHANGED <<published, inserts, lost>>
    BY <1>1, <1>14 DEF Prune
  <2>2. PICK f : Places(log, n, f)
    BY <1>1, <2>1, KeptFacts
  <2>3. ASSUME NEW id \in Ids(log), id > n PROVE id \in Ids(log')
    <3>1. PICK k \in 1..Len(log) : log[k].id = id
      BY DEF Ids
    <3>2. PICK i \in 1..Len(log') : f[i] = k
      BY <2>1, <2>2, <2>3, <3>1 DEF Places
    <3>3. log'[i] = log[k]
      BY <2>1, <2>2, <3>2 DEF Places
    <3> QED
      BY <3>1, <3>3 DEF Ids
  <2> SUFFICES ASSUME NEW id \in 1..published, id > n PROVE id \in Ids(log') \cup Ids(inserts) \cup lost
    BY <2>1 DEF NothingVanishes
  <2>4. id > cut
    BY <1>1, <2>1
  <2>5. id \in Ids(log) \cup Ids(inserts) \cup lost
    BY <2>4 DEF NothingVanishes
  <2> QED
    BY <2>3, <2>5
<1>15. CASE Detach \/ Close \/ UNCHANGED vars
  BY <1>2, <1>15 DEF Detach, Close, vars, ghost, Ids
<1> QED
  BY <1>4, <1>5, <1>9, <1>10, <1>11, <1>12, <1>13, <1>14, <1>15 DEF Next

\* Every event is stored, still to be stored, pruned, or lost to a fault.
THEOREM NoEventVanishes == Spec => []NothingVanishes
  BY NothingVanishesInit, NothingVanishesNext, TypeInvariance, OrderInvariance, PTL DEF Spec
-----------------------------------------------------------------------------
\* What a builder holds.

Begins(k) == k.events[1]

\* Every incident begins with one of the given events, and those that begin at n
\* or later are in order.
Sound(b, I, n) ==
  /\ \A i \in 1..Len(b.closed) : b.closed[i].events # <<>> /\ Begins(b.closed[i]) \in I
  /\ IsOpen(b) => b.open.events # <<>> /\ Begins(b.open) \in I
  /\ \A i, j \in 1..Len(b.closed) :
       i < j /\ Begins(b.closed[i]) >= n => Begins(b.closed[i]) < Begins(b.closed[j])
  /\ IsOpen(b) => \A i \in 1..Len(b.closed) :
       Begins(b.closed[i]) >= n => Begins(b.closed[i]) < Begins(b.open)

LEMMA NoBuilderTyped ==
  NoBuilder \in Builders /\ Len(NoBuilder.closed) = 0 /\ ~IsOpen(NoBuilder)
  BY DEF NoBuilder, NoIncident, Builders, Incidents, IsOpen

LEMMA NoBuilderSound == ASSUME NEW I, NEW n PROVE Sound(NoBuilder, I, n)
  BY NoBuilderTyped DEF Sound

\* An incident goes on from the event it began with.
LEMMA HeardBegins ==
  ASSUME NEW k \in Incidents, NEW i \in Nat
  PROVE  /\ Append(k.events, i) # <<>>
         /\ k.events # <<>> => Append(k.events, i)[1] = k.events[1]
         /\ k.events = <<>> => Append(k.events, i)[1] = i
<1>1. k.events \in Seq(Nat)
  BY DEF Incidents
<1> DEFINE s == k.events
<1>2. s \in Seq(Nat) /\ Len(s) \in Nat
  BY <1>1
<1> HIDE DEF s
<1>3. /\ Append(s, i) # <<>> /\ Append(s, i)[Len(s) + 1] = i
      /\ \A j \in 1..Len(s) : Append(s, i)[j] = s[j]
  BY <1>2, AppendProperties
<1>4. s # <<>> => 1 \in 1..Len(s)
  BY <1>2
<1>5. s = <<>> => Len(s) = 0
  OBVIOUS
<1> QED
  BY <1>3, <1>4, <1>5 DEF s

LEMMA FeedSound ==
  ASSUME NEW b \in Builders, NEW e \in Messages, NEW I, I \subseteq Nat, NEW n \in Nat,
         Sound(b, I, n), \A x \in I : x >= n => x < e.id
  PROVE  Sound(Feed(b, e), I \cup {e.id}, n)
<1> DEFINE c == Feed(b, e)
           J == I \cup {e.id}
<1> SUFFICES Sound(c, J, n)
  OBVIOUS
<1>1. b.open \in Incidents /\ b.closed \in Seq(Incidents) /\ e.id \in Nat /\ Len(b.closed) \in Nat
  BY DEF Builders, Messages
<1>2. /\ \A i \in 1..Len(b.closed) : b.closed[i].events # <<>> /\ Begins(b.closed[i]) \in J
      /\ \A i, j \in 1..Len(b.closed) :
           i < j /\ Begins(b.closed[i]) >= n => Begins(b.closed[i]) < Begins(b.closed[j])
  BY DEF Sound
<1>3. IsOpen(b) => b.open.events # <<>> /\ Begins(b.open) \in I
  BY DEF Sound
<1>4. \A i \in 1..Len(b.closed) : Begins(b.closed[i]) >= n =>
        Begins(b.closed[i]) < e.id /\ (IsOpen(b) => Begins(b.closed[i]) < Begins(b.open))
  BY DEF Sound
<1>5. Heard(b.open, e).events = Append(b.open.events, e.id)
  BY DEF Heard
\* The incident that is open goes on, or one begins.
<1>6. ASSUME NEW k, c = [closed |-> b.closed, open |-> k], k.events = Append(b.open.events, e.id),
             IsOpen(b) \/ b.open.events = <<>>
      PROVE  Sound(c, J, n)
  <2>1. c.closed = b.closed /\ c.open = k
    BY <1>6
  <2>2. k.events # <<>>
    BY <1>1, <1>6, HeardBegins
  <2>3. Begins(k) = (IF IsOpen(b) THEN Begins(b.open) ELSE e.id)
    <3>1. CASE IsOpen(b)
      BY <1>1, <1>3, <1>6, <3>1, HeardBegins DEF Begins
    <3>2. CASE ~IsOpen(b)
      BY <1>1, <1>6, <3>2, HeardBegins DEF Begins
    <3> QED
      BY <3>1, <3>2
  <2>4. Begins(k) \in J
    BY <1>3, <2>3
  <2>5. \A i \in 1..Len(b.closed) : Begins(b.closed[i]) >= n => Begins(b.closed[i]) < Begins(k)
    BY <1>4, <2>3
  <2> HIDE DEF c, J
  <2> QED
    BY <1>2, <2>1, <2>2, <2>4, <2>5 DEF Sound
<1>7. CASE e.kind \in IncidentStates
  <2>1. IsOpen(b) \/ b.open.events = <<>>
    BY DEF IsOpen, NoIncident
  <2> DEFINE k == [events |-> Append(b.open.events, e.id), states |-> Append(b.open.states, e.kind)]
  <2>2. c = [closed |-> b.closed, open |-> k]
    BY <1>7, FeedCases
  <2>3. k.events = Append(b.open.events, e.id)
    OBVIOUS
  <2> HIDE DEF c, J, k
  <2> QED
    BY <1>6, <2>1, <2>2, <2>3
<1>8. CASE c = b
  <2>1. \A i \in 1..Len(b.closed) : Begins(b.closed[i]) \in J
    BY <1>2
  <2>2. IsOpen(b) => Begins(b.open) \in J
    BY <1>3
  <2> HIDE DEF c, J
  <2>3. IsOpen(b) => /\ b.open.events # <<>>
                     /\ \A i \in 1..Len(b.closed) :
                          Begins(b.closed[i]) >= n => Begins(b.closed[i]) < Begins(b.open)
    BY <1>3, <1>4
  <2>4. Sound(b, J, n)
    BY <1>2, <2>1, <2>2, <2>3 DEF Sound
  <2> QED
    BY <1>8, <2>4
<1>9. CASE e.kind = "plain" /\ IsOpen(b)
  <2> DEFINE k == Heard(b.open, e)
  <2>1. c = [closed |-> b.closed, open |-> k]
    BY <1>9, FeedCases
  <2>2. k.events = Append(b.open.events, e.id)
    BY <1>5
  <2> HIDE DEF c, J, k
  <2> QED
    BY <1>6, <1>9, <2>1, <2>2
<1>10. CASE e.kind = "calm" /\ IsOpen(b)
  <2> DEFINE k == Heard(b.open, e)
             d == Append(b.closed, k)
  <2>1. c = [closed |-> d, open |-> NoIncident]
    BY <1>10, FeedCases
  <2>2. k \in Incidents
    BY <1>1, HeardTyped
  <2>3. k.events # <<>> /\ Begins(k) = Begins(b.open)
    BY <1>1, <1>3, <1>5, <1>10, HeardBegins DEF Begins
  <2> HIDE DEF k
  <2>4. /\ Len(d) = Len(b.closed) + 1 /\ d[Len(b.closed) + 1] = k
        /\ \A i \in 1..Len(b.closed) : d[i] = b.closed[i]
    BY <1>1, <2>2, AppendProperties
  <2> HIDE DEF d
  <2>5. c.closed = d /\ ~IsOpen(c)
    BY <2>1 DEF IsOpen
  <2> HIDE DEF c, J
  <2>6. \A i \in 1..Len(d) : i \in 1..Len(b.closed) \/ i = Len(b.closed) + 1
    BY <1>1, <2>4
  <2>7. \A i \in 1..Len(d) : d[i].events # <<>> /\ Begins(d[i]) \in J
    BY <1>2, <1>3, <1>10, <2>3, <2>4, <2>6 DEF J
  <2>8. ASSUME NEW i \in 1..Len(d), NEW j \in 1..Len(d), i < j, Begins(d[i]) >= n
        PROVE  Begins(d[i]) < Begins(d[j])
    <3>1. i \in 1..Len(b.closed) /\ d[i] = b.closed[i]
      BY <1>1, <2>4, <2>8
    <3>2. CASE j = Len(b.closed) + 1
      BY <1>4, <1>10, <2>3, <2>4, <2>8, <3>1, <3>2
    <3>3. CASE j \in 1..Len(b.closed)
      BY <1>2, <2>4, <2>8, <3>1, <3>3
    <3> QED
      BY <2>6, <3>2, <3>3
  <2> QED
    BY <2>5, <2>7, <2>8 DEF Sound
<1> QED
  <2> HIDE DEF c, J
  <2>1. e.kind \in IncidentStates \cup {"calm", "plain"}
    BY FeedCases
  <2>2. ~IsOpen(b) /\ e.kind \in {"calm", "plain"} => c = b
    BY FeedCases DEF c
  <2> QED
    BY <1>7, <1>8, <1>9, <1>10, <2>1, <2>2

\* The incidents of a sequence of events.
LEMMA BuildSound ==
  ASSUME NEW n \in Nat, NEW s \in Seq(Messages),
         \A i, j \in 1..Len(s) : i < j /\ s[i].id >= n => s[i].id < s[j].id
  PROVE  Build(s) \in Builders /\ Sound(Build(s), Ids(s), n)
<1> DEFINE Sorted(t) == \A i, j \in 1..Len(t) : i < j /\ t[i].id >= n => t[i].id < t[j].id
           P == {t \in Seq(Messages) : Build(t) \in Builders
                                       /\ (Sorted(t) => Sound(Build(t), Ids(t), n))}
<1>1. <<>> \in P
  <2>1. Build(<<>>) = NoBuilder /\ <<>> \in Seq(Messages)
    BY BuildEmpty
  <2> QED
    BY <2>1, NoBuilderTyped, NoBuilderSound
<1>2. ASSUME NEW t \in Seq(Messages), NEW e \in Messages, t \in P PROVE Append(t, e) \in P
  <2> DEFINE u == Append(t, e)
  <2>1. /\ u \in Seq(Messages) /\ Len(u) = Len(t) + 1 /\ Len(t) \in Nat /\ u[Len(t) + 1] = e
        /\ \A i \in 1..Len(t) : u[i] = t[i]
    BY AppendProperties
  <2>2. Build(u) = Feed(Build(t), e) /\ Build(t) \in Builders
    BY <1>2, BuildAppend
  <2>3. Build(u) \in Builders
    BY <2>2, FeedTyped
  <2> HIDE DEF u
  <2>4. ASSUME Sorted(u) PROVE Sound(Build(u), Ids(u), n)
    <3>1. \A i \in 1..Len(t) : i \in 1..Len(u) /\ i < Len(t) + 1 /\ Len(t) + 1 \in 1..Len(u)
      BY <2>1
    <3>2. Sorted(t)
      BY <2>1, <2>4, <3>1
    <3>3. Sound(Build(t), Ids(t), n)
      BY <1>2, <3>2
    <3>4. \A i \in 1..Len(t) : t[i].id >= n => t[i].id < e.id
      BY <2>1, <2>4, <3>1
    <3>5. Ids(t) \subseteq Nat /\ \A x \in Ids(t) : x >= n => x < e.id
      <4>1. \A i \in 1..Len(t) : t[i].id \in Nat
        <5>1. \A i \in 1..Len(t) : t[i] \in Messages
          BY <2>1
        <5> QED
          BY <5>1 DEF Messages
      <4> QED
        BY <3>4, <4>1 DEF Ids
    <3>6. Sound(Build(u), Ids(t) \cup {e.id}, n)
      BY <2>2, <3>3, <3>5, FeedSound
    <3>7. Ids(t) \cup {e.id} = Ids(u)
      <4>1. \A i \in 1..Len(u) : i \in 1..Len(t) \/ i = Len(t) + 1
        BY <2>1
      <4> QED
        BY <2>1, <3>1, <4>1 DEF Ids
    <3> QED
      BY <3>6, <3>7
  <2> HIDE DEF Sorted
  <2> QED
    BY <2>1, <2>3, <2>4 DEF u
<1> HIDE DEF P
<1>3. \A t \in Seq(Messages) : t \in P
  BY <1>1, <1>2, SeqInduct
<1>4. s \in P
  BY <1>3
<1> QED
  BY <1>4 DEF P
-----------------------------------------------------------------------------
\* Two builders that agree on what began after event n: on the incident that is
\* open, and on the closed ones, counted from the newest.

Agree(b, c, n, h) ==
  /\ b.open = c.open
  /\ \A k \in 1..h : BeganAfter(n, b.closed, k) \/ BeganAfter(n, c.closed, k) =>
       /\ k <= Len(b.closed) /\ k <= Len(c.closed)
       /\ Nth(b.closed, k) = Nth(c.closed, k)

LEMMA ConcatAppend ==
  ASSUME NEW S, NEW s \in Seq(S), NEW t \in Seq(S), NEW x \in S
  PROVE  s \o Append(t, x) = Append(s \o t, x)
<1>1. <<x>> \in Seq(S) /\ Append(t, x) = t \o <<x>> /\ s \o t \in Seq(S)
  BY AppendIsConcat
<1>2. Append(s \o t, x) = (s \o t) \o <<x>>
  BY <1>1, AppendIsConcat
<1>3. (s \o t) \o <<x>> = s \o (t \o <<x>>)
  BY <1>1, ConcatAssociative
<1> QED
  BY <1>1, <1>2, <1>3

LEMMA NthAppend ==
  ASSUME NEW S, NEW s \in Seq(S), NEW x \in S, NEW k \in Nat \ {0}
  PROVE  /\ k <= Len(Append(s, x)) <=> k = 1 \/ k - 1 <= Len(s)
         /\ k = 1 => Nth(Append(s, x), k) = x
         /\ k # 1 /\ k <= Len(Append(s, x)) => Nth(Append(s, x), k) = Nth(s, k - 1)
<1> DEFINE t == Append(s, x)
<1>1. /\ Len(t) = Len(s) + 1 /\ Len(s) \in Nat /\ t[Len(s) + 1] = x
      /\ \A i \in 1..Len(s) : t[i] = s[i]
  BY AppendProperties
<1> HIDE DEF t
<1>2. k <= Len(t) <=> k = 1 \/ k - 1 <= Len(s)
  BY <1>1
<1>3. ASSUME k = 1 PROVE Nth(t, k) = x
  <2>1. Len(t) + 1 - k = Len(s) + 1
    BY <1>1, <1>3
  <2> QED
    BY <1>1, <2>1 DEF Nth
<1>4. ASSUME k # 1, k <= Len(t) PROVE Nth(t, k) = Nth(s, k - 1)
  <2>1. Len(t) + 1 - k \in 1..Len(s) /\ Len(t) + 1 - k = Len(s) + 1 - (k - 1)
    BY <1>1, <1>4
  <2>2. t[Len(t) + 1 - k] = s[Len(s) + 1 - (k - 1)]
    BY <1>1, <2>1
  <2> QED
    BY <2>2 DEF Nth
<1> QED
  BY <1>2, <1>3, <1>4 DEF t

LEMMA NthNewest ==
  ASSUME NEW S, NEW s \in Seq(S), NEW n \in Nat \ {0}, NEW k \in 1..n
  PROVE  /\ k <= Len(Newest(s, n)) <=> k <= Len(s)
         /\ k <= Len(s) => Nth(Newest(s, n), k) = Nth(s, k)
<1> DEFINE t == Newest(s, n)
<1>1. /\ Len(s) \in Nat /\ Len(t) = IF Len(s) > n THEN n ELSE Len(s)
      /\ \A i \in 1..Len(t) : t[i] = s[i + (Len(s) - Len(t))]
  BY NewestFacts
<1> HIDE DEF t
<1>2. k <= Len(t) <=> k <= Len(s)
  BY <1>1
<1>3. ASSUME k <= Len(s) PROVE Nth(t, k) = Nth(s, k)
  <2>1. Len(t) + 1 - k \in 1..Len(t)
    BY <1>1, <1>2, <1>3
  <2>2. (Len(t) + 1 - k) + (Len(s) - Len(t)) = Len(s) + 1 - k
    <3>1. Len(t) \in Nat
      BY <1>1
    <3>2. Len(s) \in Nat /\ k \in Nat
      BY <1>1
    <3> QED
      BY <3>1, <3>2
  <2>3. t[Len(t) + 1 - k] = s[Len(s) + 1 - k]
    BY <1>1, <2>1, <2>2
  <2> QED
    BY <2>3 DEF Nth
<1> QED
  BY <1>2, <1>3 DEF t

LEMMA AgreeSymmetric ==
  ASSUME NEW b, NEW c, NEW n, NEW h, Agree(b, c, n, h)
  PROVE  Agree(c, b, n, h)
  BY DEF Agree

LEMMA AgreeTransitive ==
  ASSUME NEW b, NEW c, NEW d, NEW n, NEW h, Agree(b, c, n, h), Agree(c, d, n, h)
  PROVE  Agree(b, d, n, h)
  BY DEF Agree, BeganAfter

\* Builders that agree on the closed incidents do so after one more.
LEMMA AgreeCloses ==
  ASSUME NEW b \in Builders, NEW c \in Builders, NEW n, NEW h \in Nat, Agree(b, c, n, h),
         NEW k \in Incidents
  PROVE  Agree([closed |-> Append(b.closed, k), open |-> NoIncident],
               [closed |-> Append(c.closed, k), open |-> NoIncident], n, h)
<1> DEFINE u == Append(b.closed, k)
           v == Append(c.closed, k)
<1> SUFFICES Agree([closed |-> u, open |-> NoIncident], [closed |-> v, open |-> NoIncident], n, h)
  OBVIOUS
<1>1. b.closed \in Seq(Incidents) /\ c.closed \in Seq(Incidents)
  BY DEF Builders
<1>2. ASSUME NEW i \in 1..h, BeganAfter(n, u, i) \/ BeganAfter(n, v, i)
      PROVE  i <= Len(u) /\ i <= Len(v) /\ Nth(u, i) = Nth(v, i)
  <2>1. /\ i <= Len(u) <=> i = 1 \/ i - 1 <= Len(b.closed)
        /\ i = 1 => Nth(u, i) = k
        /\ i # 1 /\ i <= Len(u) => Nth(u, i) = Nth(b.closed, i - 1)
    BY <1>1, NthAppend
  <2>2. /\ i <= Len(v) <=> i = 1 \/ i - 1 <= Len(c.closed)
        /\ i = 1 => Nth(v, i) = k
        /\ i # 1 /\ i <= Len(v) => Nth(v, i) = Nth(c.closed, i - 1)
    BY <1>1, NthAppend
  <2> HIDE DEF u, v
  <2>3. CASE i = 1
    BY <2>1, <2>2, <2>3
  <2>4. CASE i # 1
    <3>1. i - 1 \in 1..h
      BY <2>4
    <3>2. BeganAfter(n, b.closed, i - 1) \/ BeganAfter(n, c.closed, i - 1)
      BY <1>2, <2>1, <2>2, <2>4 DEF BeganAfter
    <3>3. i - 1 <= Len(b.closed) /\ i - 1 <= Len(c.closed)
          /\ Nth(b.closed, i - 1) = Nth(c.closed, i - 1)
      BY <3>1, <3>2 DEF Agree
    <3> QED
      BY <2>1, <2>2, <2>4, <3>3
  <2> QED
    BY <2>3, <2>4
<1> HIDE DEF u, v
<1> QED
  BY <1>2 DEF Agree

\* Fed the same event, they still agree.
LEMMA AgreeFeed ==
  ASSUME NEW b \in Builders, NEW c \in Builders, NEW n, NEW h \in Nat, Agree(b, c, n, h),
         NEW e \in Messages
  PROVE  Agree(Feed(b, e), Feed(c, e), n, h)
<1>1. b.open = c.open /\ (IsOpen(b) <=> IsOpen(c)) /\ b.open \in Incidents
  BY DEF Agree, IsOpen, Builders
<1>2. CASE e.kind \in IncidentStates
  <2> DEFINE k == [events |-> Append(b.open.events, e.id), states |-> Append(b.open.states, e.kind)]
  <2>1. Feed(b, e) = [closed |-> b.closed, open |-> k] /\ Feed(c, e) = [closed |-> c.closed, open |-> k]
    BY <1>1, <1>2, FeedCases
  <2> HIDE DEF k
  <2> QED
    BY <2>1 DEF Agree
<1>3. CASE e.kind = "calm" /\ IsOpen(b)
  <2> DEFINE k == Heard(b.open, e)
  <2>1. Feed(b, e) = [closed |-> Append(b.closed, k), open |-> NoIncident]
        /\ Feed(c, e) = [closed |-> Append(c.closed, k), open |-> NoIncident]
    BY <1>1, <1>3, FeedCases
  <2>2. k \in Incidents
    BY <1>1, HeardTyped
  <2> HIDE DEF k
  <2> QED
    BY <2>1, <2>2, AgreeCloses
<1>4. CASE e.kind = "plain" /\ IsOpen(b)
  <2> DEFINE k == Heard(b.open, e)
  <2>1. Feed(b, e) = [closed |-> b.closed, open |-> k] /\ Feed(c, e) = [closed |-> c.closed, open |-> k]
    BY <1>1, <1>4, FeedCases
  <2> HIDE DEF k
  <2> QED
    BY <2>1 DEF Agree
<1>5. CASE e.kind \in {"calm", "plain"} /\ ~IsOpen(b)
  <2>1. Feed(b, e) = b /\ Feed(c, e) = c
    BY <1>1, <1>5, FeedCases
  <2> QED
    BY <2>1
<1> QED
  BY <1>2, <1>3, <1>4, <1>5, FeedCases

\* Nor does the bound on the tracker's history part them.
LEMMA AgreeTrack ==
  ASSUME TypeInv, NEW c \in Builders, NEW n, Agree(tracker, c, n, MaxHistory), NEW e \in Messages,
         Track(e)
  PROVE  Agree(tracker', Feed(c, e), n, MaxHistory)
<1> USE DiagnosticsAssumption
<1> DEFINE b == Feed(tracker, e)
           d == Feed(c, e)
<1>1. b \in Builders /\ d \in Builders /\ Agree(b, d, n, MaxHistory)
  BY FeedTyped, AgreeFeed DEF TypeInv
<1>2. tracker' = [b EXCEPT !.closed = Newest(b.closed, MaxHistory)]
  BY DEF Track
<1> HIDE DEF b, d
<1>3. b.closed \in Seq(Incidents)
  BY <1>1 DEF Builders
<1>4. tracker'.closed = Newest(b.closed, MaxHistory) /\ tracker'.open = b.open
  BY <1>1, <1>2 DEF Builders
<1>5. ASSUME NEW k \in 1..MaxHistory
      PROVE  /\ k <= Len(tracker'.closed) <=> k <= Len(b.closed)
             /\ k <= Len(b.closed) => Nth(tracker'.closed, k) = Nth(b.closed, k)
  BY <1>3, <1>4, NthNewest
<1>6. Agree(tracker', d, n, MaxHistory)
  BY <1>1, <1>4, <1>5 DEF Agree, BeganAfter
<1> QED
  BY <1>6 DEF d

LEMMA BuildTyped == ASSUME NEW s \in Seq(Messages) PROVE Build(s) \in Builders
<1> DEFINE P == {t \in Seq(Messages) : Build(t) \in Builders}
<1>1. <<>> \in P
  BY BuildEmpty, NoBuilderTyped
<1>2. ASSUME NEW t \in Seq(Messages), NEW e \in Messages, t \in P PROVE Append(t, e) \in P
  <2>1. Build(Append(t, e)) = Feed(Build(t), e) /\ Append(t, e) \in Seq(Messages)
    BY BuildAppend
  <2> QED
    BY <1>2, <2>1, FeedTyped
<1> HIDE DEF P
<1>3. \A t \in Seq(Messages) : t \in P
  BY <1>1, <1>2, SeqInduct
<1> QED
  BY <1>3 DEF P

\* So they agree after any number of events.
LEMMA AgreeOn ==
  ASSUME NEW s \in Seq(Messages), NEW t \in Seq(Messages), NEW n, NEW h \in Nat,
         Agree(Build(s), Build(t), n, h), NEW q \in Seq(Messages)
  PROVE  Agree(Build(s \o q), Build(t \o q), n, h)
<1> DEFINE P == {r \in Seq(Messages) : Agree(Build(s \o r), Build(t \o r), n, h)}
<1>1. <<>> \in P
  <2>1. s \o <<>> = s /\ t \o <<>> = t /\ <<>> \in Seq(Messages)
    BY ConcatEmptySeq
  <2> QED
    BY <2>1
<1>2. ASSUME NEW r \in Seq(Messages), NEW e \in Messages, r \in P PROVE Append(r, e) \in P
  <2>1. s \o r \in Seq(Messages) /\ t \o r \in Seq(Messages) /\ Append(r, e) \in Seq(Messages)
    OBVIOUS
  <2>2. s \o Append(r, e) = Append(s \o r, e) /\ t \o Append(r, e) = Append(t \o r, e)
    BY ConcatAppend
  <2>3. Agree(Feed(Build(s \o r), e), Feed(Build(t \o r), e), n, h)
    BY <1>2, <2>1, AgreeFeed, BuildTyped
  <2> QED
    BY <2>1, <2>2, <2>3, BuildAppend
<1> HIDE DEF P
<1>3. \A r \in Seq(Messages) : r \in P
  BY <1>1, <1>2, SeqInduct
<1> QED
  BY <1>3 DEF P
-----------------------------------------------------------------------------
\* The tracker.

TrackerInv == Sound(tracker, 1..published, 0)

LEMMA TrimSound ==
  ASSUME NEW b \in Builders, NEW I, NEW n, Sound(b, I, n), NEW m \in Nat \ {0}
  PROVE  Sound([b EXCEPT !.closed = Newest(b.closed, m)], I, n)
<1> DEFINE s == b.closed
           t == Newest(s, m)
           d == Len(s) - Len(t)
           c == [b EXCEPT !.closed = t]
<1> SUFFICES Sound(c, I, n)
  OBVIOUS
<1>1. s \in Seq(Incidents) /\ Len(s) \in Nat
  BY DEF Builders
<1>2. Len(t) \in Nat /\ Len(t) <= Len(s) /\ \A i \in 1..Len(t) : t[i] = s[i + d]
  BY <1>1, NewestFacts
<1>3. c.closed = t /\ c.open = b.open
  BY DEF Builders
<1> HIDE DEF t, c
<1>4. d \in Nat /\ \A i \in 1..Len(t) : i + d \in 1..Len(s)
  BY <1>1, <1>2
<1>5. \A i, j \in 1..Len(t) : i < j => i + d < j + d
  BY <1>2, <1>4
<1> HIDE DEF d
<1>6. IsOpen(c) <=> IsOpen(b)
  BY <1>3 DEF IsOpen
<1>7. ASSUME NEW i \in 1..Len(t)
      PROVE  /\ t[i].events # <<>> /\ Begins(t[i]) \in I
             /\ IsOpen(b) => (Begins(t[i]) >= n => Begins(t[i]) < Begins(b.open))
  BY <1>2, <1>4 DEF Sound
<1>8. ASSUME NEW i \in 1..Len(t), NEW j \in 1..Len(t), i < j, Begins(t[i]) >= n
      PROVE  Begins(t[i]) < Begins(t[j])
  <2>1. i + d \in 1..Len(s) /\ j + d \in 1..Len(s) /\ i + d < j + d
    BY <1>4, <1>5, <1>8
  <2>2. t[i] = s[i + d] /\ t[j] = s[j + d]
    BY <1>2
  <2> QED
    BY <1>8, <2>1, <2>2 DEF Sound
<1> HIDE DEF s
<1> QED
  BY <1>3, <1>6, <1>7, <1>8 DEF Sound

LEMMA TrackSound ==
  ASSUME TypeInv, TrackerInv, NEW e \in Messages, e.id = published + 1, Track(e)
  PROVE  Sound(tracker', 1..published + 1, 0) /\ Sound(Feed(tracker, e), 1..published + 1, 0)
<1> DEFINE b == Feed(tracker, e)
           I == 1..published
<1>1. tracker \in Builders /\ published \in Nat
  BY DEF TypeInv
<1>2. I \subseteq Nat /\ \A x \in I : x >= 0 => x < e.id
  BY <1>1
<1>3. Sound(b, I \cup {e.id}, 0) /\ b \in Builders
  BY <1>1, <1>2, FeedSound, FeedTyped DEF TrackerInv
<1>4. I \cup {e.id} = 1..published + 1
  BY <1>1
<1>5. tracker' = [b EXCEPT !.closed = Newest(b.closed, MaxHistory)]
  BY DEF Track
<1> HIDE DEF b, I
<1>6. Sound(tracker', I \cup {e.id}, 0)
  BY <1>3, <1>5, TrimSound, DiagnosticsAssumption
<1> QED
  BY <1>3, <1>4, <1>6 DEF b

LEMMA TrackerInit == Init => TrackerInv
  BY NoBuilderSound DEF Init, TrackerInv

LEMMA TrackerNext == TypeInv /\ TrackerInv /\ [Next]_vars => TrackerInv'
<1> SUFFICES ASSUME TypeInv, TrackerInv, [Next]_vars PROVE TrackerInv'
  OBVIOUS
<1>1. CASE Boot
  BY <1>1, NoBuilderSound DEF Boot, TrackerInv
<1>2. ASSUME NEW t \in Publishers, NEW kind \in Kinds, Publish(t, kind) PROVE TrackerInv'
  <2> DEFINE e == Event(kind, t)
  <2>1. e \in Messages /\ e.id = published + 1 /\ Track(e) /\ published' = published + 1
    BY <1>2, EventTyped DEF Publish
  <2> HIDE DEF e
  <2> QED
    BY <2>1, TrackSound DEF TrackerInv
<1>3. CASE UNCHANGED <<tracker, published>>
  BY <1>3 DEF TrackerInv
<1> QED
  BY <1>1, <1>2, <1>3 DEF Next, Insert, InsertFails, CancelPublish, StrayRuns, Detach, Close, Exit,
     Prune, vars, ghost

LEMMA TrackerInvariance == Spec => []TrackerInv
  BY TrackerInit, TrackerNext, TypeInvariance, PTL DEF Spec

-----------------------------------------------------------------------------
\* The timeline, with the inserts that are under way.

Stream == log \o inserts

LEMMA StreamFacts ==
  ASSUME TypeInv, OrderInv
  PROVE  /\ Stream \in Seq(Messages) /\ Len(Stream) = Len(log) + Len(inserts)
         /\ \A i \in 1..Len(log) : Stream[i] = log[i]
         /\ \A i \in 1..Len(inserts) : Stream[Len(log) + i] = inserts[i]
         /\ \A i \in 1..Len(Stream) : Stream[i].id \in 1..published
         /\ \A i, j \in 1..Len(Stream) : i < j =>
              /\ Stream[i].id # Stream[j].id
              /\ Stream[j].id \notin disowned => Stream[i].id < Stream[j].id
              /\ Stream[i].id >= boot => Stream[j].id >= boot
<1>1. log \in Seq(Messages) /\ inserts \in Seq(Messages) /\ Len(log) \in Nat /\ Len(inserts) \in Nat
  BY DEF TypeInv
<1>2. /\ Stream \in Seq(Messages) /\ Len(Stream) = Len(log) + Len(inserts)
      /\ \A i \in 1..Len(log) + Len(inserts) :
           Stream[i] = IF i <= Len(log) THEN log[i] ELSE inserts[i - Len(log)]
  BY <1>1, ConcatProperties DEF Stream
<1>3. \A i \in 1..Len(log) : Stream[i] = log[i]
  BY <1>1, <1>2
<1>4. ASSUME NEW i \in 1..Len(inserts) PROVE Stream[Len(log) + i] = inserts[i]
  <2>1. Len(log) + i \in 1..Len(log) + Len(inserts) /\ ~(Len(log) + i <= Len(log))
        /\ (Len(log) + i) - Len(log) = i
    BY <1>1
  <2> QED
    BY <1>2, <2>1
<1>5. ASSUME NEW i \in 1..Len(Stream)
      PROVE  \/ i \in 1..Len(log) /\ Stream[i] = log[i]
             \/ /\ i - Len(log) \in 1..Len(inserts) /\ i > Len(log)
                /\ Stream[i] = inserts[i - Len(log)]
  BY <1>1, <1>2
<1>6. \A i \in 1..Len(Stream) : Stream[i].id \in 1..published
  BY <1>5 DEF TypeInv
<1>7. ASSUME NEW i \in 1..Len(Stream), NEW j \in 1..Len(Stream), i < j
      PROVE  /\ Stream[i].id # Stream[j].id
             /\ Stream[j].id \notin disowned => Stream[i].id < Stream[j].id
             /\ Stream[i].id >= boot => Stream[j].id >= boot
  <2>1. Stream[i].id \in Nat /\ Stream[j].id \in Nat
    BY <1>6
  <2>2. CASE j \in 1..Len(log)
    <3>1. i \in 1..Len(log)
      BY <1>1, <1>2, <1>7, <2>2
    <3> QED
      BY <1>3, <1>7, <2>2, <3>1 DEF OrderInv, LogInv, NewestLast
  <2>3. CASE j \notin 1..Len(log)
    <3> DEFINE k == j - Len(log)
    <3>1. k \in 1..Len(inserts) /\ Stream[j] = inserts[k]
      BY <1>5, <2>3
    <3>2. inserts[k].id >= boot
      BY <3>1 DEF OrderInv, QueueInv
    <3>3. Stream[i].id < inserts[k].id
      <4>1. CASE i \in 1..Len(log)
        BY <1>3, <3>1, <4>1 DEF OrderInv, Behind
      <4>2. CASE i \notin 1..Len(log)
        <5>1. i - Len(log) \in 1..Len(inserts) /\ Stream[i] = inserts[i - Len(log)]
          BY <1>5, <4>2
        <5>2. i - Len(log) < k
          BY <1>1, <1>2, <1>7
        <5> HIDE DEF k
        <5> QED
          BY <3>1, <5>1, <5>2 DEF OrderInv, QueueInv
      <4> QED
        BY <4>1, <4>2
    <3> HIDE DEF k
    <3> QED
      BY <2>1, <3>1, <3>2, <3>3
  <2> QED
    BY <2>2, <2>3
<1> QED
  BY <1>2, <1>3, <1>4, <1>6, <1>7
-----------------------------------------------------------------------------
\* After a calm event every builder is the same, but for what is older.

LEMMA CalmCloses ==
  ASSUME NEW b \in Builders, NEW e \in Messages, e.kind = "calm"
  PROVE  Feed(b, e).open = NoIncident
<1>1. CASE IsOpen(b)
  BY <1>1, FeedCases
<1>2. CASE ~IsOpen(b)
  <2>1. Feed(b, e) = b
    BY <1>2, FeedCases
  <2> QED
    BY <1>2, <2>1 DEF IsOpen
<1> QED
  BY <1>1, <1>2

LEMMA CalmAgree ==
  ASSUME NEW b \in Builders, NEW c \in Builders, b.open = c.open, NEW n \in Nat, NEW h \in Nat,
         NEW I, \A x \in I : x \in Nat /\ x <= n, NEW m, NEW o, Sound(b, I, m), Sound(c, I, o)
  PROVE  Agree(b, c, n, h)
<1>1. ASSUME NEW d \in Builders, NEW l, Sound(d, I, l), NEW k \in 1..h, BeganAfter(n, d.closed, k)
      PROVE  FALSE
  <2>1. Len(d.closed) \in Nat /\ k <= Len(d.closed)
    BY <1>1 DEF Builders, BeganAfter
  <2>2. Len(d.closed) + 1 - k \in 1..Len(d.closed)
    BY <2>1
  <2>3. Begins(d.closed[Len(d.closed) + 1 - k]) \in I
    BY <1>1, <2>2 DEF Sound
  <2>4. Begins(d.closed[Len(d.closed) + 1 - k]) > n
    BY <1>1 DEF BeganAfter, Nth, Begins
  <2> QED
    BY <2>3, <2>4
<1> QED
  BY <1>1 DEF Agree

\* The incidents of a sequence of events begin with some of them.
LEMMA BuildWithin ==
  ASSUME NEW s \in Seq(Messages), NEW n \in Nat, \A i \in 1..Len(s) : s[i].id <= n
  PROVE  Sound(Build(s), Ids(s), n + 1) /\ \A x \in Ids(s) : x \in Nat /\ x <= n
<1>1. \A i \in 1..Len(s) : s[i].id \in Nat
  <2>1. \A i \in 1..Len(s) : s[i] \in Messages
    OBVIOUS
  <2> QED
    BY <2>1 DEF Messages
<1>2. \A i \in 1..Len(s) : ~(s[i].id >= n + 1)
  BY <1>1
<1>3. n + 1 \in Nat
  OBVIOUS
<1>4. Sound(Build(s), Ids(s), n + 1)
  BY <1>2, <1>3, BuildSound
<1> QED
  BY <1>1, <1>4 DEF Ids

LEMMA EndsCalm ==
  ASSUME NEW s \in Seq(Messages), NEW e \in Messages, e.kind = "calm", s # <<>>, s[Len(s)] = e
  PROVE  Build(s).open = NoIncident
<1>1. PICK t \in Seq(Messages), x \in Messages : s = Append(t, x)
  BY SequenceEmptyOrAppend
<1>2. x = e
  BY <1>1, AppendProperties
<1>3. Build(s) = Feed(Build(t), e)
  BY <1>1, <1>2, BuildAppend
<1> QED
  BY <1>3, BuildTyped, CalmCloses

LEMMA CalmBase ==
  ASSUME NEW s \in Seq(Messages), NEW t \in Seq(Messages), NEW e \in Messages, e.kind = "calm",
         s # <<>>, s[Len(s)] = e, \A i \in 1..Len(s) : s[i].id <= e.id,
         t # <<>>, t[Len(t)] = e, \A i \in 1..Len(t) : t[i].id <= e.id,
         NEW h \in Nat
  PROVE  Agree(Build(s), Build(t), e.id, h)
<1> DEFINE n == e.id
           I == Ids(s) \cup Ids(t)
<1>1. n \in Nat
  BY DEF Messages
<1>2. Build(s) \in Builders /\ Build(t) \in Builders /\ Build(s).open = Build(t).open
  BY BuildTyped, EndsCalm
<1>3. Sound(Build(s), Ids(s), n + 1) /\ \A x \in Ids(s) : x \in Nat /\ x <= n
  BY <1>1, BuildWithin
<1>4. Sound(Build(t), Ids(t), n + 1) /\ \A x \in Ids(t) : x \in Nat /\ x <= n
  BY <1>1, BuildWithin
<1>5. Sound(Build(s), I, n + 1) /\ Sound(Build(t), I, n + 1)
  BY <1>3, <1>4 DEF Sound
<1>6. \A x \in I : x \in Nat /\ x <= n
  BY <1>3, <1>4
<1> HIDE DEF n, I
<1>7. Agree(Build(s), Build(t), n, h)
  BY <1>1, <1>2, <1>5, <1>6, CalmAgree
<1> QED
  BY <1>7 DEF n

-----------------------------------------------------------------------------
\* Pruning up to n takes nothing that comes after a calm event it leaves.

LEMMA KeptTail ==
  ASSUME NEW n \in Nat, NEW s \in Seq(Messages), NEW q \in Seq(Messages),
         \A i \in 1..Len(q) : q[i].id > n
  PROVE  Kept(s \o q, n) = Kept(s, n) \o q
<1> DEFINE All(r) == \A i \in 1..Len(r) : r[i].id > n
           P == {r \in Seq(Messages) : All(r) => Kept(s \o r, n) = Kept(s, n) \o r}
<1>1. Kept(s, n) \in Seq(Messages)
  BY KeptFacts
<1>2. <<>> \in P
  <2>1. s \o <<>> = s /\ Kept(s, n) \o <<>> = Kept(s, n) /\ <<>> \in Seq(Messages)
    BY <1>1, ConcatEmptySeq
  <2> QED
    BY <2>1
<1>3. ASSUME NEW r \in Seq(Messages), NEW e \in Messages, r \in P PROVE Append(r, e) \in P
  <2> DEFINE u == Append(r, e)
  <2>1. /\ u \in Seq(Messages) /\ Len(u) = Len(r) + 1 /\ Len(r) \in Nat /\ u[Len(r) + 1] = e
        /\ \A i \in 1..Len(r) : u[i] = r[i]
    BY AppendProperties
  <2>2. s \o u = Append(s \o r, e) /\ Kept(s, n) \o u = Append(Kept(s, n) \o r, e)
    BY <1>1, ConcatAppend
  <2> HIDE DEF u
  <2>3. ASSUME All(u) PROVE Kept(s \o u, n) = Kept(s, n) \o u
    <3>1. \A i \in 1..Len(r) : i \in 1..Len(u) /\ Len(r) + 1 \in 1..Len(u)
      BY <2>1
    <3>2. All(r) /\ e.id > n
      <4>1. Len(r) + 1 \in 1..Len(u)
        BY <2>1
      <4> QED
        BY <2>1, <2>3, <3>1, <4>1
    <3>3. Kept(s \o r, n) = Kept(s, n) \o r
      BY <1>3, <3>2
    <3>4. Kept(Append(s \o r, e), n) = Keep(Kept(s \o r, n), e, n)
      <4>1. s \o r \in Seq(Messages)
        OBVIOUS
      <4> QED
        BY <4>1, KeptAppend
    <3> QED
      BY <2>2, <3>2, <3>3, <3>4 DEF Keep
  <2> HIDE DEF All
  <2> QED
    BY <2>1, <2>3 DEF u
<1> HIDE DEF P
<1>4. \A r \in Seq(Messages) : r \in P
  BY <1>2, <1>3, SeqInduct
<1>5. q \in P
  BY <1>4
<1> QED
  BY <1>5 DEF P

\* A sequence cut after its i-th element.
LEMMA Cut ==
  ASSUME NEW S, NEW s \in Seq(S), NEW i \in 1..Len(s)
  PROVE  LET a == SubSeq(s, 1, i)
             b == SubSeq(s, i + 1, Len(s)) IN
         /\ a \in Seq(S) /\ b \in Seq(S) /\ s = a \o b
         /\ Len(a) = i /\ Len(b) = Len(s) - i
         /\ \A k \in 1..i : a[k] = s[k]
         /\ \A k \in 1..Len(s) - i : b[k] = s[k + i] /\ k + i \in 1..Len(s)
<1> DEFINE a == SubSeq(s, 1, i)
           b == SubSeq(s, i + 1, Len(s))
<1>1. Len(s) \in Nat /\ i \in Nat /\ i >= 1 /\ i <= Len(s)
  OBVIOUS
<1>2. a \in Seq(S) /\ Len(a) = i /\ \A k \in 1..i : a[k] = s[k]
  BY <1>1
<1>3. b \in Seq(S) /\ Len(b) = Len(s) - i /\ \A k \in 1..Len(s) - i : b[k] = s[k + i]
  BY <1>1
<1>4. s = a \o b
  <2>1. a \o b = SubSeq(s, 1, Len(s))
    <3>1. 1 \in 1..Len(s) + 1 /\ i \in 1 - 1..Len(s) /\ Len(s) \in i..Len(s)
      BY <1>1
    <3> QED
      BY <3>1, ConcatAdjacentSubSeq
  <2> QED
    BY <2>1, SubSeqFull
<1>5. \A k \in 1..Len(s) - i : k + i \in 1..Len(s)
  BY <1>1
<1> QED
  BY <1>2, <1>3, <1>4, <1>5

LEMMA Associative == \A s, t, u \in Seq(Messages) : (s \o t) \o u = s \o (t \o u)
  BY ConcatAssociative

\* The same, under a name.
Associates(s, t, u) == (s \o t) \o u = s \o (t \o u)

LEMMA AllAssociate == \A s, t, u \in Seq(Messages) : Associates(s, t, u)
  BY Associative DEF Associates

\* The timeline and what is left of it, both cut after the event e.
Splits(s, t, p, e, a, c, b) ==
  /\ s = a \o b /\ t = c \o b
  /\ Len(a) > 0 /\ a[Len(a)] = e /\ \A i \in 1..Len(a) : a[i].id <= e.id
  /\ Len(c) = p /\ c[Len(c)] = e /\ \A i \in 1..Len(c) : c[i].id <= e.id

LEMMA PruneSplit ==
  ASSUME TypeInv, OrderInv, NEW n \in Nat, NEW p \in 1..Len(Kept(log, n) \o inserts),
         NEW e, e = (Kept(log, n) \o inserts)[p], e.id >= boot,
         \A id \in lost : id < boot \/ e.id < id
  PROVE  \E a, c, b \in Seq(Messages) : Splits(Stream, Kept(log, n) \o inserts, p, e, a, c, b)
<1> DEFINE K == Kept(log, n)
           T == K \o inserts
<1>1. log \in Seq(Messages) /\ inserts \in Seq(Messages) /\ Len(log) \in Nat /\ Len(inserts) \in Nat
      /\ boot \in Nat /\ disowned \subseteq lost
  BY DEF TypeInv
<1>2. PICK f : Places(log, n, f)
  BY <1>1, KeptFacts
<1>3. K \in Seq(Messages) /\ Len(K) \in Nat
  BY <1>1, KeptFacts
<1>4. \A i \in 1..Len(K) : f[i] \in 1..Len(log) /\ K[i] = log[f[i]] /\ K[i].id > n
  BY <1>2 DEF Places
<1>5. \A i, j \in 1..Len(K) : i < j => f[i] < f[j]
  BY <1>2 DEF Places
<1> HIDE DEF K
<1>6. /\ T \in Seq(Messages) /\ Len(T) = Len(K) + Len(inserts)
      /\ \A i \in 1..Len(K) + Len(inserts) : T[i] = IF i <= Len(K) THEN K[i] ELSE inserts[i - Len(K)]
  BY <1>1, <1>3, ConcatProperties
<1>7. p \in 1..Len(T) /\ e = T[p]
  BY DEF K
<1>8. \A i \in 1..Len(log) : log[i].id \in Nat
  BY DEF TypeInv
<1>9. \A i \in 1..Len(inserts) : inserts[i].id \in Nat
  BY DEF TypeInv
<1>10. SUFFICES \E a, c, b \in Seq(Messages) : Splits(Stream, T, p, e, a, c, b)
  BY DEF K
<1>11. CASE p > Len(K)
  <2> DEFINE i == p - Len(K)
             h == SubSeq(inserts, 1, i)
             b == SubSeq(inserts, i + 1, Len(inserts))
             a == log \o h
             c == K \o h
  <2>1. i \in 1..Len(inserts) /\ e = inserts[i]
    BY <1>1, <1>3, <1>6, <1>7, <1>11
  <2>2. p = Len(K) + i
    BY <1>3, <1>7
  <2> HIDE DEF i
  <2>3. /\ h \in Seq(Messages) /\ b \in Seq(Messages) /\ inserts = h \o b /\ Len(h) = i
        /\ \A k \in 1..i : h[k] = inserts[k]
    BY <1>1, <2>1, Cut
  <2> HIDE DEF h, b
  <2>4. /\ a \in Seq(Messages) /\ Len(a) = Len(log) + i
        /\ \A k \in 1..Len(log) + i : a[k] = IF k <= Len(log) THEN log[k] ELSE h[k - Len(log)]
    BY <1>1, <2>3, ConcatProperties
  <2>5. /\ c \in Seq(Messages) /\ Len(c) = Len(K) + i
        /\ \A k \in 1..Len(K) + i : c[k] = IF k <= Len(K) THEN K[k] ELSE h[k - Len(K)]
    BY <1>3, <2>3, ConcatProperties
  <2>6. Stream = a \o b /\ T = c \o b
    <3>1. log \in Seq(Messages) /\ K \in Seq(Messages) /\ h \in Seq(Messages) /\ b \in Seq(Messages)
      BY <1>1, <1>3, <2>3
    <3>2. (log \o h) \o b = log \o (h \o b)
      BY <3>1, Associative
    <3>3. (K \o h) \o b = K \o (h \o b)
      BY <3>1, Associative
    <3>4. inserts = h \o b
      BY <2>3
    <3> QED
      BY <3>2, <3>4, <3>3, Zenon DEF Stream
  <2> HIDE DEF a, c
  <2>7. \A k \in 1..i : inserts[k].id <= e.id
    BY <1>9, <2>1 DEF OrderInv, QueueInv
  <2>8. \A k \in 1..Len(log) : log[k].id <= e.id
    <3>1. \A k \in 1..Len(log) : log[k].id < inserts[i].id
      BY <2>1 DEF OrderInv, Behind
    <3> QED
      BY <1>8, <1>9, <2>1, <3>1
  <2>9. a[Len(a)] = e
    <3>1. Len(log) + i \in 1..Len(log) + i /\ ~(Len(log) + i <= Len(log)) /\ (Len(log) + i) - Len(log) = i
      BY <1>1, <2>1
    <3>2. a[Len(log) + i] = h[i]
      BY <2>4, <3>1
    <3> QED
      BY <2>1, <2>3, <2>4, <3>2
  <2>10. c[Len(c)] = e
    <3>1. Len(K) + i \in 1..Len(K) + i /\ ~(Len(K) + i <= Len(K)) /\ (Len(K) + i) - Len(K) = i
      BY <1>3, <2>1
    <3>2. c[Len(K) + i] = h[i]
      BY <2>5, <3>1
    <3> QED
      BY <2>1, <2>3, <2>5, <3>2
  <2>11. ASSUME NEW k \in 1..Len(a) PROVE a[k].id <= e.id
    <3>1. CASE k <= Len(log)
      BY <1>1, <2>4, <2>8, <3>1
    <3>2. CASE k > Len(log)
      <4>1. k - Len(log) \in 1..i
        BY <1>1, <2>1, <2>4, <3>2
      <4>2. a[k] = h[k - Len(log)]
        BY <1>1, <2>1, <2>4, <3>2
      <4> QED
        BY <2>3, <2>7, <4>1, <4>2
    <3> QED
      BY <1>1, <2>4, <3>1, <3>2
  <2>12. ASSUME NEW k \in 1..Len(c) PROVE c[k].id <= e.id
    <3>1. CASE k <= Len(K)
      <4>1. k \in 1..Len(K) /\ c[k] = K[k]
        BY <1>3, <2>1, <2>5, <3>1
      <4> QED
        BY <1>4, <2>8, <4>1
    <3>2. CASE k > Len(K)
      <4>1. k - Len(K) \in 1..i
        BY <1>3, <2>1, <2>5, <3>2
      <4>2. c[k] = h[k - Len(K)]
        BY <1>3, <2>1, <2>5, <3>2
      <4> QED
        BY <2>3, <2>7, <4>1, <4>2
    <3> QED
      BY <1>3, <2>5, <3>1, <3>2
  <2>13. Len(a) > 0 /\ Len(c) = p
    BY <1>1, <2>1, <2>2, <2>4, <2>5
  <2>14. Splits(Stream, T, p, e, a, c, b)
    BY <2>6, <2>9, <2>10, <2>11, <2>12, <2>13 DEF Splits
  <2> QED
    BY <2>3, <2>4, <2>5, <2>14
<1>12. CASE p <= Len(K)
  <2> DEFINE q == f[p]
             a == SubSeq(log, 1, q)
             r == SubSeq(log, q + 1, Len(log))
             c == Kept(a, n)
  <2>1. q \in 1..Len(log) /\ e = log[q] /\ e.id > n /\ e = K[p]
    BY <1>3, <1>4, <1>6, <1>7, <1>12
  <2>2. e.id \notin lost /\ e.id \notin disowned /\ e.id \in Nat
    <3>1. e.id \in Nat
      BY <1>8, <2>1
    <3> QED
      BY <1>1, <3>1
  <2>3. q \in Nat /\ q \in 1..q /\ log[q] = e
    BY <1>1, <2>1
  <2> HIDE DEF q
  <2>4. /\ a \in Seq(Messages) /\ r \in Seq(Messages) /\ log = a \o r /\ Len(a) = q
        /\ Len(r) = Len(log) - q /\ \A k \in 1..q : a[k] = log[k]
        /\ \A k \in 1..Len(log) - q : r[k] = log[k + q] /\ k + q \in 1..Len(log)
    BY <1>1, <2>1, Cut
  <2> HIDE DEF a, r
  <2>5. \A k \in 1..q : a[k].id <= e.id
    <3>1. ASSUME NEW k \in 1..q PROVE log[k].id <= e.id
      <4>1. CASE k = q
        BY <2>3, <2>2, <4>1
      <4>2. CASE k # q
        <5>1. k \in 1..Len(log) /\ k < q
          BY <1>1, <2>1, <4>2
        <5>2. log[k].id < log[q].id
          BY <2>1, <2>2, <5>1 DEF OrderInv, LogInv
        <5> QED
          BY <1>8, <2>1, <2>2, <5>1, <5>2
      <4> QED
        BY <4>1, <4>2
    <3> QED
      BY <2>4, <3>1
  <2>6. ASSUME NEW k \in 1..Len(r) PROVE r[k].id > n
    <3> DEFINE j == k + q
    <3>1. j \in 1..Len(log) /\ q < j /\ r[k] = log[j]
      BY <1>1, <2>1, <2>4
    <3> HIDE DEF j
    <3>2. log[j].id >= boot /\ (log[j].id \notin disowned => e.id < log[j].id)
      BY <2>1, <3>1 DEF OrderInv, LogInv, NewestLast
    <3>3. log[j].id \in Nat
      BY <1>8, <3>1
    <3>4. log[j].id \in disowned => e.id < log[j].id
      BY <1>1, <3>2, <3>3
    <3> QED
      BY <2>1, <2>2, <3>1, <3>2, <3>3, <3>4
  <2>7. K = c \o r
    BY <2>4, <2>6, KeptTail DEF K
  <2>8. c \in Seq(Messages) /\ \E g : Places(a, n, g)
    BY <2>4, KeptFacts
  <2>9. PICK g : Places(a, n, g)
    BY <2>8
  <2>10. ASSUME NEW k \in 1..Len(c) PROVE c[k].id <= e.id
    <3>1. g[k] \in 1..Len(a) /\ c[k] = a[g[k]]
      BY <2>9 DEF Places
    <3> QED
      BY <2>4, <2>5, <3>1
  <2>11. Len(c) > 0 /\ c[Len(c)] = e
    <3>1. a # <<>>
      BY <2>1, <2>4
    <3>2. PICK t \in Seq(Messages), x \in Messages : a = Append(t, x)
      BY <2>4, <3>1, SequenceEmptyOrAppend
    <3>3. x = a[Len(a)]
      BY <3>2, AppendProperties
    <3>4. x = e
      <4>1. a[q] = log[q] /\ Len(a) = q
        BY <2>4, <2>3
      <4> QED
        BY <2>3, <3>3, <4>1
    <3>5. c = Append(Kept(t, n), e)
      BY <2>1, <3>2, <3>4, KeptAppend DEF Keep
    <3>6. Kept(t, n) \in Seq(Messages) /\ e \in Messages
      BY <3>2, <3>4, KeptFacts
    <3> HIDE DEF c
    <3>7. Len(c) = Len(Kept(t, n)) + 1 /\ Len(Kept(t, n)) \in Nat /\ c[Len(Kept(t, n)) + 1] = e
      BY <3>5, <3>6, AppendProperties
    <3> QED
      BY <3>7
  <2> HIDE DEF c
  <2>12. Len(c) = p
    <3>1. /\ Len(K) = Len(c) + Len(r) /\ Len(c) \in Nat /\ Len(r) \in Nat
          /\ \A k \in 1..Len(c) : K[k] = c[k]
      BY <2>4, <2>7, <2>8, ConcatProperties
    <3>2. Len(c) \in 1..Len(K) /\ p \in 1..Len(K)
      BY <1>3, <1>7, <1>12, <2>11, <3>1
    <3>3. K[Len(c)] = e
      BY <2>11, <3>1, <3>2
    <3>4. log[f[Len(c)]] = log[f[p]] /\ f[Len(c)] \in 1..Len(log) /\ f[p] \in 1..Len(log)
      BY <1>4, <2>1, <3>2, <3>3
    <3>5. \A i, j \in 1..Len(log) : i < j => log[i].id # log[j].id
      BY DEF OrderInv, LogInv
    <3>6. f[Len(c)] = f[p]
      <4> DEFINE x == f[Len(c)]
                 y == f[p]
      <4>1. x \in Nat /\ y \in Nat /\ x \in 1..Len(log) /\ y \in 1..Len(log) /\ log[x].id = log[y].id
        BY <1>1, <3>4
      <4> HIDE DEF x, y
      <4>2. ~(x < y) /\ ~(y < x)
        BY <3>5, <4>1
      <4>3. x = y
        BY <4>1, <4>2
      <4> QED
        BY <4>3 DEF x, y
    <3>7. ~(Len(c) < p) /\ ~(p < Len(c))
      BY <1>1, <1>5, <3>2, <3>4, <3>6
    <3> QED
      BY <1>3, <3>2, <3>7
  <2> DEFINE b == r \o inserts
  <2>13. Stream = a \o b /\ T = c \o b /\ b \in Seq(Messages)
    <3>1. a \in Seq(Messages) /\ c \in Seq(Messages) /\ r \in Seq(Messages) /\ inserts \in Seq(Messages)
      BY <1>1, <2>4, <2>8
    <3>2. (a \o r) \o inserts = a \o (r \o inserts)
      BY <3>1, Associative
    <3>3. (c \o r) \o inserts = c \o (r \o inserts)
      BY <3>1, Associative
    <3>4. log = a \o r
      BY <2>4
    <3>5. r \o inserts \in Seq(Messages)
      BY <1>1, <2>4
    <3> QED
      BY <2>7, <3>2, <3>4, <3>5, <3>3, Zenon DEF Stream
  <2> HIDE DEF b
  <2>14. a[Len(a)] = e /\ Len(a) > 0
    <3>1. a[q] = log[q] /\ Len(a) = q
      BY <2>4, <2>3
    <3> QED
      BY <2>3, <3>1
  <2>15. Splits(Stream, T, p, e, a, c, b)
    BY <2>4, <2>5, <2>10, <2>11, <2>12, <2>13, <2>14 DEF Splits
  <2> QED
    BY <2>4, <2>8, <2>13, <2>15
<1> QED
  BY <1>3, <1>7, <1>11, <1>12
-----------------------------------------------------------------------------
\* The rebuild of the whole timeline.

Calm(e) == e.kind = "calm" /\ e.id >= boot

AgreeInv ==
  up # "down" /\ (\A id \in lost : id < boot) =>
    \A p \in 1..Len(Stream) : Calm(Stream[p]) => Agree(tracker, Build(Stream), Stream[p].id, MaxHistory)

\* The oldest insert moves to the end of the table: the timeline stays as it is.
LEMMA InsertKeepsStream ==
  ASSUME TypeInv, inserts # <<>>, log' = Append(log, Head(inserts)), inserts' = Tail(inserts)
  PROVE  Stream' = Stream
<1>1. log \in Seq(Messages) /\ inserts \in Seq(Messages)
  BY DEF TypeInv
<1> DEFINE h == Head(inserts)
           t == Tail(inserts)
<1>2. h \in Messages /\ t \in Seq(Messages) /\ inserts = <<h>> \o t
  <2>1. Len(inserts) \in Nat /\ Len(inserts) > 0
    BY <1>1
  <2>2. h \in Messages /\ t \in Seq(Messages) /\ h = inserts[1] /\ Len(t) = Len(inserts) - 1
        /\ \A i \in 1..Len(t) : t[i] = inserts[i + 1]
    BY <1>1, HeadTailProperties
  <2> HIDE DEF h, t
  <2>3. /\ <<h>> \o t \in Seq(Messages) /\ Len(<<h>> \o t) = 1 + Len(t)
        /\ \A i \in 1..1 + Len(t) : (<<h>> \o t)[i] = IF i <= 1 THEN h ELSE t[i - 1]
    <3>1. <<h>> \in Seq(Messages) /\ Len(<<h>>) = 1 /\ <<h>>[1] = h
      BY <2>2
    <3>2. \A i \in 1..1 + Len(t) : i <= 1 => i = 1
      BY <2>1, <2>2
    <3> QED
      BY <2>2, <3>1, <3>2, ConcatProperties
  <2>4. ASSUME NEW i \in 1..Len(inserts) PROVE inserts[i] = (<<h>> \o t)[i]
    <3>1. CASE i = 1
      BY <2>1, <2>2, <2>3, <3>1
    <3>2. CASE i # 1
      <4>1. i - 1 \in 1..Len(t) /\ (i - 1) + 1 = i /\ ~(i <= 1) /\ i \in 1..1 + Len(t)
        BY <2>1, <2>2, <3>2
      <4> QED
        BY <2>2, <2>3, <4>1
    <3> QED
      BY <3>1, <3>2
  <2>5. Len(inserts) = Len(<<h>> \o t)
    BY <2>1, <2>2, <2>3
  <2> QED
    BY <1>1, <2>2, <2>3, <2>4, <2>5, SeqEqual
<1>3. log' = log \o <<h>>
  BY <1>1, <1>2, AppendIsConcat
<1> HIDE DEF h, t
<1>4. <<h>> \in Seq(Messages)
  BY <1>2
<1>5. (log \o <<h>>) \o t = log \o (<<h>> \o t)
  BY <1>1, <1>2, <1>4, Associative
<1>6. Stream' = log' \o inserts' /\ inserts' = t
  BY DEF Stream, t
<1> QED
  BY <1>2, <1>3, <1>5, <1>6, Zenon DEF Stream

LEMMA PublishExtendsStream ==
  ASSUME TypeInv, NEW e \in Messages, log' = log, inserts' = Append(inserts, e)
  PROVE  Stream' = Append(Stream, e)
  BY ConcatAppend DEF Stream, TypeInv

\* The first event of a process, and any event published later.
LEMMA AgreeGrows ==
  ASSUME TypeInv, TypeInv', OrderInv, TrackerInv, TrackerInv',
         NEW e \in Messages, e.id = published + 1, published' = published + 1,
         Stream' = Append(Stream, e),
         \/ boot' = boot /\ lost' = lost /\ up # "down" /\ Track(e) /\ AgreeInv
         \/ boot' = published + 1 /\ e.kind = "calm" /\ tracker' = NoBuilder
  PROVE  AgreeInv'
<1> SUFFICES ASSUME up' # "down", \A id \in lost' : id < boot', NEW p \in 1..Len(Stream'),
                    Stream'[p].kind = "calm", Stream'[p].id >= boot'
             PROVE  Agree(tracker', Build(Stream'), Stream'[p].id, MaxHistory)
  BY DEF AgreeInv, Calm
<1> USE DiagnosticsAssumption
<1>1. /\ Stream \in Seq(Messages) /\ Len(Stream) \in Nat
      /\ \A i \in 1..Len(Stream) : Stream[i].id \in 1..published
  BY StreamFacts
<1>2. published \in Nat /\ boot \in Nat /\ tracker' \in Builders
  BY DEF TypeInv
<1>3. /\ Stream' \in Seq(Messages) /\ Len(Stream') = Len(Stream) + 1 /\ Stream'[Len(Stream) + 1] = e
      /\ \A i \in 1..Len(Stream) : Stream'[i] = Stream[i]
  BY <1>1, AppendProperties
<1>4. Build(Stream') = Feed(Build(Stream), e)
  BY <1>1, BuildAppend
<1>5. CASE p = Len(Stream) + 1
  <2>1. Stream'[p] = e /\ e.kind = "calm"
    BY <1>3, <1>5 DEF Calm
  <2>2. Build(Stream').open = NoIncident
    BY <1>1, <1>4, <2>1, BuildTyped, CalmCloses
  <2>3. tracker'.open = NoIncident
    <3>1. CASE tracker' = NoBuilder
      BY <3>1 DEF NoBuilder
    <3>2. CASE Track(e)
      <4> DEFINE b == Feed(tracker, e)
      <4>1. b \in Builders /\ b.open = NoIncident
        BY <2>1, FeedTyped, CalmCloses DEF TypeInv
      <4>2. tracker' = [b EXCEPT !.closed = Newest(b.closed, MaxHistory)]
        BY <3>2 DEF Track
      <4> HIDE DEF b
      <4> QED
        BY <4>1, <4>2 DEF Builders
    <3> QED
      BY <3>1, <3>2
  <2> DEFINE n == published + 1
             I == 1..n
  <2>4. Sound(tracker', I, 0)
    BY DEF TrackerInv
  <2>5. \A x \in I : x \in Nat /\ x <= n
    BY <1>2
  <2>6. Sound(Build(Stream'), I, n + 1)
    <3>1. \A i \in 1..Len(Stream') : Stream'[i].id \in 1..n
      <4> TAKE i \in 1..Len(Stream')
      <4>1. CASE i = Len(Stream) + 1
        BY <1>2, <1>3, <4>1
      <4>2. CASE i # Len(Stream) + 1
        <5>1. i \in 1..Len(Stream)
          BY <1>1, <1>3, <4>2
        <5> QED
          BY <1>1, <1>2, <1>3, <5>1
      <4> QED
        BY <4>1, <4>2
    <3>2. \A i \in 1..Len(Stream') : Stream'[i].id <= n
      BY <1>2, <3>1
    <3>3. n \in Nat
      BY <1>2
    <3> HIDE DEF n
    <3>4. Sound(Build(Stream'), Ids(Stream'), n + 1)
      BY <1>3, <3>2, <3>3, BuildWithin
    <3>5. Ids(Stream') \subseteq I
      BY <3>1 DEF Ids
    <3> HIDE DEF I
    <3> QED
      BY <3>4, <3>5 DEF Sound
  <2>7. n \in Nat /\ Build(Stream') \in Builders /\ Stream'[p].id = n /\ MaxHistory \in Nat
    <3>1. n \in Nat /\ Stream'[p].id = n /\ MaxHistory \in Nat
      BY <1>2, <2>1
    <3>2. Build(Stream') \in Builders
      BY <1>3, BuildTyped
    <3> QED
      BY <3>1, <3>2
  <2> HIDE DEF n, I
  <2> QED
    BY <1>2, <2>2, <2>3, <2>4, <2>5, <2>6, <2>7, CalmAgree
<1>6. CASE p # Len(Stream) + 1
  <2>1. p \in 1..Len(Stream) /\ Stream'[p] = Stream[p] /\ Stream[p].id \in 1..published
    BY <1>1, <1>3, <1>6
  <2>2. boot' # published + 1
    BY <1>2, <2>1 DEF Calm
  <2>3. Agree(tracker, Build(Stream), Stream[p].id, MaxHistory) /\ Track(e)
    BY <2>1, <2>2 DEF AgreeInv, Calm
  <2>4. Build(Stream) \in Builders
    BY <1>1, BuildTyped
  <2> QED
    BY <1>4, <2>1, <2>3, <2>4, AgreeTrack
<1> QED
  BY <1>5, <1>6

\* What both builders make of the events up to e differs only in incidents that
\* began before it.
LEMMA SplitAgree ==
  ASSUME NEW s, NEW t, NEW p \in Nat \ {0}, NEW e \in Messages, e.kind = "calm",
         NEW a \in Seq(Messages), NEW c \in Seq(Messages), NEW b \in Seq(Messages),
         Splits(s, t, p, e, a, c, b), NEW r \in Seq(Messages), NEW h \in Nat
  PROVE  Agree(Build(a \o r), Build(c \o r), e.id, h)
<1>1. /\ a[Len(a)] = e /\ \A i \in 1..Len(a) : a[i].id <= e.id
      /\ c[Len(c)] = e /\ \A i \in 1..Len(c) : c[i].id <= e.id
  BY DEF Splits
<1>2. a # <<>> /\ c # <<>>
  <2>1. Len(c) = p /\ Len(c) # 0 /\ Len(a) # 0
    BY DEF Splits
  <2> QED
    BY <2>1
<1>3. Agree(Build(a), Build(c), e.id, h)
  BY <1>1, <1>2, CalmBase
<1> QED
  BY <1>3, AgreeOn

LEMMA AgreePruned ==
  ASSUME TypeInv, OrderInv, AgreeInv, NEW n \in Nat, log' = Kept(log, n), up # "down",
         UNCHANGED <<up, inserts, tracker, boot, lost>>
  PROVE  AgreeInv'
<1> DEFINE T == Kept(log, n) \o inserts
<1>1. Stream' = T /\ tracker' = tracker
  BY DEF Stream
<1> SUFFICES ASSUME \A id \in lost : id < boot, NEW p \in 1..Len(T), T[p].kind = "calm", T[p].id >= boot
             PROVE  Agree(tracker, Build(T), T[p].id, MaxHistory)
  BY <1>1 DEF AgreeInv, Calm
<1> DEFINE e == T[p]
<1>2. PICK a, c, b \in Seq(Messages) : Splits(Stream, T, p, e, a, c, b)
  BY PruneSplit
<1> HIDE DEF T
<1>3. Stream = a \o b /\ T = c \o b /\ Len(a) > 0 /\ a[Len(a)] = e
  BY <1>2 DEF Splits
<1>4. Len(a) \in 1..Len(Stream) /\ Stream[Len(a)] = e /\ e \in Messages
  <2>1. Len(a) \in Nat /\ Len(b) \in Nat /\ Len(a) \in 1..Len(a)
    BY <1>3
  <2>2. /\ Len(a \o b) = Len(a) + Len(b)
        /\ \A i \in 1..Len(a) + Len(b) : (a \o b)[i] = IF i <= Len(a) THEN a[i] ELSE b[i - Len(a)]
    BY ConcatProperties
  <2>3. a[Len(a)] \in Messages
    BY <2>1
  <2>4. Len(a) \in 1..Len(a) + Len(b)
    BY <2>1
  <2> HIDE DEF e
  <2> QED
    BY <1>3, <2>2, <2>3, <2>4
<1>5. Agree(tracker, Build(Stream), e.id, MaxHistory)
  BY <1>4 DEF AgreeInv, Calm
<1>6. Agree(Build(a \o b), Build(c \o b), e.id, MaxHistory)
  <2> HIDE DEF e
  <2>1. e.kind = "calm"
    BY DEF e
  <2> QED
    BY <1>2, <1>4, <2>1, SplitAgree, DiagnosticsAssumption
<1> HIDE DEF e
<1>7. Agree(tracker, Build(T), e.id, MaxHistory)
  BY <1>3, <1>5, <1>6, AgreeTransitive
<1> QED
  BY <1>7 DEF e

LEMMA AgreeInit == Init => AgreeInv
  BY DEF Init, AgreeInv

LEMMA AgreeNext ==
  TypeInv /\ TypeInv' /\ OrderInv /\ TrackerInv /\ TrackerInv' /\ AgreeInv /\ [Next]_vars => AgreeInv'
<1> SUFFICES ASSUME TypeInv, TypeInv', OrderInv, TrackerInv, TrackerInv', AgreeInv, [Next]_vars
             PROVE  AgreeInv'
  OBVIOUS
<1>1. CASE Boot
  <2> DEFINE e == Event("calm", "runtime")
  <2>1. e \in Messages /\ e.id = published + 1 /\ e.kind = "calm"
    BY EventTyped DEF Kinds, Event
  <2>2. /\ log' = log /\ inserts' = <<e>> /\ inserts = <<>> /\ published' = published + 1
        /\ boot' = published + 1 /\ tracker' = NoBuilder
    BY <1>1 DEF Boot, OrderInv, DownInv
  <2> HIDE DEF e
  <2>3. inserts' = Append(inserts, e)
    BY <2>2
  <2>4. Stream' = Append(Stream, e)
    BY <2>1, <2>2, <2>3, PublishExtendsStream
  <2> QED
    BY <2>1, <2>2, <2>4, AgreeGrows
<1>2. ASSUME NEW t \in Publishers, NEW kind \in Kinds, Publish(t, kind) PROVE AgreeInv'
  <2> DEFINE e == Event(kind, t)
  <2>1. e \in Messages /\ e.id = published + 1
    BY EventTyped
  <2>2. /\ log' = log /\ inserts' = Append(inserts, e) /\ published' = published + 1
        /\ boot' = boot /\ lost' = lost /\ up # "down" /\ Track(e)
    BY <1>2 DEF Publish, ghost
  <2> HIDE DEF e
  <2>3. Stream' = Append(Stream, e)
    BY <2>1, <2>2, PublishExtendsStream
  <2> QED
    BY <2>1, <2>2, <2>3, AgreeGrows
<1>3. CASE Insert
  <2>1. Stream' = Stream /\ tracker' = tracker /\ boot' = boot /\ lost' = lost /\ up' = up
    BY <1>3, InsertKeepsStream DEF Insert, ghost
  <2> QED
    BY <2>1 DEF AgreeInv, Calm
\* The insert that is given up was this process's.
<1>4. CASE InsertFails
  <2>1. Head(inserts).id \in lost' /\ boot' = boot /\ boot \in Nat /\ Head(inserts).id >= boot
        /\ Head(inserts).id \in Nat
    <3>1. Head(inserts) = inserts[1] /\ 1 \in 1..Len(inserts)
      BY <1>4 DEF InsertFails, TypeInv
    <3> QED
      BY <1>4, <3>1, DiagnosticsAssumption DEF InsertFails, OrderInv, QueueInv, TypeInv
  <2> QED
    BY <2>1 DEF AgreeInv
<1>5. ASSUME NEW i \in 1..Len(inserts), CancelPublish(i) PROVE AgreeInv'
  <2>1. inserts[i].id \in lost' /\ boot' = boot /\ boot \in Nat /\ inserts[i].id >= boot
        /\ inserts[i].id \in Nat
    BY <1>5, DiagnosticsAssumption DEF CancelPublish, OrderInv, QueueInv, TypeInv
  <2> QED
    BY <2>1 DEF AgreeInv
<1>6. ASSUME NEW e \in strays, StrayRuns(e) PROVE AgreeInv'
  <2>1. e.id \in lost' /\ boot' = boot /\ boot \in Nat /\ e.id >= boot /\ e.id \in Nat
    BY <1>6, DiagnosticsAssumption DEF StrayRuns, ghost, OrderInv, StraysInv, TypeInv
  <2> QED
    BY <2>1 DEF AgreeInv
<1>7. CASE Exit
  BY <1>7 DEF Exit, AgreeInv
<1>8. ASSUME NEW n \in 1..published, Prune(n) PROVE AgreeInv'
  BY <1>8, AgreePruned, DiagnosticsAssumption DEF Prune, TypeInv
<1>9. CASE Detach \/ Close \/ UNCHANGED vars
  BY <1>9 DEF Detach, Close, vars, ghost, AgreeInv, Calm, Stream
<1> QED
  BY <1>1, <1>2, <1>3, <1>4, <1>5, <1>6, <1>7, <1>8, <1>9 DEF Next

LEMMA AgreeInvariance == Spec => []AgreeInv
  BY AgreeInit, AgreeNext, TypeInvariance, OrderInvariance, TrackerInvariance, PTL DEF Spec

\* build_incidents over the timeline gives what the tracker holds, whatever was
\* pruned and whatever earlier processes left open.
THEOREM RebuildsTheTracker == Spec => []RebuildAgrees
<1>1. AgreeInv => RebuildAgrees
  BY DEF AgreeInv, RebuildAgrees, Calms, Calm, Agree, Stream
<1> QED
  BY <1>1, AgreeInvariance, PTL

-----------------------------------------------------------------------------
\* What is shown of the beginning of the timeline.

Clear(s) == \A id \in lost : id < boot \/ \A i \in 1..Len(s) : s[i].id < id

\* The tracker closed the incident, and holds it unless it has newer ones only.
Told(b, k) ==
  \/ \E j \in 1..Len(b.closed) : b.closed[j] = k
  \/ b.closed # <<>> /\ Begins(b.closed[1]) > Begins(k)

ShownTrue(b, n) == \A i \in 1..Len(b.closed) : Begins(b.closed[i]) > n => Told(tracker, b.closed[i])

ShownInv ==
  \A s, t \in Seq(Messages) : Stream = s \o t /\ Clear(s) =>
    \A q \in 1..Len(s) : Calm(s[q]) => ShownTrue(Build(s), s[q].id)

\* A tracker that agrees with a builder holds the builder's newest incidents.
LEMMA AgreeTold ==
  ASSUME NEW T \in Builders, Len(T.closed) <= MaxHistory, NEW b \in Builders, NEW n \in Nat, NEW m \in Nat, m <= n,
         NEW I \in SUBSET Nat, Sound(b, I, m), Agree(T, b, n, MaxHistory)
  PROVE  \A i \in 1..Len(b.closed) : Begins(b.closed[i]) > n => Told(T, b.closed[i])
<1> USE DiagnosticsAssumption
<1> SUFFICES ASSUME NEW i \in 1..Len(b.closed), Begins(b.closed[i]) > n PROVE Told(T, b.closed[i])
  OBVIOUS
<1>1. Len(b.closed) \in Nat /\ Len(T.closed) \in Nat /\ Len(T.closed) <= MaxHistory
      /\ T.closed \in Seq(Incidents)
  BY DEF Builders
<1>2. Begins(b.closed[i]) \in Nat
  BY DEF Sound
<1> DEFINE k == Len(b.closed) + 1 - i
<1>3. k \in Nat \ {0} /\ Len(b.closed) + 1 - k = i /\ k <= Len(b.closed)
  BY <1>1
<1> HIDE DEF k
<1>4. CASE k <= MaxHistory
  <2>1. BeganAfter(n, b.closed, k) /\ Nth(b.closed, k) = b.closed[i]
    BY <1>3 DEF BeganAfter, Nth, Begins
  <2>2. k \in 1..MaxHistory
    BY <1>3, <1>4
  <2>3. k <= Len(T.closed) /\ Nth(T.closed, k) = b.closed[i]
    BY <2>1, <2>2 DEF Agree
  <2>4. Len(T.closed) + 1 - k \in 1..Len(T.closed)
    BY <1>1, <1>3, <2>3
  <2> QED
    BY <2>3, <2>4 DEF Told, Nth
<1>5. CASE ~(k <= MaxHistory)
  <2> DEFINE j == Len(b.closed) + 1 - MaxHistory
  <2>1. j \in 1..Len(b.closed) /\ i < j /\ MaxHistory <= Len(b.closed)
    BY <1>1, <1>3, <1>5
  <2> HIDE DEF j
  <2>2. Begins(b.closed[i]) < Begins(b.closed[j]) /\ Begins(b.closed[j]) \in Nat
    <3>1. Begins(b.closed[i]) >= m
      BY <1>2
    <3>2. Begins(b.closed[j]) \in I
      BY <2>1 DEF Sound
    <3> QED
      BY <2>1, <3>1, <3>2 DEF Sound
  <2>3. Nth(b.closed, MaxHistory) = b.closed[j]
    BY DEF Nth, j
  <2>4. b.closed[j].events[1] > n
    <3>1. Begins(b.closed[j]) > n
      BY <1>2, <2>2
    <3> QED
      BY <3>1 DEF Begins
  <2>5. BeganAfter(n, b.closed, MaxHistory) /\ MaxHistory \in 1..MaxHistory
    BY <2>1, <2>3, <2>4 DEF BeganAfter
  <2>6. MaxHistory <= Len(T.closed) /\ Nth(T.closed, MaxHistory) = b.closed[j]
    BY <2>3, <2>5 DEF Agree
  <2>7. Len(T.closed) + 1 - MaxHistory = 1 /\ T.closed # <<>>
    <3>1. Len(T.closed) = MaxHistory
      BY <1>1, <2>6
    <3> QED
      BY <1>1, <3>1
  <2>8. T.closed[1] = b.closed[j]
    BY <2>6, <2>7 DEF Nth
  <2> QED
    BY <1>2, <2>2, <2>7, <2>8 DEF Told
<1> QED
  BY <1>4, <1>5

\* What the tracker was told stays told.
LEMMA TellMonotone ==
  ASSUME TypeInv, TrackerInv, NEW e \in Messages, e.id = published + 1, Track(e),
         NEW k, Begins(k) \in Nat, Told(tracker, k)
  PROVE  Told(tracker', k)
<1> USE DiagnosticsAssumption
<1> DEFINE b == Feed(tracker, e)
<1>1. tracker \in Builders /\ tracker.closed \in Seq(Incidents) /\ Len(tracker.closed) \in Nat
      /\ published \in Nat
  BY DEF TypeInv, Builders
<1>2. b \in Builders
  BY <1>1, FeedTyped
<1>3. Sound(b, 1..published + 1, 0)
  BY TrackSound
<1>4. /\ Len(b.closed) >= Len(tracker.closed)
      /\ \A i \in 1..Len(tracker.closed) : b.closed[i] = tracker.closed[i]
  <2>1. b.closed = tracker.closed \/ b.closed = Append(tracker.closed, Heard(tracker.open, e))
    BY <1>1, FeedCases
  <2>2. Heard(tracker.open, e) \in Incidents
    BY <1>1, HeardTyped DEF Builders
  <2> QED
    BY <1>1, <2>1, <2>2, AppendProperties
<1>5. tracker' = [b EXCEPT !.closed = Newest(b.closed, MaxHistory)]
  BY DEF Track
<1> DEFINE new == Newest(b.closed, MaxHistory)
<1> HIDE DEF b
<1>6. tracker'.closed = new /\ b.closed \in Seq(Incidents) /\ Len(b.closed) \in Nat
  BY <1>2, <1>5 DEF Builders
<1>7. /\ Len(new) = IF Len(b.closed) > MaxHistory THEN MaxHistory ELSE Len(b.closed)
      /\ \A i \in 1..Len(new) : new[i] = b.closed[i + (Len(b.closed) - Len(new))]
  BY <1>6, NewestFacts
<1> DEFINE d == Len(b.closed) - Len(new)
<1>8. d \in Nat /\ Len(new) \in Nat /\ Len(new) <= Len(b.closed)
  BY <1>6, <1>7
<1> HIDE DEF new
\* The first one held follows any that is not.
<1>9. ASSUME NEW j \in 1..Len(b.closed), j <= d + 1
      PROVE  new # <<>> /\ (j = d + 1 => new[1] = b.closed[j])
             /\ (j # d + 1 => Begins(new[1]) > Begins(b.closed[j]))
             /\ Begins(new[1]) \in Nat /\ Begins(b.closed[j]) \in Nat
  <2>1. Len(new) > 0 /\ 1 \in 1..Len(new) /\ d + 1 \in 1..Len(b.closed)
    <3>1. Len(b.closed) > 0
      BY <1>6
    <3>2. Len(new) > 0
      BY <1>6, <1>7, <3>1
    <3> QED
      BY <1>6, <1>8, <3>2
  <2>2. new[1] = b.closed[d + 1]
    <3>1. 1 + (Len(b.closed) - Len(new)) = d + 1
      BY <1>8
    <3> QED
      BY <1>7, <2>1, <3>1
  <2> HIDE DEF d
  <2>3. Begins(b.closed[d + 1]) \in Nat /\ Begins(b.closed[j]) \in Nat
    <3>1. 1..published + 1 \subseteq Nat
      BY <1>1
    <3> QED
      BY <1>3, <2>1, <3>1 DEF Sound
  <2>4. j # d + 1 => Begins(b.closed[j]) < Begins(b.closed[d + 1])
    <3>1. j # d + 1 => j < d + 1
      BY <1>6, <1>8, <1>9
    <3>2. Begins(b.closed[j]) >= 0
      BY <2>3
    <3> QED
      BY <1>3, <2>1, <3>1, <3>2 DEF Sound
  <2>5. new # <<>>
    BY <2>1
  <2> QED
    BY <2>2, <2>3, <2>4, <2>5
<1>10. CASE \E j \in 1..Len(tracker.closed) : tracker.closed[j] = k
  <2> PICK j \in 1..Len(tracker.closed) : tracker.closed[j] = k
    BY <1>10
  <2>1. j \in 1..Len(b.closed) /\ b.closed[j] = k
    BY <1>1, <1>4, <1>6
  <2>2. CASE j <= d + 1
    <3>1. new # <<>> /\ (j = d + 1 => new[1] = k) /\ (j # d + 1 => Begins(new[1]) > Begins(k))
      BY <1>9, <2>1, <2>2
    <3>2. 1 \in 1..Len(new)
      BY <1>6, <1>7, <1>8, <2>1
    <3> HIDE DEF d
    <3> QED
      BY <1>6, <3>1, <3>2 DEF Told
  <2>3. CASE ~(j <= d + 1)
    <3>1. j - d \in 1..Len(new) /\ (j - d) + (Len(b.closed) - Len(new)) = j
      <4>1. j \in Nat /\ j <= Len(b.closed) /\ j > d + 1
        BY <1>6, <1>8, <2>1, <2>3
      <4> QED
        BY <1>6, <1>8, <4>1
    <3>2. new[j - d] = k
      BY <1>7, <2>1, <3>1
    <3> HIDE DEF d
    <3> QED
      BY <1>6, <3>1, <3>2 DEF Told
  <2> QED
    BY <2>2, <2>3
<1>11. CASE tracker.closed # <<>> /\ Begins(tracker.closed[1]) > Begins(k)
  <2>1. Len(tracker.closed) > 0 /\ 1 \in 1..Len(tracker.closed) /\ 1 \in 1..Len(b.closed)
    BY <1>1, <1>4, <1>6, <1>11
  <2>2. b.closed[1] = tracker.closed[1] /\ 1 <= d + 1
    BY <1>4, <1>8, <2>1
  <2>3. new # <<>> /\ Begins(new[1]) > Begins(k)
    <3>1. new # <<>> /\ (1 = d + 1 => new[1] = b.closed[1])
          /\ (1 # d + 1 => Begins(new[1]) > Begins(b.closed[1]))
          /\ Begins(new[1]) \in Nat /\ Begins(b.closed[1]) \in Nat
      BY <1>9, <2>1, <2>2
    <3> HIDE DEF d
    <3> QED
      BY <1>11, <2>2, <3>1
  <2> QED
    BY <1>6, <2>3 DEF Told
<1> QED
  BY <1>10, <1>11 DEF Told

\* Facts about sequences of messages.
LEMMA ConcatFacts ==
  \A s, t \in Seq(Messages) :
    /\ s \o t \in Seq(Messages) /\ Len(s \o t) = Len(s) + Len(t)
    /\ Len(s) \in Nat /\ Len(t) \in Nat
    /\ \A i \in 1..Len(s \o t) : (s \o t)[i] = IF i <= Len(s) THEN s[i] ELSE t[i - Len(s)]
    /\ \A i \in 1..Len(t) : (s \o t)[Len(s) + i] = t[i]
  BY ConcatProperties

\* A sequence that another one begins with.
LEMMA Beginning ==
  ASSUME NEW s \in Seq(Messages), NEW u \in Seq(Messages), Len(s) <= Len(u),
         \A i \in 1..Len(s) : u[i] = s[i]
  PROVE  \E w \in Seq(Messages) : u = s \o w
<1>1. Len(s) \in Nat /\ Len(u) \in Nat
  OBVIOUS
<1>2. CASE Len(s) = 0
  <2>1. s = <<>>
    BY <1>2
  <2>2. u = <<>> \o u
    BY ConcatEmptySeq
  <2> QED
    BY <2>1, <2>2
<1>3. CASE Len(s) # 0
  <2> DEFINE a == SubSeq(u, 1, Len(s))
             w == SubSeq(u, Len(s) + 1, Len(u))
  <2>1. Len(s) \in 1..Len(u)
    BY <1>1, <1>3
  <2>2. /\ a \in Seq(Messages) /\ w \in Seq(Messages) /\ u = a \o w /\ Len(a) = Len(s)
        /\ \A k \in 1..Len(s) : a[k] = u[k]
    BY <2>1, Cut
  <2> HIDE DEF a, w
  <2>3. a = s
    BY <2>2, SeqEqual
  <2> QED
    BY <2>2, <2>3
<1> QED
  BY <1>2, <1>3

\* Two ways to divide a sequence.
Divides(u, s, t) == u = s \o t
Between(r, s, t, c, b) == s = c \o r /\ b = r \o t

LEMMA Divided ==
  ASSUME NEW s \in Seq(Messages), NEW t \in Seq(Messages), NEW c \in Seq(Messages),
         NEW b \in Seq(Messages), NEW u, Divides(u, s, t), Divides(u, c, b), Len(c) <= Len(s)
  PROVE  \E r \in Seq(Messages) : Between(r, s, t, c, b)
<1>1. s \o t = c \o b
  BY DEF Divides
<1>2. Len(s) \in Nat /\ Len(c) \in Nat
  OBVIOUS
<1>3. \A i \in 1..Len(s) : (s \o t)[i] = s[i]
  OBVIOUS
<1>4. \A i \in 1..Len(c) : (c \o b)[i] = c[i]
  OBVIOUS
<1>5. \A i \in 1..Len(c) : s[i] = c[i]
  BY <1>1, <1>2, <1>3, <1>4
<1>6. PICK r \in Seq(Messages) : s = c \o r
  BY <1>5, Beginning
<1>7. c \o b = c \o (r \o t)
  <2>1. Associates(c, r, t)
    BY AllAssociate
  <2> QED
    BY <1>1, <1>6, <2>1 DEF Associates
<1>8. r \o t \in Seq(Messages)
  BY ConcatFacts
<1>9. b = r \o t
  <2> DEFINE v == r \o t
  <2>1. c \o b = c \o v /\ v \in Seq(Messages)
    BY <1>7, <1>8
  <2> HIDE DEF v
  <2>2. b = v
    BY <2>1, ConcatSimplifications
  <2> QED
    BY <2>2 DEF v
<1> QED
  BY <1>6, <1>9 DEF Between

\* The timeline loses events of this process, and all after them, or all that are
\* left are before a lost one.
LEMMA ShownShrinks ==
  ASSUME TypeInv, OrderInv, ShownInv, NEW L \in Nat, L <= Len(Stream),
         Stream' \in Seq(Messages), \A i \in 1..L : Stream'[i] = Stream[i],
         L < Len(Stream') => \E id \in lost' : id >= boot /\ ~(Stream'[L + 1].id < id) /\ id \in Nat,
         UNCHANGED <<tracker, boot>>, lost \subseteq lost'
  PROVE  ShownInv'
<1> SUFFICES ASSUME NEW s \in Seq(Messages), NEW t \in Seq(Messages), Stream' = s \o t,
                    \A id \in lost' : id < boot \/ \A i \in 1..Len(s) : s[i].id < id,
                    NEW q \in 1..Len(s), Calm(s[q])
             PROVE  ShownTrue(Build(s), s[q].id)
  BY DEF ShownInv, Clear, Calm, ShownTrue, Told
<1>1. Len(s) \in Nat /\ Len(t) \in Nat /\ Len(Stream') = Len(s) + Len(t) /\ boot \in Nat
      /\ \A i \in 1..Len(s) : Stream'[i] = s[i]
  BY DEF TypeInv
<1>2. Len(s) <= L
  <2> SUFFICES ASSUME Len(s) > L PROVE FALSE
    BY <1>1
  <2>1. L + 1 \in 1..Len(s) /\ L < Len(Stream')
    BY <1>1
  <2>2. PICK id \in lost' : id >= boot /\ ~(Stream'[L + 1].id < id) /\ id \in Nat
    BY <2>1
  <2>3. Stream'[L + 1] = s[L + 1]
    BY <1>1, <2>1
  <2>4. ~(id < boot)
    BY <1>1, <2>2
  <2> QED
    BY <2>1, <2>2, <2>3, <2>4
<1>3. Stream \in Seq(Messages) /\ Len(s) <= Len(Stream) /\ \A i \in 1..Len(s) : Stream[i] = s[i]
  BY <1>1, <1>2, StreamFacts
<1>4. PICK w \in Seq(Messages) : Stream = s \o w
  BY <1>3, Beginning
<1>5. Clear(s)
  BY DEF Clear
<1> QED
  BY <1>4, <1>5 DEF ShownInv

LEMMA Appended ==
  \A s \in Seq(Messages), e \in Messages :
    /\ Append(s, e) \in Seq(Messages) /\ Len(Append(s, e)) = Len(s) + 1
    /\ Append(s, e)[Len(s) + 1] = e /\ \A i \in 1..Len(s) : Append(s, e)[i] = s[i]
  BY AppendProperties

LEMMA AppendedOnce ==
  \A s, t \in Seq(Messages), e, f \in Messages : Append(s, e) = Append(t, f) => s = t
  BY AppendInjective

\* The timeline grows by an event.
LEMMA ShownGrows ==
  ASSUME TypeInv, TypeInv', OrderInv, TrackerInv, ShownInv, AgreeInv',
         NEW e \in Messages, e.id = published + 1, published' = published + 1,
         Stream' = Append(Stream, e), lost' = lost, lost \subseteq 1..published, up' # "down",
         (boot' = boot /\ Track(e)) \/ boot' = published + 1
  PROVE  ShownInv'
<1> SUFFICES ASSUME NEW s \in Seq(Messages), NEW t \in Seq(Messages), Stream' = s \o t,
                    \A id \in lost : id < boot' \/ \A i \in 1..Len(s) : s[i].id < id,
                    NEW q \in 1..Len(s), s[q].kind = "calm", s[q].id >= boot',
                    NEW k \in 1..Len(Build(s).closed), Begins(Build(s).closed[k]) > s[q].id
             PROVE  Told(tracker', Build(s).closed[k])
  BY DEF ShownInv, Clear, Calm, ShownTrue
<1>1. Stream \in Seq(Messages) /\ Len(Stream) \in Nat
  BY StreamFacts
<1>2. \A i \in 1..Len(Stream) : Stream[i].id \in 1..published
  BY StreamFacts
<1>3. \A i, j \in 1..Len(Stream) : i < j =>
        /\ Stream[j].id \notin disowned => Stream[i].id < Stream[j].id
        /\ Stream[i].id >= boot => Stream[j].id >= boot
  BY StreamFacts
<1>4. published \in Nat /\ boot \in Nat /\ boot' \in Nat /\ disowned \subseteq lost
  BY DEF TypeInv
<1>5. Len(s) \in Nat /\ s[q] \in Messages /\ s[q].id \in Nat
  <2>1. s[q] \in Messages
    OBVIOUS
  <2> QED
    BY <2>1 DEF Messages
<1> DEFINE u == Append(Stream, e)
<1>6. /\ u \in Seq(Messages) /\ Len(u) = Len(Stream) + 1 /\ u[Len(Stream) + 1] = e
      /\ \A i \in 1..Len(Stream) : u[i] = Stream[i]
  BY <1>1, Appended
<1>7. Stream' = u
  OBVIOUS
<1> HIDE DEF u
<1>8. CASE t = <<>>
  <2>1. s = u
    <3>1. s \o t = s
      BY <1>8, ConcatEmptySeq
    <3> QED
      BY <1>7, <3>1
  <2>2. \A id \in lost : id < boot'
    <3> SUFFICES ASSUME NEW id \in lost, ~(id < boot') PROVE FALSE
      OBVIOUS
    <3>1. Len(Stream) + 1 \in 1..Len(s)
      BY <1>1, <1>6, <2>1
    <3>2. published + 1 < id /\ id \in 1..published
      BY <1>6, <2>1, <3>1
    <3> QED
      BY <1>4, <3>2
  <2>3. Agree(tracker', Build(s), s[q].id, MaxHistory)
    BY <1>7, <2>1, <2>2 DEF AgreeInv, Calm
  <2>4. ASSUME NEW i \in 1..Len(s), NEW j \in 1..Len(s), i < j, s[i].id >= boot'
        PROVE  s[i].id < s[j].id
    <3>1. i \in 1..Len(Stream) /\ s[i] = Stream[i] /\ Stream[i].id \in 1..published
      BY <1>1, <1>6, <1>2, <2>1, <2>4
    <3>2. CASE j = Len(Stream) + 1
      <4>1. s[j] = e
        BY <1>6, <2>1, <3>2
      <4>2. s[i].id < published + 1
        <5>1. \A x \in 1..published : x < published + 1
          BY <1>4
        <5> QED
          BY <3>1, <5>1
      <4> QED
        BY <4>1, <4>2
    <3>3. CASE j # Len(Stream) + 1
      <4>1. j \in 1..Len(Stream) /\ s[j] = Stream[j] /\ Stream[j].id \in 1..published
        BY <1>1, <1>6, <1>2, <2>1, <3>3
      <4>2. boot' = boot
        BY <1>4, <2>4, <3>1
      <4>3. Stream[j].id >= boot
        BY <1>3, <2>4, <3>1, <4>1, <4>2
      <4>4. Stream[j].id \notin disowned
        <5>1. \A id \in lost : ~(id >= boot)
          <6>1. \A id \in lost : id \in Nat /\ id < boot
            BY <1>4, <2>2, <4>2
          <6> QED
            BY <1>4, <6>1
        <5> QED
          BY <1>4, <4>3, <5>1
      <4> QED
        BY <1>3, <2>4, <3>1, <4>1, <4>4
    <3> QED
      BY <3>2, <3>3
  <2>5. Build(s) \in Builders /\ Sound(Build(s), Ids(s), boot')
    BY <1>4, <2>4, BuildSound
  <2>6. Ids(s) \in SUBSET Nat
    <3>1. \A i \in 1..Len(s) : s[i] \in Messages
      OBVIOUS
    <3> QED
      BY <3>1 DEF Ids, Messages
  <2>7. tracker' \in Builders /\ Len(tracker'.closed) <= MaxHistory
    BY DEF TypeInv
  <2> QED
    BY <1>4, <1>5, <2>3, <2>5, <2>6, <2>7, AgreeTold
<1>9. CASE t # <<>>
  <2>1. PICK w \in Seq(Messages), x \in Messages : t = Append(w, x)
    BY <1>9, SequenceEmptyOrAppend
  <2>2. s \o w \in Seq(Messages) /\ s \o t = Append(s \o w, x)
    BY <2>1, ConcatAppend
  <2>3. Stream = s \o w
    <3>1. Append(Stream, e) = Append(s \o w, x)
      BY <1>7, <2>2 DEF u
    <3> DEFINE v == s \o w
    <3>2. Append(Stream, e) = Append(v, x) /\ v \in Seq(Messages) /\ Stream \in Seq(Messages)
      BY <1>1, <2>2, <3>1
    <3> HIDE DEF v
    <3>3. Stream = v
      BY <3>2, AppendedOnce
    <3> QED
      BY <3>3 DEF v
  <2>4. Len(w) \in Nat /\ Len(Stream) = Len(s) + Len(w) /\ \A i \in 1..Len(s) : Stream[i] = s[i]
    BY <2>3
  <2>5. \A i \in 1..Len(s) : s[i].id \in 1..published
    BY <1>5, <1>2, <2>4
  <2>6. boot' = boot /\ Track(e)
    BY <1>4, <2>5
  <2>7. ShownTrue(Build(s), s[q].id)
    BY <2>3, <2>6 DEF ShownInv, Clear, Calm
  <2>8. Told(tracker, Build(s).closed[k])
    BY <2>7 DEF ShownTrue
  <2>9. Begins(Build(s).closed[k]) \in Nat
    <3>1. Sound(Build(s), Ids(s), published + 1) /\ \A y \in Ids(s) : y \in Nat
      <4>1. \A i \in 1..Len(s) : s[i].id <= published
        <5>1. \A y \in 1..published : y <= published
          BY <1>4
        <5> QED
          BY <2>5, <5>1
      <4> QED
        BY <1>4, <4>1, BuildWithin
    <3> QED
      BY <3>1 DEF Sound
  <2> QED
    BY <2>6, <2>8, <2>9, TellMonotone
<1> QED
  BY <1>8, <1>9

\* Pruning leaves beginnings of the timeline that end as before.
LEMMA ShownPruned ==
  ASSUME TypeInv, OrderInv, ShownInv, NEW n \in Nat, log' = Kept(log, n),
         UNCHANGED <<inserts, tracker, boot, lost>>
  PROVE  ShownInv'
<1> DEFINE T == Kept(log, n) \o inserts
<1>1. Stream' = T
  BY DEF Stream
<1>2. SUFFICES ASSUME NEW s \in Seq(Messages), NEW t \in Seq(Messages), T = s \o t, Clear(s),
                    NEW q \in 1..Len(s), s[q].kind = "calm", s[q].id >= boot
             PROVE  ShownTrue(Build(s), s[q].id)
  BY <1>1 DEF ShownInv, Clear, Calm, ShownTrue
<1> HIDE DEF T
<1> DEFINE e == s[q]
<1>3. q \in 1..Len(T) /\ e = T[q] /\ e \in Messages /\ Len(s) \in Nat /\ q \in Nat \ {0} /\ q <= Len(s)
  <2>1. Len(T) = Len(s) + Len(t) /\ Len(s) \in Nat /\ Len(t) \in Nat
        /\ \A i \in 1..Len(s) : T[i] = s[i]
    BY <1>2, ConcatFacts
  <2> QED
    BY <2>1
<1>4. \A id \in lost : id < boot \/ e.id < id
  BY <1>2 DEF Clear
<1> HIDE DEF e
<1>5. e.id >= boot /\ e.kind = "calm"
  BY <1>2 DEF e
<1>6. \E a, c, b \in Seq(Messages) : Splits(Stream, T, q, e, a, c, b)
  BY <1>3, <1>4, <1>5, PruneSplit DEF T
<1>7. PICK a, c, b \in Seq(Messages) : Splits(Stream, T, q, e, a, c, b)
  BY <1>6
<1>8. /\ Stream = a \o b /\ T = c \o b /\ Len(c) = q
      /\ Len(a) > 0 /\ a[Len(a)] = e /\ \A i \in 1..Len(a) : a[i].id <= e.id
  BY <1>7 DEF Splits
<1>9. PICK r \in Seq(Messages) : s = c \o r /\ b = r \o t
  <2>1. Divides(T, s, t) /\ Divides(T, c, b)
    BY <1>2, <1>8 DEF Divides
  <2>2. Len(c) <= Len(s)
    BY <1>3, <1>8
  <2>3. \E r \in Seq(Messages) : Between(r, s, t, c, b)
    BY <2>1, <2>2, Divided
  <2> QED
    BY <2>3 DEF Between
<1> DEFINE u == a \o r
<1>10. Stream = u \o t /\ u \in Seq(Messages)
  <2>1. Associates(a, r, t)
    BY AllAssociate
  <2>2. (a \o r) \o t = a \o (r \o t)
    BY <2>1 DEF Associates
  <2>3. a \o r \in Seq(Messages)
    BY ConcatFacts
  <2> QED
    BY <1>8, <1>9, <2>2, <2>3, Zenon
<1>11. /\ Len(u) = Len(a) + Len(r) /\ Len(a) \in Nat /\ Len(r) \in Nat
       /\ \A i \in 1..Len(u) : u[i] = IF i <= Len(a) THEN a[i] ELSE r[i - Len(a)]
  BY ConcatFacts
<1> HIDE DEF u
<1>12. /\ Len(s) = Len(c) + Len(r) /\ Len(c) \in Nat
       /\ \A i \in 1..Len(r) : s[Len(c) + i] = r[i]
  BY <1>9, ConcatFacts
<1>13. Clear(u)
  <2> SUFFICES ASSUME NEW id \in lost, ~(id < boot), NEW i \in 1..Len(u) PROVE u[i].id < id
    BY DEF Clear
  <2>1. lost \subseteq Nat
    BY DiagnosticsAssumption DEF TypeInv
  <2>2. e.id \in Nat
    BY <1>3 DEF Messages
  <2>3. id \in Nat /\ e.id < id /\ e.id \in Nat
    BY <1>4, <2>1, <2>2
  <2>4. CASE i <= Len(a)
    <3>1. i \in 1..Len(a) /\ u[i] = a[i] /\ a[i] \in Messages
      BY <1>11, <2>4
    <3>2. a[i].id <= e.id /\ a[i].id \in Nat
      BY <1>8, <3>1 DEF Messages
    <3>3. \A x \in Nat : x <= e.id => x < id
      BY <2>3
    <3> QED
      BY <3>1, <3>2, <3>3
  <2>5. CASE ~(i <= Len(a))
    <3>1. i - Len(a) \in 1..Len(r) /\ u[i] = r[i - Len(a)]
      BY <1>11, <2>5
    <3>2. Len(c) + (i - Len(a)) \in 1..Len(s) /\ s[Len(c) + (i - Len(a))] = u[i]
      <4> DEFINE m == i - Len(a)
      <4>1. m \in 1..Len(r) /\ u[i] = r[m]
        BY <3>1
      <4> HIDE DEF m
      <4>2. s[Len(c) + m] = r[m] /\ Len(c) + m \in 1..Len(s)
        BY <1>11, <1>12, <4>1
      <4> QED
        BY <4>1, <4>2 DEF m
    <3> QED
      BY <1>2, <3>2 DEF Clear
  <2> QED
    BY <2>4, <2>5
<1>14. ShownTrue(Build(u), e.id)
  <2>1. Len(a) \in 1..Len(u) /\ u[Len(a)] = e
    BY <1>8, <1>11
  <2> QED
    BY <1>5, <1>10, <1>13, <2>1 DEF ShownInv, Calm
<1>15. Build(u) \in Builders /\ Build(s) \in Builders
  BY <1>10, BuildTyped
<1>16. Len(Build(s).closed) \in Nat /\ Len(Build(u).closed) \in Nat
  BY <1>15 DEF Builders
<1> DEFINE h == Len(Build(s).closed)
<1>17. Agree(Build(u), Build(s), e.id, h)
  <2>1. h \in Nat
    BY <1>16
  <2> HIDE DEF h
  <2>2. Agree(Build(a \o r), Build(c \o r), e.id, h)
    BY <1>3, <1>5, <1>7, <2>1, SplitAgree
  <2> QED
    BY <1>9, <2>2 DEF u
<1>18. SUFFICES ASSUME NEW k \in 1..h, Begins(Build(s).closed[k]) > e.id
             PROVE  Told(tracker, Build(s).closed[k])
  BY DEF ShownTrue, e
<1>19. h \in Nat /\ h + 1 - k \in 1..h /\ h + 1 - (h + 1 - k) = k
  BY <1>16
<1>20. BeganAfter(e.id, Build(s).closed, h + 1 - k) /\ Nth(Build(s).closed, h + 1 - k) = Build(s).closed[k]
  BY <1>18, <1>19 DEF BeganAfter, Nth, Begins
<1>21. h + 1 - k <= Len(Build(u).closed) /\ Nth(Build(u).closed, h + 1 - k) = Build(s).closed[k]
  BY <1>17, <1>19, <1>20 DEF Agree
<1> DEFINE j == Len(Build(u).closed) + 1 - (h + 1 - k)
<1>22. j \in 1..Len(Build(u).closed) /\ Build(u).closed[j] = Build(s).closed[k]
  <2>1. Build(u).closed[j] = Build(s).closed[k]
    BY <1>21 DEF Nth
  <2> DEFINE m == h + 1 - k
             l == Len(Build(u).closed)
  <2>2. m \in Nat /\ m >= 1 /\ m <= l /\ l \in Nat
    BY <1>16, <1>19, <1>21
  <2> HIDE DEF m, l
  <2>3. l + 1 - m \in 1..l
    BY <2>2
  <2> QED
    BY <2>1, <2>3 DEF m, l
<1> HIDE DEF j, h
<1> QED
  BY <1>18, <1>14, <1>22 DEF ShownTrue

LEMMA ShownInit == Init => ShownInv
<1> SUFFICES ASSUME Init, NEW s \in Seq(Messages), NEW t \in Seq(Messages), Stream = s \o t,
                    NEW q \in 1..Len(s)
             PROVE  FALSE
  BY DEF ShownInv
<1>1. Stream = <<>>
  BY DEF Init, Stream
<1>2. Len(Stream) = 0
  BY <1>1
<1>3. Len(Stream) = Len(s) + Len(t) /\ Len(s) \in Nat /\ Len(t) \in Nat
  BY ConcatFacts
<1> QED
  BY <1>2, <1>3

LEMMA ShownNext ==
  TypeInv /\ TypeInv' /\ OrderInv /\ OrderInv' /\ TrackerInv /\ AgreeInv' /\ ShownInv /\ [Next]_vars
    => ShownInv'
<1> SUFFICES ASSUME TypeInv, TypeInv', OrderInv, OrderInv', TrackerInv, AgreeInv', ShownInv, [Next]_vars
             PROVE  ShownInv'
  OBVIOUS
<1> USE DiagnosticsAssumption
<1>1. /\ Len(log) \in Nat /\ Len(inserts) \in Nat /\ log \in Seq(Messages) /\ inserts \in Seq(Messages)
      /\ log' \in Seq(Messages) /\ inserts' \in Seq(Messages)
      /\ lost \subseteq 1..published /\ published \in Nat /\ boot \in Nat
  BY DEF TypeInv
<1>2. \A i \in 1..Len(inserts) : inserts[i].id \in Nat
  <2>1. \A i \in 1..Len(inserts) : inserts[i] \in Messages
    BY <1>1
  <2> QED
    BY <2>1 DEF Messages
<1>3. /\ Len(Stream) = Len(log) + Len(inserts) /\ \A i \in 1..Len(log) : Stream[i] = log[i]
      /\ \A i \in 1..Len(inserts) : Stream[Len(log) + i] = inserts[i]
  BY StreamFacts
<1>4. /\ Stream' \in Seq(Messages) /\ Len(Stream') = Len(log') + Len(inserts')
      /\ Len(log') \in Nat /\ Len(inserts') \in Nat
      /\ \A i \in 1..Len(log') : Stream'[i] = log'[i]
      /\ \A i \in 1..Len(inserts') : Stream'[Len(log') + i] = inserts'[i]
  <2>1. Len(log') \in Nat /\ Len(inserts') \in Nat
    BY <1>1
  <2> DEFINE u == log'
             v == inserts'
             w == u \o v
  <2>2. u \in Seq(Messages) /\ v \in Seq(Messages)
    BY <1>1
  <2> HIDE DEF u, v
  <2>3. /\ w \in Seq(Messages) /\ Len(w) = Len(u) + Len(v) /\ Len(u) \in Nat /\ Len(v) \in Nat
        /\ \A i \in 1..Len(w) : w[i] = IF i <= Len(u) THEN u[i] ELSE v[i - Len(u)]
        /\ \A i \in 1..Len(v) : w[Len(u) + i] = v[i]
    BY <2>2, ConcatFacts
  <2>4. Stream' = w
    BY DEF Stream, u, v
  <2> HIDE DEF w
  <2>5. \A i \in 1..Len(u) : i \in 1..Len(w) /\ i <= Len(u)
    BY <2>3
  <2>6. \A i \in 1..Len(u) : w[i] = u[i]
    BY <2>3, <2>5
  <2> QED
    BY <2>3, <2>4, <2>6 DEF u, v
\* An insert leaves the queue: what is behind it is newer.
<1>5. ASSUME NEW m \in 1..Len(inserts), log' = log, UNCHANGED <<tracker, boot>>, lost \subseteq lost',
             inserts[m].id \in lost', Len(inserts') = Len(inserts) - 1,
             \A k \in 1..Len(inserts') : inserts'[k] = IF k < m THEN inserts[k] ELSE inserts[k + 1]
      PROVE  ShownInv'
  <2> DEFINE L == Len(log) + m - 1
  <2>1. L \in Nat /\ L <= Len(Stream) /\ m \in Nat
    BY <1>1, <1>3
  <2>2. ASSUME NEW i \in 1..L PROVE Stream'[i] = Stream[i]
    <3>1. CASE i <= Len(log)
      <4>1. i \in 1..Len(log)
        BY <1>1, <2>1, <3>1
      <4> QED
        BY <1>3, <1>4, <1>5, <4>1
    <3>2. CASE ~(i <= Len(log))
      <4> DEFINE k == i - Len(log)
      <4>1. k \in 1..Len(inserts) /\ k \in 1..Len(inserts') /\ k < m /\ Len(log) + k = i
        BY <1>1, <1>5, <2>1, <3>2
      <4> HIDE DEF k, L
      <4>2. inserts'[k] = inserts[k]
        BY <1>5, <4>1
      <4>3. Stream'[Len(log) + k] = inserts'[k]
        BY <1>4, <1>5, <4>1
      <4>4. Stream[Len(log) + k] = inserts[k]
        BY <1>3, <4>1
      <4> QED
        BY <4>1, <4>2, <4>3, <4>4
    <3> QED
      BY <3>1, <3>2
  <2>3. inserts[m].id \in Nat /\ inserts[m].id >= boot
    BY <1>1 DEF TypeInv, OrderInv, QueueInv
  <2>4. ASSUME L < Len(Stream') PROVE ~(Stream'[L + 1].id < inserts[m].id)
    <3>1. L + 1 = Len(log) + m /\ m \in 1..Len(inserts') /\ m + 1 \in 1..Len(inserts)
      <4>1. Len(Stream') = Len(log) + Len(inserts')
        BY <1>4, <1>5
      <4>2. Len(inserts') = Len(inserts) - 1
        BY <1>5
      <4> QED
        BY <1>1, <2>1, <2>4, <4>1, <4>2
    <3>2. Stream'[L + 1] = inserts[m + 1]
      <4>1. Stream'[Len(log) + m] = inserts'[m]
        BY <1>4, <1>5, <3>1
      <4>2. inserts'[m] = inserts[m + 1]
        BY <1>5, <2>1, <3>1
      <4> HIDE DEF L
      <4> QED
        BY <3>1, <4>1, <4>2
    <3> HIDE DEF L
    <3>3. m < m + 1
      BY <2>1
    <3>4. inserts[m].id < inserts[m + 1].id
      BY <3>1, <3>3 DEF OrderInv, QueueInv
    <3>5. inserts[m + 1].id \in Nat
      BY <1>2, <3>1
    <3> QED
      BY <2>3, <3>2, <3>4, <3>5
  <2> HIDE DEF L
  <2>5. L < Len(Stream') => \E id \in lost' : id >= boot /\ ~(Stream'[L + 1].id < id) /\ id \in Nat
    BY <1>5, <2>3, <2>4
  <2> QED
    BY <1>4, <1>5, <2>1, <2>2, <2>5, ShownShrinks
<1>6. CASE Boot
  <2> DEFINE e == Event("calm", "runtime")
  <2>1. e \in Messages /\ e.id = published + 1
    BY EventTyped DEF Kinds
  <2>2. /\ log' = log /\ inserts' = <<e>> /\ inserts = <<>> /\ published' = published + 1
        /\ boot' = published + 1 /\ lost' = lost /\ up' # "down"
    BY <1>6 DEF Boot, OrderInv, DownInv
  <2> HIDE DEF e
  <2>3. inserts' = Append(inserts, e)
    BY <2>2
  <2>4. Stream' = Append(Stream, e)
    BY <2>1, <2>2, <2>3, PublishExtendsStream
  <2> QED
    BY <1>1, <2>1, <2>2, <2>4, ShownGrows
<1>7. ASSUME NEW t \in Publishers, NEW kind \in Kinds, Publish(t, kind) PROVE ShownInv'
  <2> DEFINE e == Event(kind, t)
  <2>1. e \in Messages /\ e.id = published + 1
    BY EventTyped
  <2>2. /\ log' = log /\ inserts' = Append(inserts, e) /\ published' = published + 1
        /\ boot' = boot /\ lost' = lost /\ up' # "down" /\ Track(e)
    BY <1>7 DEF Publish, ghost
  <2> HIDE DEF e
  <2>3. Stream' = Append(Stream, e)
    BY <2>1, <2>2, PublishExtendsStream
  <2> QED
    BY <1>1, <2>1, <2>2, <2>3, ShownGrows
<1>8. CASE Insert
  <2>1. Stream' = Stream /\ tracker' = tracker /\ boot' = boot /\ lost' = lost
    BY <1>8, InsertKeepsStream DEF Insert, ghost
  <2> QED
    BY <2>1 DEF ShownInv, Clear, Calm, ShownTrue
<1>9. CASE InsertFails
  <2> DEFINE h == Head(inserts)
  <2>1. /\ log' = log /\ UNCHANGED <<tracker, boot>> /\ lost' = lost \cup {h.id}
        /\ inserts' = Tail(inserts) /\ inserts # <<>>
    BY <1>9 DEF InsertFails
  <2>2. h = inserts[1] /\ 1 \in 1..Len(inserts) /\ Len(inserts') = Len(inserts) - 1
        /\ \A k \in 1..Len(inserts') : inserts'[k] = inserts[k + 1]
    BY <1>1, <2>1, HeadTailProperties
  <2> HIDE DEF h
  <2>3. \A k \in 1..Len(inserts') : inserts'[k] = IF k < 1 THEN inserts[k] ELSE inserts[k + 1]
    <3>1. \A k \in 1..Len(inserts') : ~(k < 1)
      BY <1>4
    <3> QED
      BY <2>2, <3>1
  <2> QED
    BY <1>5, <2>1, <2>2, <2>3
<1>10. ASSUME NEW i \in 1..Len(inserts), CancelPublish(i) PROVE ShownInv'
  <2>1. /\ log' = log /\ UNCHANGED <<tracker, boot>> /\ lost' = lost \cup {inserts[i].id}
        /\ inserts' = RemoveAt(inserts, i)
    BY <1>10 DEF CancelPublish
  <2>2. /\ Len(inserts') = Len(inserts) - 1
        /\ \A k \in 1..Len(inserts') : inserts'[k] = IF k < i THEN inserts[k] ELSE inserts[k + 1]
    BY <1>1, <2>1, RemoveAtFacts
  <2> QED
    BY <1>5, <2>1, <2>2
<1>11. ASSUME NEW e \in strays, StrayRuns(e) PROVE ShownInv'
  <2>1. /\ inserts' = inserts /\ tracker' = tracker /\ boot' = boot /\ lost' = lost
        /\ log' = log \/ log' = Append(log, e)
    BY <1>11 DEF StrayRuns, ghost
  <2>2. e \in Messages /\ e.id \in lost /\ e.id \in Nat /\ e.id >= boot
    BY <1>1 DEF TypeInv, OrderInv, StraysInv
  <2>3. CASE log' = log
    BY <1>11, <2>3 DEF StrayRuns, ghost, ShownInv, Clear, Calm, ShownTrue, Stream
  <2>4. CASE log' = Append(log, e)
    <3>1. Len(log') = Len(log) + 1 /\ log'[Len(log) + 1] = e /\ \A i \in 1..Len(log) : log'[i] = log[i]
      BY <1>1, <2>2, <2>4, AppendProperties
    <3>2. Len(log) + 1 \in 1..Len(log')
      BY <1>1, <3>1
    <3>3. Stream'[Len(log) + 1] = e
      BY <1>4, <3>1, <3>2
    <3>4. ASSUME NEW i \in 1..Len(log) PROVE Stream'[i] = Stream[i]
      <4>1. i \in 1..Len(log')
        BY <1>1, <3>1
      <4> QED
        BY <1>3, <1>4, <3>1, <4>1
    <3>5. Len(log) <= Len(Stream)
      BY <1>1, <1>3
    <3>6. \E id \in lost' : id >= boot /\ ~(Stream'[Len(log) + 1].id < id) /\ id \in Nat
      <4>1. e.id >= boot /\ ~(e.id < e.id) /\ e.id \in Nat /\ e.id \in lost'
        BY <2>1, <2>2
      <4> QED
        BY <3>3, <4>1
    <3> QED
      <4>1. Len(log) \in Nat /\ Stream' \in Seq(Messages)
        BY <1>1, <1>4
      <4>2. UNCHANGED <<tracker, boot>> /\ lost \subseteq lost'
        BY <2>1
      <4> QED
        BY <3>4, <3>5, <3>6, <4>1, <4>2, ShownShrinks
  <2> QED
    BY <2>1, <2>3, <2>4
<1>12. CASE Exit
  <2>1. log' = log /\ inserts' = <<>> /\ UNCHANGED <<tracker, boot>> /\ lost \subseteq lost'
    BY <1>12 DEF Exit
  <2>2. Len(Stream') = Len(log)
    BY <1>1, <1>4, <2>1
  <2>3. \A i \in 1..Len(log) : Stream'[i] = Stream[i]
    BY <1>3, <1>4, <2>1
  <2>4. Len(log) <= Len(Stream) /\ ~(Len(log) < Len(Stream'))
    BY <1>1, <1>3, <2>2
  <2> QED
    BY <1>1, <1>4, <2>1, <2>3, <2>4, ShownShrinks
<1>13. ASSUME NEW n \in 1..published, Prune(n) PROVE ShownInv'
  BY <1>13, ShownPruned DEF Prune, TypeInv
<1>14. CASE Detach \/ Close \/ UNCHANGED vars
  BY <1>14 DEF Detach, Close, vars, ghost, ShownInv, Clear, Calm, ShownTrue, Stream
<1> QED
  BY <1>6, <1>7, <1>8, <1>9, <1>10, <1>11, <1>12, <1>13, <1>14 DEF Next

LEMMA ShownInvariance == Spec => []ShownInv
  BY ShownInit, ShownNext, TypeInvariance, OrderInvariance, TrackerInvariance, AgreeInvariance, PTL DEF Spec

\* Whatever the command line shows as closed by the last process, the tracker
\* closed: nothing is made up from a part of the timeline.
THEOREM ShowsWhatHappened == Spec => []CliIsTrue
<1>1. TypeInv /\ OrderInv /\ ShownInv => CliIsTrue
  <2> SUFFICES ASSUME TypeInv, OrderInv, ShownInv, Gapless, NEW c \in 1..Len(log),
                      log[c].kind = "calm", log[c].id >= boot,
                      NEW i \in 1..Len(Shown.closed), Begins(Shown.closed[i]) > log[c].id
               PROVE  Told(tracker, Shown.closed[i])
    BY DEF CliIsTrue, Calms, Begins, Told
  <2> USE DiagnosticsAssumption
  <2> DEFINE m == IF Len(log) < ReplayLimit THEN Len(log) ELSE ReplayLimit
             s == SubSeq(log, 1, m)
  <2>1. log \in Seq(Messages) /\ Len(log) \in Nat /\ boot \in Nat /\ disowned \subseteq lost
    BY DEF TypeInv
  <2>2. m \in Nat /\ m <= Len(log)
    BY <2>1
  <2>3. Shown = Build(s)
    BY DEF Shown
  <2> HIDE DEF m
  <2>4. s \in Seq(Messages) /\ Len(s) = m /\ \A k \in 1..m : s[k] = log[k]
    BY <2>1, <2>2
  <2> HIDE DEF s
  <2>5. PICK w \in Seq(Messages) : log = s \o w
    BY <2>1, <2>2, <2>4, Beginning
  <2>6. inserts \in Seq(Messages)
    BY DEF TypeInv
  <2>7. Stream = s \o (w \o inserts) /\ w \o inserts \in Seq(Messages)
    <3>1. Associates(s, w, inserts)
      BY <2>4, <2>5, <2>6, AllAssociate
    <3>2. (s \o w) \o inserts = s \o (w \o inserts)
      BY <3>1 DEF Associates
    <3>3. w \o inserts \in Seq(Messages)
      BY <2>6, ConcatFacts
    <3> QED
      BY <2>5, <3>2, <3>3, Zenon DEF Stream
  <2>8. \A k \in 1..Len(log) : log[k].id \in Nat
    <3>1. \A k \in 1..Len(log) : log[k] \in Messages
      BY <2>1
    <3> QED
      BY <3>1 DEF Messages
  <2>9. Clear(s)
    <3>1. \A k \in 1..Len(s) : k \in 1..Len(log) /\ s[k] = log[k]
      BY <2>1, <2>2, <2>4
    <3> QED
      BY <3>1 DEF Gapless, Clear
  <2>10. CASE c <= m
    <3>1. c \in 1..Len(s) /\ s[c] = log[c]
      BY <2>1, <2>2, <2>4, <2>10
    <3>2. ShownTrue(Build(s), s[c].id)
      BY <2>4, <2>7, <2>9, <3>1 DEF ShownInv, Calm
    <3> QED
      BY <2>3, <3>1, <3>2 DEF ShownTrue
\* A calm event beyond what is replayed is newer than all that is.
  <2>11. CASE ~(c <= m)
    <3>1. log[c].id \notin disowned
      <4> SUFFICES ASSUME log[c].id \in lost PROVE FALSE
        BY <2>1
      <4>1. log[c].id < log[c].id
        BY <2>1, <2>8 DEF Gapless
      <4> QED
        BY <2>8, <4>1
    <3>2. \A k \in 1..Len(s) : s[k].id < log[c].id
      <4> TAKE k \in 1..Len(s)
      <4>1. k \in 1..Len(log) /\ k < c /\ s[k] = log[k]
        BY <2>1, <2>2, <2>4, <2>11
      <4> QED
        BY <3>1, <4>1 DEF OrderInv, LogInv
    <3>3. Sound(Build(s), Ids(s), log[c].id + 1) /\ \A x \in Ids(s) : x \in Nat /\ x <= log[c].id
      <4>1. \A k \in 1..Len(s) : s[k].id <= log[c].id
        <5> TAKE k \in 1..Len(s)
        <5>1. k \in 1..Len(log) /\ s[k] = log[k]
          BY <2>1, <2>2, <2>4
        <5>2. s[k].id < log[c].id /\ s[k].id \in Nat /\ log[c].id \in Nat
          BY <2>8, <3>2, <5>1
        <5> QED
          BY <5>2
      <4>2. log[c].id \in Nat
        BY <2>8
      <4> QED
        BY <2>4, <4>1, <4>2, BuildWithin
    <3>4. Begins(Shown.closed[i]) \in Ids(s)
      BY <2>3, <3>3 DEF Sound
    <3>5. Begins(Shown.closed[i]) \in Nat /\ Begins(Shown.closed[i]) <= log[c].id /\ log[c].id \in Nat
      BY <2>8, <3>3, <3>4
    <3> QED
      BY <3>5
  <2> QED
    BY <2>10, <2>11
<1> QED
  BY <1>1, TypeInvariance, OrderInvariance, ShownInvariance, PTL
====
