--------------------------- MODULE ServiceProofs ---------------------------
(***************************************************************************)
(* Proofs about Service, for any clients, tokens, callers, devices, page   *)
(* sizes and instants: a handler runs only for a caller the tokens let in  *)
(* at some time since the request came; the tables stay well formed; a     *)
(* PATCH keeps credentials; a walk through the pages of changes meets      *)
(* every row it started with.                                              *)
(*                                                                         *)
(* It starts with Timeline: the texts of times order the rows totally, so  *)
(* each row has a place of its own, a page holds the rows of its places,   *)
(* and a row that is inserted moves the others only towards the end.       *)
(***************************************************************************)
EXTENDS Service, Induction

----------------------------------------------------------------------------
\* The texts of times

\* Digits and the Z that ends them, which is greater than each.
Texts == {s \in Seq(0 .. 10) : /\ Len(s) > 0 /\ s[Len(s)] = 10
                               /\ \A i \in 1 .. Len(s) - 1 : s[i] # 10}

LEMMA FormatTimeType ==
    ASSUME NEW digits \in Seq(0 .. 9)
    PROVE  FormatTime(digits) \in Texts
<1> DEFINE kept == {n \in 0 .. Len(digits) : \A i \in n + 1 .. Len(digits) : digits[i] = 0}
           n == Min(kept)
<1>1. n \in 0 .. Len(digits)
  <2>1. Len(digits) \in kept /\ kept \in SUBSET Nat
    OBVIOUS
  <2> HIDE DEF kept
  <2>2. n \in kept
    BY <2>1, MinIsLeast
  <2> QED  BY <2>2 DEF kept
<1>2. FormatTime(digits) = SubSeq(digits, 1, n) \o <<10>>
  BY DEF FormatTime
<1> HIDE DEF n
<1> DEFINE head == SubSeq(digits, 1, n)
<1>3. head \in Seq(0 .. 9) /\ Len(head) = n /\ \A i \in 1 .. n : head[i] \in 0 .. 9
  BY <1>1
<1> HIDE DEF head
<1>4. /\ head \o <<10>> \in Seq(0 .. 10) /\ Len(head \o <<10>>) = n + 1
      /\ (head \o <<10>>)[n + 1] = 10 /\ \A i \in 1 .. n : (head \o <<10>>)[i] = head[i]
  BY <1>1, <1>3
<1>5. \A i \in 1 .. n + 1 - 1 : (head \o <<10>>)[i] # 10
  BY <1>1, <1>3, <1>4
<1>6. FormatTime(digits) = head \o <<10>>
  BY <1>2 DEF head
<1> DEFINE text == head \o <<10>>
<1>7. text \in Seq(0 .. 10) /\ Len(text) > 0 /\ text[Len(text)] = 10 /\ \A i \in 1 .. Len(text) - 1 : text[i] # 10
  BY <1>1, <1>4, <1>5
<1> HIDE DEF text
<1>8. text \in Texts
  BY <1>7 DEF Texts
<1> QED  BY <1>6, <1>8 DEF text

LEMMA TextHolds ==
    ASSUME NEW s \in Texts
    PROVE  /\ Len(s) \in Nat /\ Len(s) > 0 /\ \A i \in 1 .. Len(s) : s[i] \in 0 .. 10
           /\ s[Len(s)] = 10 /\ \A i \in 1 .. Len(s) - 1 : s[i] # 10
<1> QED  BY DEF Texts

\* No text is a proper beginning of another, so two texts differ somewhere
\* within both, and at the first such place one has the smaller sign.
LEMMA TextsAreOrdered ==
    ASSUME NEW s \in Texts, NEW t \in Texts, s # t
    PROVE  TextBefore(s, t) \/ TextBefore(t, s)
<1> DEFINE D == {n \in 1 .. Len(s) : n <= Len(t) /\ s[n] # t[n]}
<1>1. D # {}
  <2> SUFFICES ASSUME D = {} PROVE FALSE
    OBVIOUS
  <2>1. Len(s) \in Nat /\ Len(t) \in Nat /\ Len(s) > 0 /\ Len(t) > 0
    BY TextHolds
  <2>2. ASSUME Len(s) < Len(t) PROVE FALSE
    <3>1. Len(s) \in 1 .. Len(s) /\ Len(s) \in 1 .. Len(t) - 1 /\ Len(s) <= Len(t)
      BY <2>1, <2>2
    <3>2. s[Len(s)] = 10 /\ t[Len(s)] # 10
      BY <3>1, TextHolds
    <3> QED  BY <3>1, <3>2
  <2>3. ASSUME Len(t) < Len(s) PROVE FALSE
    <3>1. Len(t) \in 1 .. Len(s) - 1 /\ Len(t) \in 1 .. Len(s) /\ Len(t) <= Len(t)
      BY <2>1, <2>3
    <3>2. t[Len(t)] = 10 /\ s[Len(t)] # 10
      BY <3>1, TextHolds
    <3> QED  BY <3>1, <3>2
  <2>4. Len(s) = Len(t)
    BY <2>1, <2>2, <2>3
  <2> QED  BY <2>4 DEF Texts
<1>2. PICK n \in D : \A m \in D : n <= m
  <2>1. D \in SUBSET Nat
    OBVIOUS
  <2> HIDE DEF D
  <2> QED  BY <1>1, <2>1, LeastElement
<1>3. n \in 1 .. Len(s) /\ n \in 1 .. Len(t) /\ s[n] \in 0 .. 10 /\ t[n] \in 0 .. 10 /\ s[n] # t[n]
  BY <1>2 DEF Texts
<1>4. \A i \in 1 .. n - 1 : s[i] = t[i]
  BY <1>2, <1>3
<1> QED  BY <1>3, <1>4 DEF TextBefore

LEMMA TextBeforeIsStrict ==
    ASSUME NEW s \in Texts, NEW t \in Texts, NEW u \in Texts
    PROVE  /\ ~TextBefore(s, s)
           /\ TextBefore(s, t) /\ TextBefore(t, u) => TextBefore(s, u)
<1>0. \A x \in {s, t, u} : Len(x) \in Nat /\ \A i \in 1 .. Len(x) : x[i] \in 0 .. 10
  BY TextHolds
<1> USE DEF TextBefore
<1>1. ~TextBefore(s, s)
  BY <1>0
<1>2. ASSUME TextBefore(s, t), TextBefore(t, u)
      PROVE  TextBefore(s, u)
  <2>1. PICK n \in 1 .. Len(s) : n <= Len(t) /\ s[n] < t[n] /\ \A i \in 1 .. n - 1 : s[i] = t[i]
    BY <1>2
  <2>2. PICK m \in 1 .. Len(t) : m <= Len(u) /\ t[m] < u[m] /\ \A i \in 1 .. m - 1 : t[i] = u[i]
    BY <1>2
  <2>3. s[n] \in 0 .. 10 /\ t[n] \in 0 .. 10 /\ t[m] \in 0 .. 10 /\ u[m] \in 0 .. 10 /\ n \in Nat /\ m \in Nat
    BY <1>0, <2>1, <2>2
  <2>4. CASE n = m
    <3>1. s[n] < u[n]
      <4>1. s[n] < t[n] /\ t[n] < u[n] /\ u[n] \in 0 .. 10
        BY <2>1, <2>2, <2>3, <2>4
      <4>2. s[n] \in 0 .. 10 /\ t[n] \in 0 .. 10
        BY <2>3
      <4>3. \A x, y, z \in 0 .. 10 : x < y /\ y < z => x < z
        OBVIOUS
      <4> QED  BY <4>1, <4>2, <4>3
    <3> QED  BY <2>1, <2>2, <2>4, <3>1
  <2>5. CASE n < m
    <3>1. t[n] = u[n] /\ n <= Len(u) /\ \A i \in 1 .. n - 1 : s[i] = u[i]
      BY <1>0, <2>1, <2>2, <2>3, <2>5
    <3> QED  BY <2>1, <3>1
  <2>6. CASE m < n
    <3>1. m \in 1 .. Len(s) /\ s[m] = t[m] /\ \A i \in 1 .. m - 1 : s[i] = u[i]
      BY <1>0, <2>1, <2>2, <2>3, <2>6
    <3> QED  BY <2>2, <3>1
  <2> QED  BY <2>3, <2>4, <2>5, <2>6
<1> QED  BY <1>1, <1>2

----------------------------------------------------------------------------
\* Places

\* Rows as the table holds them: an id is given once.
WellKept(rows) ==
    /\ IsFiniteSet(rows)
    /\ \A r \in rows : r.id \in Nat /\ r.detectedAt \in Texts
    /\ \A r, s \in rows : r.id = s.id => r = s

LEMMA ListedBeforeIsStrict ==
    ASSUME NEW rows, WellKept(rows), NEW a \in rows, NEW b \in rows, NEW c \in rows
    PROVE  /\ ~ListedBefore(a, a)
           /\ a # b => ListedBefore(a, b) \/ ListedBefore(b, a)
           /\ ListedBefore(a, b) /\ ListedBefore(b, c) => ListedBefore(a, c)
<1>1. \A r \in rows : r.id \in Nat /\ r.detectedAt \in Texts
  BY DEF WellKept
<1>2. ~ListedBefore(a, a)
  BY <1>1, TextBeforeIsStrict DEF ListedBefore
<1>3. a # b => ListedBefore(a, b) \/ ListedBefore(b, a)
  <2>1. CASE a.detectedAt = b.detectedAt
    BY <1>1, <2>1 DEF ListedBefore, WellKept
  <2>2. CASE a.detectedAt # b.detectedAt
    BY <1>1, <2>2, TextsAreOrdered DEF ListedBefore
  <2> QED  BY <2>1, <2>2
<1>4. ASSUME ListedBefore(a, b), ListedBefore(b, c)
      PROVE  ListedBefore(a, c)
  <2>1. \/ TextBefore(b.detectedAt, a.detectedAt)
        \/ a.detectedAt = b.detectedAt /\ a.id > b.id
    BY <1>4 DEF ListedBefore
  <2>2. \/ TextBefore(c.detectedAt, b.detectedAt)
        \/ b.detectedAt = c.detectedAt /\ b.id > c.id
    BY <1>4 DEF ListedBefore
  <2>3. TextBefore(c.detectedAt, b.detectedAt) /\ TextBefore(b.detectedAt, a.detectedAt)
        => TextBefore(c.detectedAt, a.detectedAt)
    BY <1>1, TextBeforeIsStrict
  <2>4. a.id > b.id /\ b.id > c.id => a.id > c.id
    BY <1>1
  <2> QED  BY <2>1, <2>2, <2>3, <2>4 DEF ListedBefore
<1> QED  BY <1>2, <1>3, <1>4

LEMMA PlaceType ==
    ASSUME NEW rows, WellKept(rows), NEW r \in rows
    PROVE  Cardinality(rows) \in Nat /\ Place(r, rows) \in 1 .. Cardinality(rows)
<1> DEFINE ahead == {x \in rows : ListedBefore(x, r)}
<1>1. IsFiniteSet(rows) /\ Cardinality(rows) \in Nat
  BY FS_CardinalityType DEF WellKept
<1>2. ahead \in SUBSET rows /\ ahead # rows
  BY ListedBeforeIsStrict
<1> HIDE DEF ahead
<1>3. Cardinality(ahead) \in Nat /\ Cardinality(ahead) <= Cardinality(rows) /\ Cardinality(ahead) # Cardinality(rows)
  BY <1>1, <1>2, FS_Subset, FS_CardinalityType
<1> QED  BY <1>1, <1>3 DEF Place, ahead

\* Who is listed before another row has a smaller place.
LEMMA PlaceFollowsOrder ==
    ASSUME NEW rows, WellKept(rows), NEW r \in rows, NEW s \in rows, ListedBefore(r, s)
    PROVE  Place(r, rows) < Place(s, rows)
<1> DEFINE ahead(x) == {y \in rows : ListedBefore(y, x)}
<1>1. ahead(r) \in SUBSET ahead(s) /\ ahead(r) # ahead(s)
  <2>1. \A y \in ahead(r) : y \in ahead(s)
    BY ListedBeforeIsStrict
  <2>2. r \in ahead(s) /\ r \notin ahead(r)
    BY ListedBeforeIsStrict
  <2> QED  BY <2>1, <2>2
<1>2. IsFiniteSet(ahead(r)) /\ IsFiniteSet(ahead(s))
  BY FS_Subset DEF WellKept
<1>3. Place(r, rows) = Cardinality(ahead(r)) + 1 /\ Place(s, rows) = Cardinality(ahead(s)) + 1
  BY DEF Place
<1> HIDE DEF ahead
<1>4. Cardinality(ahead(r)) <= Cardinality(ahead(s)) /\ Cardinality(ahead(r)) # Cardinality(ahead(s))
  BY <1>1, <1>2, FS_Subset
<1> QED  BY <1>2, <1>3, <1>4, FS_CardinalityType

LEMMA PlacesDiffer ==
    ASSUME NEW rows, WellKept(rows), NEW r \in rows, NEW s \in rows, Place(r, rows) = Place(s, rows)
    PROVE  r = s
<1> SUFFICES ASSUME r # s PROVE FALSE
  OBVIOUS
<1>1. ListedBefore(r, s) \/ ListedBefore(s, r)
  BY ListedBeforeIsStrict
<1>2. Place(r, rows) < Place(s, rows) \/ Place(s, rows) < Place(r, rows)
  BY <1>1, PlaceFollowsOrder
<1> QED  BY <1>2, PlaceType

\* Every place up to the number of rows is somebody's.
LEMMA PlacesAreFilled ==
    ASSUME NEW rows, WellKept(rows), NEW n \in 1 .. Cardinality(rows)
    PROVE  \E r \in rows : Place(r, rows) = n
<1> DEFINE size == Cardinality(rows)
           place == [r \in rows |-> Place(r, rows)]
<1>1. size \in Nat
  BY FS_CardinalityType DEF WellKept
<1>2. place \in Injection(rows, 1 .. size)
  BY PlaceType, PlacesDiffer DEF Injection, IsInjective
<1>3. IsFiniteSet(1 .. size) /\ Cardinality(1 .. size) = size
  BY <1>1, FS_Interval
<1>4. place \in Surjection(rows, 1 .. size)
  <2> HIDE DEF place
  <2> QED  BY <1>2, <1>3, FS_Injection
<1> QED  BY <1>4 DEF Surjection

\* New rows push a row towards the end, never towards the start.
LEMMA PlacesOnlyGrow ==
    ASSUME NEW rows, NEW more, WellKept(more), rows \subseteq more, NEW r \in rows
    PROVE  Place(r, rows) \in Nat /\ Place(r, rows) <= Place(r, more)
<1> DEFINE ahead(S) == {y \in S : ListedBefore(y, r)}
<1>1. IsFiniteSet(ahead(more)) /\ ahead(rows) \in SUBSET ahead(more)
  BY FS_Subset DEF WellKept
<1>2. Place(r, rows) = Cardinality(ahead(rows)) + 1 /\ Place(r, more) = Cardinality(ahead(more)) + 1
  BY DEF Place
<1> HIDE DEF ahead
<1> QED  BY <1>1, <1>2, FS_Subset, FS_CardinalityType

----------------------------------------------------------------------------
\* Pages

\* A page is as long as the rows beyond its offset allow, and holds each row
\* whose place is among its places.
PageIs(page, rows, limit, offset) ==
    /\ Cardinality(rows) \in Nat /\ page \in Seq(rows)
    /\ Len(page) = IF Cardinality(rows) <= offset THEN 0
                   ELSE IF Cardinality(rows) <= offset + limit THEN Cardinality(rows) - offset ELSE limit
    /\ \A r \in rows : Place(r, rows) \in offset + 1 .. offset + limit => \E i \in DOMAIN page : page[i] = r

LEMMA PageHoldsItsPlaces ==
    ASSUME NEW min, NEW limit \in Nat, NEW offset \in Nat, WellKept(Matching(min))
    PROVE  PageIs(ListChanges(min, limit, offset), Matching(min), limit, offset)
<1> DEFINE rows == Matching(min)
           page == ListChanges(min, limit, offset)
           size == Cardinality(rows)
           last == Min({offset + limit, size})
<1>1. size \in Nat
  BY FS_CardinalityType DEF WellKept
<1>2. last = IF offset + limit <= size THEN offset + limit ELSE size
  BY <1>1, MinOfTwo
<1>3. page = [i \in 1 .. last - offset |-> CHOOSE r \in rows : Place(r, rows) = offset + i]
  BY DEF ListChanges
<1> HIDE DEF rows, page, size, last
<1>4. \A r \in rows : Place(r, rows) \in 1 .. size
  BY PlaceType DEF rows, size
<1>5. \A r \in rows : Place(r, rows) \in offset + 1 .. offset + limit =>
          \E i \in DOMAIN page : page[i] = r
  <2> TAKE r \in rows
  <2> HAVE Place(r, rows) \in offset + 1 .. offset + limit
  <2> DEFINE i == Place(r, rows) - offset
  <2>1. i \in 1 .. last - offset /\ Place(r, rows) = offset + i
    BY <1>1, <1>2, <1>4
  <2> HIDE DEF i
  <2>2. page[i] = CHOOSE x \in rows : Place(x, rows) = offset + i
    BY <1>3, <2>1
  <2>3. page[i] \in rows /\ Place(page[i], rows) = offset + i
    BY <2>1, <2>2
  <2>4. page[i] = r
    BY <2>1, <2>3, PlacesDiffer DEF rows
  <2> QED  BY <1>3, <2>1, <2>4
<1> DEFINE length == IF size <= offset THEN 0 ELSE IF size <= offset + limit THEN size - offset ELSE limit
<1>6. length \in Nat /\ 1 .. last - offset = 1 .. length
  BY <1>1, <1>2
<1>7. page \in [1 .. length -> rows]
  <2>1. ASSUME NEW i \in 1 .. length
        PROVE  (CHOOSE r \in rows : Place(r, rows) = offset + i) \in rows
    <3>1. offset + i \in 1 .. size
      BY <1>1, <2>1
    <3>2. \E r \in rows : Place(r, rows) = offset + i
      BY <3>1, PlacesAreFilled DEF rows, size
    <3> QED  BY <3>2
  <2> HIDE DEF length
  <2> QED  BY <1>3, <1>6, <2>1
<1>8. page \in Seq(rows) /\ Len(page) = length
  <2> HIDE DEF length
  <2> QED  BY <1>6, <1>7
<1> QED  BY <1>1, <1>5, <1>8 DEF PageIs, rows, page, size

----------------------------------------------------------------------------
\* Who is let in

\* What a request knows of its caller: trusted and open follow the live tokens,
\* and a handler was reached by one of them.
Record(phase, caller, trusted, open, job) ==
    [phase |-> phase, caller |-> caller, trusted |-> trusted, open |-> open, job |-> job]
Shaped(r) ==
    /\ r = Record(r.phase, r.caller, r.trusted, r.open, r.job)
    /\ r.trusted \in BOOLEAN /\ r.open \in BOOLEAN
LetIn(r) == r.trusted = TRUE \/ (r.open = TRUE /\ r.caller.loopback)
Knows(r, live) ==
    /\ live = {} => r.open = TRUE
    /\ r.caller.bearer \in live => r.trusted = TRUE
    /\ r.phase \in {"handle", "update", "record"} => LetIn(r)
Admitted(r) == Shaped(r) /\ Knows(r, LiveTokens)

Inv ==
    /\ request = [c \in Clients |-> request[c]]
    /\ \A c \in Clients : request[c] # Idle => Admitted(request[c])

----------------------------------------------------------------------------
\* Preservation

\* One request moves, the tokens do not.
LEMMA RequestMoves ==
    ASSUME Inv, NEW c \in Clients, NEW r, Becomes(c, r), UNCHANGED token, r # Idle => Admitted(r)
    PROVE  Inv'
<1>1. request' = [d \in Clients |-> IF d = c THEN r ELSE request[d]]
  BY DEF Inv, Becomes
<1>2. LiveTokens' = LiveTokens
  BY DEF LiveTokens
<1>3. \A d \in Clients : request'[d] # Idle => Shaped(request'[d]) /\ Knows(request'[d], LiveTokens)
  BY <1>1 DEF Inv, Admitted
<1> QED  BY <1>1, <1>2, <1>3 DEF Inv, Admitted

\* A request goes on to another phase and job.
LEMMA Continues ==
    ASSUME NEW r, Admitted(r), NEW p, NEW j, p \in {"handle", "update", "record"} => LetIn(r)
    PROVE  /\ Admitted([r EXCEPT !.phase = p])
           /\ Admitted([r EXCEPT !.phase = p, !.job = j])
<1>1. /\ [r EXCEPT !.phase = p] = Record(p, r.caller, r.trusted, r.open, r.job)
      /\ [r EXCEPT !.phase = p, !.job = j] = Record(p, r.caller, r.trusted, r.open, j)
  <2>1. PICK ph, caller, trusted, open, job : r = Record(ph, caller, trusted, open, job)
    BY DEF Admitted, Shaped
  <2>2. r.caller = caller /\ r.trusted = trusted /\ r.open = open /\ r.job = job
    BY <2>1 DEF Record
  <2>3. /\ [r EXCEPT !.phase = p] = Record(p, caller, trusted, open, job)
        /\ [r EXCEPT !.phase = p, !.job = j] = Record(p, caller, trusted, open, j)
    <3>1. [Record(ph, caller, trusted, open, job) EXCEPT !.phase = p] = Record(p, caller, trusted, open, job)
      BY DEF Record
    <3>2. [Record(p, caller, trusted, open, job) EXCEPT !.job = j] = Record(p, caller, trusted, open, j)
      BY DEF Record
    <3> QED  BY <2>1, <3>1, <3>2
  <2> QED  BY <2>2, <2>3
<1>2. ASSUME NEW k
      PROVE  Admitted(Record(p, r.caller, r.trusted, r.open, k))
  BY DEF Admitted, Shaped, Knows, LetIn, Record
<1> QED  BY <1>1, <1>2

LEMMA SetTokenKept ==
    ASSUME Inv, NEW t \in Tokens, NEW from, NEW to, SetToken(t, from, to)
    PROVE  Inv'
<1> DEFINE live == {u \in Tokens : token'[u] = "live"}
           next(c) == IF request[c] = Idle THEN Idle
                      ELSE [request[c] EXCEPT !.trusted = @ \/ request[c].caller.bearer \in live,
                                              !.open = @ \/ live = {}]
<1>1. request' = [c \in Clients |-> next(c)] /\ LiveTokens' = live
  BY DEF SetToken, LiveTokens
<1>2. ASSUME NEW c \in Clients, next(c) # Idle
      PROVE  Shaped(next(c)) /\ Knows(next(c), live)
  <2> DEFINE r == request[c]
             trusted == r.trusted = TRUE \/ r.caller.bearer \in live
             open == r.open = TRUE \/ live = {}
  <2>1. r # Idle /\ Shaped(r) /\ Knows(r, LiveTokens)
    BY <1>2 DEF Inv, Admitted
  <2>2. next(c) = [r EXCEPT !.trusted = r.trusted \/ r.caller.bearer \in live, !.open = r.open \/ live = {}]
    <3>1. next(c) = [r EXCEPT !.trusted = @ \/ r.caller.bearer \in live, !.open = @ \/ live = {}]
      BY <2>1
    <3> QED  BY <2>1, <3>1 DEF Shaped, Record
  <2>3. (r.trusted \/ r.caller.bearer \in live) = trusted /\ (r.open \/ live = {}) = open
    BY <2>1 DEF Shaped
  <2>4. next(c) = Record(r.phase, r.caller, trusted, open, r.job)
    <3> HIDE DEF trusted, open, next, live
    <3>1. next(c) = [r EXCEPT !.trusted = trusted, !.open = open]
      BY <2>2, <2>3
    <3> QED  BY <2>1, <3>1 DEF Shaped, Record
  <2>5. trusted \in BOOLEAN /\ open \in BOOLEAN
    OBVIOUS
  <2>6. (live = {} => open) /\ (r.caller.bearer \in live => trusted)
    OBVIOUS
  <2>7. r.phase \in {"handle", "update", "record"} => trusted = TRUE \/ (open = TRUE /\ r.caller.loopback)
    BY <2>1 DEF Knows, LetIn
  <2> HIDE DEF next, live, trusted, open
  <2> QED  BY <2>4, <2>5, <2>6, <2>7 DEF Shaped, Knows, LetIn, Record
<1> HIDE DEF next, live
<1>3. \A c \in Clients : request'[c] = next(c)
  BY <1>1
<1>4. \A c \in Clients : request'[c] # Idle => Shaped(request'[c]) /\ Knows(request'[c], live)
  BY <1>2, <1>3
<1> QED  BY <1>1, <1>3, <1>4 DEF Inv, Admitted

----------------------------------------------------------------------------
LEMMA InitInv ==
    Init => Inv
BY DEF Init, Inv

LEMMA ArriveKept ==
    ASSUME Inv, NEW c \in Clients, Arrive(c)
    PROVE  Inv'
<1>1. PICK caller \in workload.callers :
          Becomes(c, [phase |-> "count", caller |-> caller,
                      trusted |-> caller.bearer \in LiveTokens, open |-> LiveTokens = {}, job |-> <<>>])
  BY DEF Arrive
<1>2. Admitted([phase |-> "count", caller |-> caller,
                trusted |-> caller.bearer \in LiveTokens, open |-> LiveTokens = {}, job |-> <<>>])
  <2> DEFINE trusted == caller.bearer \in LiveTokens
             open == LiveTokens = {}
             r == Record("count", caller, trusted, open, <<>>)
  <2>1. trusted \in BOOLEAN /\ open \in BOOLEAN
    OBVIOUS
  <2>2. (LiveTokens = {} => open = TRUE) /\ (caller.bearer \in LiveTokens => trusted = TRUE)
    OBVIOUS
  <2>3. r.phase = "count" /\ r.caller = caller /\ r.trusted = trusted /\ r.open = open /\ r.job = <<>>
    BY DEF Record
  <2>4. Admitted(r)
    <3> HIDE DEF trusted, open
    <3>1. Shaped(r)
      BY <2>1, <2>3 DEF Shaped
    <3> HIDE DEF r
    <3> QED  BY <2>2, <2>3, <3>1 DEF Admitted, Knows
  <2> QED  BY <2>4 DEF Record
<1> QED  BY <1>1, <1>2, RequestMoves DEF Arrive

\* Who has passed the count was let in by the token table as it was then, and
\* who has passed the validation had a live token.
LEMMA GateKept ==
    ASSUME Inv, NEW c \in Clients, Count(c) \/ Validate(c)
    PROVE  Inv'
<1>1. request[c] # Idle /\ Admitted(request[c]) /\ UNCHANGED token
  BY DEF Count, Validate, Idle, Inv
<1>2. CASE Count(c)
  <2>1. CASE FirstRun(request[c].caller)
    <3>1. request[c].open = TRUE /\ request[c].caller.loopback
      BY <1>1, <2>1 DEF FirstRun, Admitted, Knows
    <3>2. Becomes(c, [request[c] EXCEPT !.phase = "handle"])
      BY <1>2, <2>1 DEF Count
    <3> QED  BY <1>1, <3>1, <3>2, Continues, RequestMoves DEF LetIn
  <2>2. CASE Becomes(c, [request[c] EXCEPT !.phase = "validate"])
    BY <1>1, <2>2, Continues, RequestMoves
  <2>3. CASE Becomes(c, Idle)
    BY <1>1, <2>3, RequestMoves
  <2> QED  BY <1>2, <2>1, <2>2, <2>3 DEF Count
<1>3. CASE Validate(c)
  <2>1. CASE request[c].caller.bearer \in LiveTokens
    <3>1. request[c].trusted = TRUE
      BY <1>1, <2>1 DEF Admitted, Knows
    <3>2. Becomes(c, [request[c] EXCEPT !.phase = "handle"])
      BY <1>3, <2>1 DEF Validate
    <3> QED  BY <1>1, <3>1, <3>2, Continues, RequestMoves DEF LetIn
  <2>2. CASE request[c].caller.bearer \notin LiveTokens
    BY <1>1, <1>3, <2>2, RequestMoves DEF Validate
  <2> QED  BY <2>1, <2>2
<1> QED  BY <1>2, <1>3

LEMMA HandlerKept ==
    ASSUME Inv, NEW c \in Clients, NEW id \in Ids,
           \/ CreateDevice(c, id) \/ GetDevice(c, id) \/ PatchRead(c, id) \/ DeleteDevice(c, id)
           \/ Snapshot(c, id) \/ PatchWrite(c) \/ RecordChange(c) \/ ListPage(c) \/ Fails(c)
    PROVE  Inv'
<1>1. CASE Ends(c) /\ UNCHANGED token
  BY <1>1, RequestMoves DEF Ends
<1>2. CASE PatchRead(c, id) \/ Snapshot(c, id)
  <2>1. request[c].phase = "handle" /\ UNCHANGED token
    BY <1>2 DEF PatchRead, Snapshot, Handles
  <2>2. PICK p \in {"update", "record"} :
            \E j : Becomes(c, [request[c] EXCEPT !.phase = p, !.job = j])
    BY <1>2 DEF PatchRead, Snapshot
  <2>3. request[c] # Idle /\ Admitted(request[c])
    BY <2>1 DEF Idle, Inv
  <2>4. LetIn(request[c])
    BY <2>1, <2>3 DEF Admitted, Knows
  <2> QED  BY <2>1, <2>2, <2>3, <2>4, Continues, RequestMoves
<1> QED
  BY <1>1, <1>2 DEF CreateDevice, GetDevice, DeleteDevice, PatchWrite, RecordChange, ListPage, Fails

LEMMA NextInv ==
    ASSUME Inv, [Next]_vars
    PROVE  Inv'
<1>1. ASSUME NEW c \in Clients, Arrive(c) \/ Count(c) \/ Validate(c) \/ Fails(c)
      PROVE  Inv'
  BY <1>1, ArriveKept, GateKept, RequestMoves DEF Fails, Ends
<1>2. ASSUME NEW t \in Tokens, CreateToken(t) \/ DeleteToken(t)
      PROVE  Inv'
  BY <1>2, SetTokenKept DEF CreateToken, DeleteToken
<1>3. ASSUME NEW c \in Clients, NEW id \in Ids,
             \/ CreateDevice(c, id) \/ GetDevice(c, id) \/ PatchRead(c, id) \/ DeleteDevice(c, id)
             \/ Snapshot(c, id)
      PROVE  Inv'
  BY <1>3, HandlerKept
<1>4. ASSUME NEW c \in Clients, PatchWrite(c) \/ RecordChange(c) \/ ListPage(c)
      PROVE  Inv'
  BY <1>4, RequestMoves DEF PatchWrite, RecordChange, ListPage, Ends
<1>5. CASE UNCHANGED vars
  BY <1>5 DEF vars, Inv, Admitted, Knows, Shaped, LetIn, LiveTokens
<1> QED  BY <1>1, <1>2, <1>3, <1>4, <1>5 DEF Next

----------------------------------------------------------------------------
\* What is stored: configurations whose credentials are sealed once or not at
\* all.

ValidRows == {r \in Rows : Valid(r.type, r.config)}

Bodies == [vendor : Maybe({"auto"}), type : Maybe(Types), config : Maybe(Configs)]

LEMMA ConfigIsMap ==
    ASSUME NEW present \in SUBSET Fields, NEW config, config = [f \in present |-> config[f]],
           \A f \in present : config[f] \in Values
    PROVE  config \in Configs
<1>1. config \in [present -> Values]
  OBVIOUS
<1> QED  BY <1>1 DEF Configs

LEMMA MapIsConfig ==
    ASSUME NEW config \in Configs
    PROVE  /\ DOMAIN config \in SUBSET Fields
           /\ config = [f \in DOMAIN config |-> config[f]]
           /\ \A f \in DOMAIN config : config[f] \in Values
BY DEF Configs

LEMMA TypedTexts ==
    /\ Site \in Values /\ Redacted \in Values
    /\ \A s \in Secrets : Typed(s) \in Values
BY DEF Values, Site, Redacted, Typed

LEMMA FieldNames ==
    ASSUME NEW type \in Types
    PROVE  Required(type) \in SUBSET Fields /\ SensitiveFields(type) \subseteq RedactedKeys(type)
BY DEF Types, Required, Fields, SensitiveFields, RedactedKeys

\* Sealing keeps the fields and opens to the same text.
LEMMA SealedOnce ==
    ASSUME NEW type, NEW config \in Configs
    PROVE  /\ EncryptConfig(type, config) \in Configs
           /\ DOMAIN EncryptConfig(type, config) = DOMAIN config
           /\ \A f \in DOMAIN config : Opened(EncryptConfig(type, config)[f]) = config[f].text
<1> DEFINE sealed == EncryptConfig(type, config)
<1>1. /\ DOMAIN config \in SUBSET Fields
      /\ \A f \in DOMAIN config : config[f] \in Values
  BY MapIsConfig
<1>2. sealed = [f \in DOMAIN config |->
                   IF f \in SensitiveFields(type) /\ ~IsEncrypted(config[f])
                   THEN [config[f] EXCEPT !.seals = @ + 1] ELSE config[f]]
  BY DEF EncryptConfig
<1> HIDE DEF sealed
<1>3. ASSUME NEW f \in DOMAIN config
      PROVE  sealed[f] \in Values /\ sealed[f].text = config[f].text
  <2>1. config[f] \in Values
    BY <1>1
  <2>2. ~IsEncrypted(config[f]) => config[f].seals = 0
    BY <2>1 DEF Values, IsEncrypted
  <2>3. ~IsEncrypted(config[f]) =>
            [config[f] EXCEPT !.seals = @ + 1] \in Values /\ [config[f] EXCEPT !.seals = @ + 1].text = config[f].text
    BY <2>1, <2>2 DEF Values
  <2> QED  BY <1>2, <2>1, <2>3
<1>4. sealed \in Configs /\ DOMAIN sealed = DOMAIN config
  <2>1. DOMAIN sealed = DOMAIN config /\ sealed = [f \in DOMAIN config |-> sealed[f]]
    BY <1>2
  <2> QED  BY <1>1, <1>3, <2>1, ConfigIsMap
<1>5. ASSUME NEW v \in Values
      PROVE  Opened(v) = v.text
  BY DEF Values, Opened
<1> QED  BY <1>3, <1>4, <1>5 DEF sealed

LEMMA MergedConfig ==
    ASSUME NEW type, NEW new \in Configs, NEW old \in Configs
    PROVE  /\ MergeRedactedSecrets(type, new, old) \in Configs
           /\ \A f \in DOMAIN MergeRedactedSecrets(type, new, old) :
                  /\ f \in DOMAIN new
                  /\ new[f] # Redacted => MergeRedactedSecrets(type, new, old)[f] = new[f]
                  /\ new[f] = Redacted /\ f \in RedactedKeys(type) =>
                         f \in DOMAIN old /\ MergeRedactedSecrets(type, new, old)[f] = old[f]
<1> DEFINE kept == {f \in RedactedKeys(type) \cap DOMAIN new : new[f] = Redacted}
           present == DOMAIN new \ (kept \ DOMAIN old)
           merged == MergeRedactedSecrets(type, new, old)
<1>1. /\ DOMAIN new \in SUBSET Fields /\ DOMAIN old \in SUBSET Fields
      /\ \A f \in DOMAIN new : new[f] \in Values
      /\ \A f \in DOMAIN old : old[f] \in Values
  BY MapIsConfig
<1>2. merged = [f \in present |-> IF f \in kept THEN old[f] ELSE new[f]]
  BY DEF MergeRedactedSecrets
<1>3. present \in SUBSET Fields /\ present \subseteq DOMAIN new /\ (\A f \in present : f \in kept => f \in DOMAIN old)
  BY <1>1
<1>4. \A f \in DOMAIN new : f \in kept <=> f \in RedactedKeys(type) /\ new[f] = Redacted
  OBVIOUS
<1> HIDE DEF kept, present, merged
<1>5. merged \in Configs
  <2>1. merged = [f \in present |-> merged[f]] /\ \A f \in present : merged[f] \in Values
    BY <1>1, <1>2, <1>3
  <2> QED  BY <1>3, <2>1, ConfigIsMap
<1>6. \A f \in DOMAIN merged :
          /\ f \in DOMAIN new
          /\ new[f] # Redacted => merged[f] = new[f]
          /\ new[f] = Redacted /\ f \in RedactedKeys(type) => f \in DOMAIN old /\ merged[f] = old[f]
  BY <1>2, <1>3, <1>4
<1> QED  BY <1>5, <1>6 DEF merged

LEMMA NewRowType ==
    ASSUME NEW type \in Types, NEW config \in Configs, Valid(type, config)
    PROVE  NewRow(type, config) \in ValidRows
<1>1. SuggestedVendor(type) \in Vendors
  BY DEF SuggestedVendor, Vendors
<1> QED  BY <1>1, SealedOnce DEF NewRow, ValidRows, Rows, Valid

\* A field that was absent, or the one value it has.
LEMMA MaybeHas ==
    ASSUME NEW S, NEW m \in Maybe(S), m # {}
    PROVE  (CHOOSE x \in m : TRUE) \in S /\ \A x \in m : x = CHOOSE y \in m : TRUE
BY DEF Maybe

LEMMA PatchedRow ==
    ASSUME NEW row \in Rows, NEW body \in Bodies
    PROVE  Patched(row, body) \in Rows
<1>1. /\ row.vendor \in Vendors /\ row.type \in Types /\ row.config \in Configs
      /\ body.vendor \in Maybe({"auto"}) /\ body.type \in Maybe(Types) /\ body.config \in Maybe(Configs)
  BY DEF Rows, Bodies
<1> DEFINE type == PatchedType(row, body)
           config == IF body.config = {} THEN row.config
                     ELSE MergeRedactedSecrets(type, CHOOSE c \in body.config : TRUE, row.config)
           vendor == IF body.vendor = {} THEN row.vendor ELSE CHOOSE v \in body.vendor : TRUE
<1>2. type \in Types
  BY <1>1, MaybeHas DEF PatchedType
<1>3. config \in Configs
  <2>1. CASE body.config = {}
    BY <1>1, <2>1
  <2>2. CASE body.config # {}
    <3>1. (CHOOSE c \in body.config : TRUE) \in Configs
      BY <1>1, <2>2, MaybeHas
    <3> HIDE DEF type
    <3> QED  BY <1>1, <2>2, <3>1, MergedConfig
  <2> QED  BY <2>1, <2>2
<1>4. vendor \in Vendors
  <2>1. body.vendor # {} => (CHOOSE v \in body.vendor : TRUE) \in {"auto"}
    BY <1>1, MaybeHas
  <2> QED  BY <1>1, <2>1 DEF Vendors
<1>5. Patched(row, body) = [vendor |-> vendor, type |-> type, config |-> config]
  BY DEF Patched
<1> HIDE DEF vendor, type, config
<1> QED  BY <1>2, <1>3, <1>4, <1>5 DEF Rows

LEMMA SealedRow ==
    ASSUME NEW row \in Rows
    PROVE  /\ Sealed(row) \in Rows
           /\ Sealed(row).type = row.type
           /\ Sealed(row).config = EncryptConfig(row.type, row.config)
           /\ Valid(row.type, row.config) => Sealed(row) \in ValidRows
<1>1. Sealed(row) = [row EXCEPT !.config = EncryptConfig(row.type, row.config)]
  BY DEF Sealed, Rows
<1>2. /\ EncryptConfig(row.type, row.config) \in Configs
      /\ DOMAIN EncryptConfig(row.type, row.config) = DOMAIN row.config
  BY SealedOnce DEF Rows
<1>3. Sealed(row) \in Rows /\ Sealed(row).type = row.type /\ Sealed(row).config = EncryptConfig(row.type, row.config)
  BY <1>1, <1>2 DEF Rows
<1> QED  BY <1>2, <1>3 DEF ValidRows, Valid

\* What a GET shows has the fields of the row, and redacted values for some.
LEMMA RedactedRow ==
    ASSUME NEW row \in Rows
    PROVE  [row EXCEPT !.config = RedactConfig(row.type, row.config)] \in Rows
<1>1. row.config \in Configs
  BY DEF Rows
<1> DEFINE shown == RedactConfig(row.type, row.config)
<1>2. shown = [f \in DOMAIN row.config |-> IF f \in RedactedKeys(row.type) THEN Redacted ELSE row.config[f]]
  BY DEF RedactConfig
<1> HIDE DEF shown
<1>3. shown \in Configs
  <2>1. shown = [f \in DOMAIN row.config |-> shown[f]] /\ \A f \in DOMAIN row.config : shown[f] \in Values
    BY <1>1, <1>2, MapIsConfig, TypedTexts
  <2> QED  BY <1>1, <2>1, MapIsConfig, ConfigIsMap
<1> QED  BY <1>3 DEF Rows, shown

LEMMA SentConfigsType ==
    ASSUME NEW c \in Clients, view[c] \in Rows \cup {NoRow}
    PROVE  SentConfigs(c) \subseteq Configs
<1>1. FreshConfigs \subseteq Configs
  <2>1. ASSUME NEW t \in Types, NEW s \in Secrets
        PROVE  FreshConfig(t, s) \in Configs
    <3> DEFINE fresh == FreshConfig(t, s)
    <3>1. fresh = [f \in Required(t) |-> IF f \in SensitiveFields(t) THEN Typed(s) ELSE Site]
      BY DEF FreshConfig
    <3> HIDE DEF fresh
    <3>2. fresh = [f \in Required(t) |-> fresh[f]] /\ \A f \in Required(t) : fresh[f] \in Values
      BY <3>1, TypedTexts
    <3> QED  BY <3>2, FieldNames, ConfigIsMap DEF fresh
  <2> QED  BY <2>1 DEF FreshConfigs
<1>2. ASSUME NEW config \in Configs
      PROVE  WithPath(config) \in Configs
  <2> DEFINE edited == WithPath(config)
             present == {"path"} \cup DOMAIN config
  <2>1. edited = [f \in present |-> IF f = "path" THEN Site ELSE config[f]]
    BY DEF WithPath
  <2>2. present \in SUBSET Fields
    BY MapIsConfig DEF Fields
  <2>3. \A f \in present : f # "path" => config[f] \in Values
    BY MapIsConfig
  <2> HIDE DEF edited, present
  <2>4. edited = [f \in present |-> edited[f]] /\ \A f \in present : edited[f] \in Values
    BY <2>1, <2>3, TypedTexts
  <2> QED  BY <2>2, <2>4, ConfigIsMap DEF edited
<1>3. view[c] # NoRow => view[c].config \in Configs
  BY DEF Rows
<1> QED  BY <1>1, <1>2, <1>3 DEF SentConfigs

\* A merged and sealed configuration opens to what was typed, or else to what
\* the stored one opened to.
LEMMA PatchOpens ==
    ASSUME NEW row \in Rows, NEW body \in Bodies,
           NEW f \in SensitiveFields(Sealed(Patched(row, body)).type) \cap DOMAIN Sealed(Patched(row, body)).config
    PROVE  Opened(Sealed(Patched(row, body)).config[f]) =
               IF \E s \in body.config : s[f] # Redacted THEN (CHOOSE s \in body.config : TRUE)[f].text
               ELSE Opened(row.config[f])
<1> DEFINE new == Patched(row, body)
           sent == CHOOSE s \in body.config : TRUE
<1>1. new \in Rows /\ new.type \in Types /\ new.config \in Configs /\ row.config \in Configs
      /\ body.config \in Maybe(Configs)
  BY PatchedRow DEF Rows, Bodies
<1>2. /\ new.type = PatchedType(row, body)
      /\ new.config = IF body.config = {} THEN row.config
                      ELSE MergeRedactedSecrets(new.type, sent, row.config)
  BY DEF Patched
<1> HIDE DEF new, sent
<1>3. /\ f \in SensitiveFields(new.type) /\ f \in DOMAIN new.config
      /\ Opened(Sealed(new).config[f]) = new.config[f].text
  <2>1. f \in SensitiveFields(Sealed(new).type) /\ f \in DOMAIN Sealed(new).config
    BY DEF new
  <2> QED  BY <1>1, <2>1, SealedRow, SealedOnce
<1>4. f \in RedactedKeys(new.type)
  BY <1>1, <1>3, FieldNames
<1>5. ASSUME NEW v \in Values
      PROVE  Opened(v) = v.text
  BY DEF Values, Opened
<1>6. CASE body.config = {}
  BY <1>1, <1>2, <1>3, <1>5, <1>6, MapIsConfig DEF new
<1>7. CASE body.config # {}
  <2>1. sent \in Configs /\ body.config = {sent}
    BY <1>1, <1>7, MaybeHas DEF sent, Maybe
  <2>2. /\ sent[f] # Redacted => new.config[f] = sent[f]
        /\ sent[f] = Redacted => f \in DOMAIN row.config /\ new.config[f] = row.config[f]
    BY <1>1, <1>2, <1>3, <1>4, <1>7, <2>1, MergedConfig
  <2>3. f \in DOMAIN row.config => Opened(row.config[f]) = row.config[f].text
    BY <1>1, <1>5, MapIsConfig
  <2>4. (\E s \in body.config : s[f] # Redacted) <=> sent[f] # Redacted
    BY <2>1
  <2>5. Opened(Sealed(new).config[f]) = IF sent[f] # Redacted THEN sent[f].text ELSE Opened(row.config[f])
    BY <1>3, <2>2, <2>3
  <2> QED  BY <2>4, <2>5 DEF new, sent
<1> QED  BY <1>6, <1>7
----------------------------------------------------------------------------
\* The data: the tables, what the requests under way hold, and the walks.

Phases == {"idle", "count", "validate", "handle", "update", "record"}
Severities == {"none", "high"}
ChangeRows == [id : Nat, device : Ids, detectedAt : Texts, severity : Severities]

TablesOK ==
    /\ devices \in [Ids -> ValidRows \cup {NoRow}]
    /\ writes \in [Ids -> Nat]
    /\ lastId \in Nat /\ IsFiniteSet(changes)
    /\ \A r \in changes : r \in ChangeRows /\ r.id \in 1 .. lastId /\ Exists(r.device)
    /\ \A r, s \in changes : r.id = s.id => r = s

\* A PATCH holds the row it will write, made of the row it read unless that was
\* written since.
JobOK(r, table, count) ==
    /\ r.phase \in Phases
    /\ r.phase = "update" =>
          /\ r.job.id \in Ids /\ r.job.row \in ValidRows /\ r.job.body \in Bodies
          /\ r.job.version \in Nat /\ r.job.version <= count[r.job.id]
          /\ r.job.version = count[r.job.id] =>
                /\ table[r.job.id] # NoRow
                /\ r.job.row = Sealed(Patched(table[r.job.id], r.job.body))
    /\ r.phase = "record" => r.job.id \in Ids /\ r.job.stamp \in Seq(0 .. 9)

RequestsOK ==
    /\ token \in [Tokens -> {"new", "live", "deleted"}]
    /\ clock \in 0 .. Len(Stamps)
    /\ view \in [Clients -> Rows \cup {NoRow}]
    /\ \A c \in Clients : JobOK(request[c], devices, writes)

Walks == [done : BOOLEAN, min : Severities, limit : {0, MaxLimit + 1},
          start : SUBSET ChangeRows, got : Seq(ChangeRows), offset : Nat,
          cut : BOOLEAN, grown : BOOLEAN]

\* A walk whose rows all stayed has met those with a place below its offset;
\* at its end it has met them all.  If none came either, it met each once.
OnTheWay(w, rows) ==
    /\ w.start \subseteq rows
    /\ \A r \in w.start : Place(r, rows) <= w.offset => r \in ToSet(w.got)
    /\ ~w.grown => /\ w.start = rows
                   /\ Len(w.got) = w.offset /\ w.offset <= Cardinality(rows)
Arrived(w) ==
    /\ w.start \subseteq ToSet(w.got)
    /\ ~w.grown => Len(w.got) = Cardinality(w.start)
WalkOK(w, rows) == w.cut \/ IF w.done THEN Arrived(w) ELSE OnTheWay(w, rows)

WalksOK ==
    /\ walk \in [Clients -> Walks]
    /\ \A c \in Clients : WalkOK(walk[c], Matching(walk[c].min))

DataInv == TablesOK /\ RequestsOK /\ WalksOK

----------------------------------------------------------------------------
\* The tables

\* A row is written: the others stay, and the count of its id goes up.
Touches(id, row) ==
    /\ devices' = [devices EXCEPT ![id] = row]
    /\ writes' = [writes EXCEPT ![id] = @ + 1]

TouchesNothing == UNCHANGED <<devices, writes>>

LEMMA CreateTouches ==
    ASSUME DataInv, NEW c \in Clients, NEW id \in Ids, CreateDevice(c, id)
    PROVE  \E row \in ValidRows : Touches(id, row)
<1>1. PICK type \in Types, config \in SentConfigs(c) : Valid(type, config) /\ InsertRow(id, NewRow(type, config))
  BY DEF CreateDevice
<1>2. config \in Configs
  BY <1>1, SentConfigsType DEF DataInv, RequestsOK
<1>3. NewRow(type, config) \in ValidRows
  BY <1>1, <1>2, NewRowType
<1> QED  BY <1>1, <1>3 DEF CreateDevice, Touches, InsertRow, Written

LEMMA PatchTouches ==
    ASSUME DataInv, NEW c \in Clients, PatchWrite(c)
    PROVE  /\ request[c].phase = "update" /\ request[c].job.id \in Ids /\ Exists(request[c].job.id)
           /\ request[c].job.row \in ValidRows /\ Touches(request[c].job.id, request[c].job.row)
BY DEF PatchWrite, DataInv, RequestsOK, JobOK, UpdateRow, Written, Touches

LEMMA DeleteTouches ==
    ASSUME NEW c \in Clients, NEW id \in Ids, DeleteDevice(c, id)
    PROVE  Touches(id, NoRow)
BY DEF DeleteDevice, DeleteRow, Written, Touches

LEMMA OthersTouchNothing ==
    ASSUME NEW c \in Clients, NEW id \in Ids, NEW t \in Tokens,
           \/ Arrive(c) \/ Count(c) \/ Validate(c) \/ Fails(c) \/ CreateToken(t) \/ DeleteToken(t)
           \/ GetDevice(c, id) \/ PatchRead(c, id) \/ Snapshot(c, id) \/ RecordChange(c) \/ ListPage(c)
           \/ UNCHANGED vars
    PROVE  TouchesNothing
BY DEF TouchesNothing, Arrive, Count, Validate, Fails, CreateToken, DeleteToken, SetToken, GetDevice,
       PatchRead, Snapshot, RecordChange, ListPage, tableVars, vars

LEMMA RowsStayValid ==
    ASSUME TablesOK, TouchesNothing \/ \E id \in Ids, row \in ValidRows \cup {NoRow} : Touches(id, row)
    PROVE  devices' \in [Ids -> ValidRows \cup {NoRow}] /\ writes' \in [Ids -> Nat]
BY DEF TablesOK, TouchesNothing, Touches

\* Writing a valid row keeps every device that has changes.
LEMMA ChangesKeepDevices ==
    ASSUME TablesOK, UNCHANGED timelineVars,
           TouchesNothing \/ \E id \in Ids, row \in ValidRows : Touches(id, row)
    PROVE  TablesOK'
<1>1. devices' \in [Ids -> ValidRows \cup {NoRow}] /\ writes' \in [Ids -> Nat]
  BY RowsStayValid
<1>2. NoRow \notin ValidRows
  BY RegistryAssumption DEF ValidRows
<1>3. \A id \in Ids : devices[id] # NoRow => devices'[id] # NoRow
  BY <1>2 DEF TablesOK, TouchesNothing, Touches
<1> QED  BY <1>1, <1>3 DEF TablesOK, Exists, timelineVars, ChangeRows

LEMMA DeleteKeepsTables ==
    ASSUME TablesOK, NEW c \in Clients, NEW id \in Ids, DeleteDevice(c, id)
    PROVE  TablesOK'
<1>1. devices' \in [Ids -> ValidRows \cup {NoRow}] /\ writes' \in [Ids -> Nat]
  BY DeleteTouches, RowsStayValid
<1>2. changes' = {r \in changes : r.device # id} /\ lastId' = lastId
  BY DEF DeleteDevice, DeleteChangesOf
<1>3. \A other \in Ids : other # id => devices'[other] = devices[other]
  BY DeleteTouches DEF TablesOK, Touches
<1>4. IsFiniteSet(changes')
  BY <1>2, FS_Subset DEF TablesOK
<1>5. ASSUME NEW r \in changes'
      PROVE  r \in ChangeRows /\ r.id \in 1 .. lastId /\ devices'[r.device] # NoRow
  <2>1. r \in ChangeRows /\ r.id \in 1 .. lastId /\ devices[r.device] # NoRow /\ r.device # id
    BY <1>2, <1>5 DEF TablesOK, Exists
  <2> QED  BY <1>3, <2>1 DEF ChangeRows
<1> QED  BY <1>1, <1>2, <1>4, <1>5 DEF TablesOK, Exists

LEMMA RecordKeepsTables ==
    ASSUME TablesOK, RequestsOK, NEW c \in Clients, RecordChange(c)
    PROVE  TablesOK' /\ changes \subseteq changes'
<1>1. PICK severity \in Severities : Insert(request[c].job.id, request[c].job.stamp, severity)
  BY DEF RecordChange, Severities
<1>2. /\ request[c].job.id \in Ids /\ request[c].job.stamp \in Seq(0 .. 9)
      /\ devices[request[c].job.id] # NoRow
  BY DEF RequestsOK, JobOK, RecordChange, Exists
<1> DEFINE new == [id |-> lastId + 1, device |-> request[c].job.id,
                   detectedAt |-> FormatTime(request[c].job.stamp), severity |-> severity]
<1>3. changes' = changes \cup {new} /\ lastId' = lastId + 1 /\ UNCHANGED <<devices, writes>>
  BY <1>1 DEF Insert, RecordChange
<1>4. new \in ChangeRows /\ new.id = lastId + 1 /\ new.device = request[c].job.id
  BY <1>2, FormatTimeType DEF ChangeRows, TablesOK
<1> HIDE DEF new
<1>5. IsFiniteSet(changes')
  BY <1>3, FS_AddElement DEF TablesOK
<1>6. \A r \in changes' : r \in ChangeRows /\ r.id \in 1 .. lastId' /\ devices'[r.device] # NoRow
  BY <1>2, <1>3, <1>4 DEF TablesOK, Exists
<1>7. \A r, s \in changes' : r.id = s.id => r = s
  BY <1>3, <1>4 DEF TablesOK
<1> QED  BY <1>3, <1>5, <1>6, <1>7 DEF TablesOK, Exists

LEMMA TablesKept ==
    ASSUME Inv, DataInv, [Next]_vars
    PROVE  TablesOK'
<1> USE DEF DataInv
<1>1. ASSUME NEW c \in Clients, Arrive(c) \/ Count(c) \/ Validate(c) \/ Fails(c)
      PROVE  TablesOK'
  <2>1. TouchesNothing /\ UNCHANGED timelineVars
    BY <1>1 DEF TouchesNothing, Arrive, Count, Validate, Fails, tableVars
  <2> QED  BY <2>1, ChangesKeepDevices
<1>2. ASSUME NEW t \in Tokens, CreateToken(t) \/ DeleteToken(t)
      PROVE  TablesOK'
  <2>1. TouchesNothing /\ UNCHANGED timelineVars
    BY <1>2 DEF TouchesNothing, CreateToken, DeleteToken, SetToken, tableVars
  <2> QED  BY <2>1, ChangesKeepDevices
<1>3. ASSUME NEW c \in Clients, NEW id \in Ids, GetDevice(c, id) \/ PatchRead(c, id) \/ Snapshot(c, id)
      PROVE  TablesOK'
  <2>1. TouchesNothing /\ UNCHANGED timelineVars
    BY <1>3 DEF TouchesNothing, GetDevice, PatchRead, Snapshot, tableVars
  <2> QED  BY <2>1, ChangesKeepDevices
<1>4. ASSUME NEW c \in Clients, NEW id \in Ids, CreateDevice(c, id)
      PROVE  TablesOK'
  BY <1>4, CreateTouches, ChangesKeepDevices DEF CreateDevice
<1>5. ASSUME NEW c \in Clients, PatchWrite(c)
      PROVE  TablesOK'
  BY <1>5, PatchTouches, ChangesKeepDevices DEF PatchWrite
<1>6. ASSUME NEW c \in Clients, NEW id \in Ids, DeleteDevice(c, id)
      PROVE  TablesOK'
  BY <1>6, DeleteKeepsTables
<1>7. ASSUME NEW c \in Clients, RecordChange(c)
      PROVE  TablesOK'
  BY <1>7, RecordKeepsTables
<1>8. ASSUME NEW c \in Clients, ListPage(c)
      PROVE  TablesOK'
  <2>1. TouchesNothing /\ UNCHANGED timelineVars
    BY <1>8 DEF TouchesNothing, ListPage, tableVars
  <2> QED  BY <2>1, ChangesKeepDevices
<1>9. CASE UNCHANGED vars
  <2>1. TouchesNothing /\ UNCHANGED timelineVars
    BY <1>9 DEF TouchesNothing, vars
  <2> QED  BY <2>1, ChangesKeepDevices
<1> QED  BY <1>1, <1>2, <1>3, <1>4, <1>5, <1>6, <1>7, <1>8, <1>9 DEF Next
----------------------------------------------------------------------------
\* The requests

LEMMA PhaseAndJob ==
    ASSUME NEW r, Shaped(r), NEW p, NEW j
    PROVE  /\ [r EXCEPT !.phase = p].phase = p
           /\ [r EXCEPT !.phase = p, !.job = j].phase = p
           /\ [r EXCEPT !.phase = p, !.job = j].job = j
<1>1. PICK ph, caller, trusted, open, job : r = Record(ph, caller, trusted, open, job)
  BY DEF Shaped
<1>2. [Record(ph, caller, trusted, open, job) EXCEPT !.phase = p] = Record(p, caller, trusted, open, job)
  BY DEF Record
<1>3. [Record(p, caller, trusted, open, job) EXCEPT !.job = j] = Record(p, caller, trusted, open, j)
  BY DEF Record
<1>4. /\ Record(p, caller, trusted, open, job).phase = p
      /\ Record(p, caller, trusted, open, j).phase = p
      /\ Record(p, caller, trusted, open, j).job = j
  BY DEF Record
<1> QED  BY <1>1, <1>2, <1>3, <1>4

\* What a PATCH holds stays true of the row it read until that is written.
LEMMA JobSurvives ==
    ASSUME TablesOK, NEW r, JobOK(r, devices, writes),
           TouchesNothing \/ \E id \in Ids, row \in ValidRows \cup {NoRow} : Touches(id, row)
    PROVE  JobOK(r, devices', writes')
<1>1. CASE TouchesNothing
  BY <1>1 DEF TouchesNothing
<1>2. ASSUME NEW id \in Ids, NEW row \in ValidRows \cup {NoRow}, Touches(id, row)
      PROVE  JobOK(r, devices', writes')
  <2>1. \A i \in Ids : /\ writes[i] \in Nat /\ writes'[i] \in Nat
                       /\ i # id => writes'[i] = writes[i] /\ devices'[i] = devices[i]
                       /\ i = id => writes'[i] = writes[i] + 1
    BY <1>2 DEF Touches, TablesOK
  <2> QED  BY <2>1 DEF JobOK
<1> QED  BY <1>1, <1>2

LEMMA RequestMovesJobs ==
    ASSUME Inv, DataInv, NEW c \in Clients, NEW r, Becomes(c, r),
           TouchesNothing \/ \E id \in Ids, row \in ValidRows \cup {NoRow} : Touches(id, row),
           JobOK(r, devices', writes')
    PROVE  \A d \in Clients : JobOK(request'[d], devices', writes')
<1>1. \A d \in Clients : request'[d] = IF d = c THEN r ELSE request[d]
  BY DEF Inv, Becomes
<1>2. ASSUME NEW d \in Clients
      PROVE  JobOK(request[d], devices', writes')
  <2>1. TablesOK /\ JobOK(request[d], devices, writes)
    BY DEF DataInv, RequestsOK
  <2>2. ASSUME NEW q, JobOK(q, devices, writes)
        PROVE  JobOK(q, devices', writes')
    BY <2>1, <2>2, JobSurvives
  <2> QED  BY <2>1, <2>2
<1> QED  BY <1>1, <1>2

LEMMA IdleJob ==
    ASSUME NEW table, NEW count
    PROVE  JobOK(Idle, table, count)
BY DEF JobOK, Idle, Phases

LEMMA EndsKeepsJobs ==
    ASSUME Inv, DataInv, NEW c \in Clients, Ends(c),
           TouchesNothing \/ \E id \in Ids, row \in ValidRows \cup {NoRow} : Touches(id, row)
    PROVE  \A d \in Clients : JobOK(request'[d], devices', writes')
BY IdleJob, RequestMovesJobs DEF Ends

LEMMA GateKeepsJobs ==
    ASSUME Inv, DataInv, NEW c \in Clients, Arrive(c) \/ Count(c) \/ Validate(c)
    PROVE  \A d \in Clients : JobOK(request'[d], devices', writes')
<1>1. TouchesNothing
  BY DEF TouchesNothing, Arrive, Count, Validate, tableVars
<1>2. ASSUME NEW r, Becomes(c, r), r.phase \in {"count", "handle", "validate"}
      PROVE  \A d \in Clients : JobOK(request'[d], devices', writes')
  <2>1. JobOK(r, devices', writes')
    BY <1>2 DEF JobOK, Phases
  <2> QED  BY <1>1, <1>2, <2>1, RequestMovesJobs
<1>3. CASE Arrive(c)
  <2>1. PICK caller \in workload.callers :
            Becomes(c, [phase |-> "count", caller |-> caller,
                        trusted |-> caller.bearer \in LiveTokens, open |-> LiveTokens = {}, job |-> <<>>])
    BY <1>3 DEF Arrive
  <2> QED  BY <1>2, <2>1
<1>4. CASE Count(c) \/ Validate(c)
  <2>1. Shaped(request[c])
    BY <1>4 DEF Count, Validate, Idle, Inv, Admitted
  <2>2. \/ Ends(c)
        \/ \E p \in {"handle", "validate"} : Becomes(c, [request[c] EXCEPT !.phase = p])
    BY <1>4 DEF Count, Validate, Ends
  <2>3. ASSUME NEW p \in {"handle", "validate"}, Becomes(c, [request[c] EXCEPT !.phase = p])
        PROVE  \A d \in Clients : JobOK(request'[d], devices', writes')
    <3> DEFINE next == [request[c] EXCEPT !.phase = p]
    <3>1. next.phase = p /\ Becomes(c, next)
      BY <2>1, <2>3, PhaseAndJob
    <3> HIDE DEF next
    <3> QED  BY <1>2, <3>1
  <2> QED  BY <1>1, <2>2, <2>3, EndsKeepsJobs
<1> QED  BY <1>3, <1>4

LEMMA PatchReadKeepsJobs ==
    ASSUME Inv, DataInv, NEW c \in Clients, NEW id \in Ids, PatchRead(c, id)
    PROVE  \A d \in Clients : JobOK(request'[d], devices', writes')
<1>1. PICK body \in [vendor : Maybe({"auto"}), type : Maybe(Types), config : Maybe(SentConfigs(c))] :
          LET row == Patched(devices[id], body)
          IN  /\ Valid(row.type, row.config)
              /\ Becomes(c, [request[c] EXCEPT !.phase = "update",
                            !.job = [id |-> id, row |-> Sealed(row), body |-> body, version |-> writes[id]]])
  BY DEF PatchRead
<1> DEFINE row == Patched(devices[id], body)
           job == [id |-> id, row |-> Sealed(row), body |-> body, version |-> writes[id]]
           next == [request[c] EXCEPT !.phase = "update", !.job = job]
<1>2. body \in Bodies
  <2>1. SentConfigs(c) \subseteq Configs
    BY SentConfigsType DEF DataInv, RequestsOK
  <2>2. Maybe(SentConfigs(c)) \subseteq Maybe(Configs)
    BY <2>1 DEF Maybe
  <2> QED  BY <2>2 DEF Bodies
<1>3. devices[id] \in ValidRows /\ devices[id] # NoRow
  BY DEF PatchRead, Exists, DataInv, TablesOK
<1>4. row \in Rows /\ Valid(row.type, row.config)
  BY <1>1, <1>2, <1>3, PatchedRow DEF ValidRows
<1>5. Sealed(row) \in ValidRows
  <2> HIDE DEF row
  <2> QED  BY <1>4, SealedRow
<1>6. TouchesNothing
  BY DEF PatchRead, TouchesNothing, tableVars
<1>7. next.phase = "update" /\ next.job = job
  <2>1. Shaped(request[c])
    BY DEF PatchRead, Handles, Idle, Inv, Admitted
  <2> HIDE DEF job
  <2> QED  BY <2>1, PhaseAndJob
<1>8. /\ job.id = id /\ job.row = Sealed(row) /\ job.body = body /\ job.version = writes[id]
      /\ writes[id] \in Nat
  BY DEF DataInv, TablesOK
<1>9. Becomes(c, next)
  BY <1>1
<1> HIDE DEF next, job
<1>10. JobOK(next, devices', writes')
  BY <1>2, <1>3, <1>5, <1>6, <1>7, <1>8 DEF JobOK, Phases, TouchesNothing, row
<1> QED  BY <1>6, <1>9, <1>10, RequestMovesJobs

LEMMA SnapshotKeepsJobs ==
    ASSUME Inv, DataInv, NEW c \in Clients, NEW id \in Ids, Snapshot(c, id)
    PROVE  clock' \in 0 .. Len(Stamps) /\ \A d \in Clients : JobOK(request'[d], devices', writes')
<1>1. clock + 1 \in 1 .. Len(Stamps) /\ clock' = clock + 1 /\ Stamps[clock + 1] \in Seq(0 .. 9)
  BY TimelineAssumption DEF Snapshot, DataInv, RequestsOK
<1> DEFINE job == [id |-> id, stamp |-> Stamps[clock + 1]]
           next == [request[c] EXCEPT !.phase = "record", !.job = job]
<1>2. next.phase = "record" /\ next.job = job
  <2>1. Shaped(request[c])
    BY DEF Snapshot, Handles, Idle, Inv, Admitted
  <2> HIDE DEF job
  <2> QED  BY <2>1, PhaseAndJob
<1>3. job.id = id /\ job.stamp \in Seq(0 .. 9)
  BY <1>1
<1>4. Becomes(c, next) /\ TouchesNothing
  BY DEF Snapshot, TouchesNothing, tableVars
<1> HIDE DEF next, job
<1>5. JobOK(next, devices', writes')
  BY <1>2, <1>3 DEF JobOK, Phases
<1> QED  BY <1>1, <1>4, <1>5, RequestMovesJobs

LEMMA SetTokenKeepsJobs ==
    ASSUME Inv, DataInv, NEW t \in Tokens, NEW from, NEW to \in {"live", "deleted"}, SetToken(t, from, to)
    PROVE  /\ token' \in [Tokens -> {"new", "live", "deleted"}]
           /\ \A d \in Clients : JobOK(request'[d], devices', writes')
<1>1. token' \in [Tokens -> {"new", "live", "deleted"}]
  BY DEF SetToken, DataInv, RequestsOK
<1> DEFINE live == {u \in Tokens : token'[u] = "live"}
<1>2. \A d \in Clients : request'[d] = IF request[d] = Idle THEN Idle
                                       ELSE [request[d] EXCEPT !.trusted = @ \/ request[d].caller.bearer \in live,
                                                               !.open = @ \/ live = {}]
  BY DEF SetToken
<1> HIDE DEF live
<1>3. ASSUME NEW r, Shaped(r), NEW a, NEW b
      PROVE  /\ [r EXCEPT !.trusted = a, !.open = b].phase = r.phase
             /\ [r EXCEPT !.trusted = a, !.open = b].job = r.job
  <2>1. PICK ph, caller, trusted, open, job : r = Record(ph, caller, trusted, open, job)
    BY <1>3 DEF Shaped
  <2>2. [Record(ph, caller, trusted, open, job) EXCEPT !.trusted = a] = Record(ph, caller, a, open, job)
    BY DEF Record
  <2>3. [Record(ph, caller, a, open, job) EXCEPT !.open = b] = Record(ph, caller, a, b, job)
    BY DEF Record
  <2>4. r.phase = ph /\ r.job = job /\ Record(ph, caller, a, b, job).phase = ph
        /\ Record(ph, caller, a, b, job).job = job
    BY <2>1 DEF Record
  <2> QED  BY <2>1, <2>2, <2>3, <2>4
<1>4. ASSUME NEW d \in Clients
      PROVE  JobOK(request'[d], devices', writes')
  <2>1. UNCHANGED <<devices, writes>>
    BY DEF SetToken, tableVars
  <2>2. JobOK(request[d], devices', writes')
    BY <2>1 DEF DataInv, RequestsOK
  <2>3. CASE request[d] = Idle
    BY <1>2, <2>2, <2>3
  <2>4. CASE request[d] # Idle
    <3>1. Shaped(request[d])
      BY <2>4 DEF Inv, Admitted
    <3> DEFINE a == request[d].trusted \/ request[d].caller.bearer \in live
               b == request[d].open \/ live = {}
    <3>2. request'[d] = [request[d] EXCEPT !.trusted = a, !.open = b]
      BY <1>2, <2>4, Zenon
    <3> HIDE DEF a, b
    <3>3. request'[d].phase = request[d].phase /\ request'[d].job = request[d].job
      BY <1>3, <3>1, <3>2
    <3> QED  BY <2>2, <3>3 DEF JobOK
  <2> QED  BY <2>3, <2>4
<1> QED  BY <1>1, <1>4

LEMMA RequestsKept ==
    ASSUME Inv, DataInv, [Next]_vars
    PROVE  RequestsOK'
<1>0. RequestsOK
  BY DEF DataInv
<1>1. ASSUME NEW c \in Clients, Arrive(c) \/ Count(c) \/ Validate(c)
      PROVE  RequestsOK'
  <2>1. UNCHANGED <<token, clock, view>>
    BY <1>1 DEF Arrive, Count, Validate, clientVars
  <2> QED  BY <1>0, <1>1, <2>1, GateKeepsJobs DEF RequestsOK
<1>2. ASSUME NEW c \in Clients, NEW id \in Ids,
             CreateDevice(c, id) \/ DeleteDevice(c, id)
      PROVE  RequestsOK'
  <2>1. UNCHANGED <<token, clock, view>> /\ Ends(c)
    BY <1>2 DEF CreateDevice, DeleteDevice, clientVars
  <2>2. TouchesNothing \/ \E i \in Ids, row \in ValidRows \cup {NoRow} : Touches(i, row)
    BY <1>2, CreateTouches, DeleteTouches
  <2> QED  BY <1>0, <2>1, <2>2, EndsKeepsJobs DEF RequestsOK
<1>3. ASSUME NEW c \in Clients, NEW id \in Ids, GetDevice(c, id)
      PROVE  RequestsOK'
  <2>1. devices[id] \in Rows
    BY <1>3 DEF GetDevice, Exists, DataInv, TablesOK, ValidRows
  <2>2. view' = [view EXCEPT ![c] = [devices[id] EXCEPT !.config = RedactConfig(devices[id].type, devices[id].config)]]
    BY <1>3, <2>1 DEF GetDevice, Rows
  <2>3. view' \in [Clients -> Rows \cup {NoRow}]
    BY <1>0, <2>1, <2>2, RedactedRow DEF RequestsOK
  <2>4. Ends(c) /\ TouchesNothing /\ UNCHANGED <<token, clock>>
    BY <1>3 DEF GetDevice, TouchesNothing, tableVars
  <2> QED  BY <1>0, <2>3, <2>4, EndsKeepsJobs DEF RequestsOK
<1>4. ASSUME NEW c \in Clients, NEW id \in Ids, PatchRead(c, id)
      PROVE  RequestsOK'
  BY <1>0, <1>4, PatchReadKeepsJobs DEF RequestsOK, PatchRead, clientVars
<1>5. ASSUME NEW c \in Clients, NEW id \in Ids, Snapshot(c, id)
      PROVE  RequestsOK'
  BY <1>0, <1>5, SnapshotKeepsJobs DEF RequestsOK, Snapshot, clientVars
<1>6. ASSUME NEW t \in Tokens, CreateToken(t) \/ DeleteToken(t)
      PROVE  RequestsOK'
  <2>1. UNCHANGED <<clock, view>>
    BY <1>6 DEF CreateToken, DeleteToken, SetToken, clientVars
  <2>2. \E from, to : to \in {"live", "deleted"} /\ SetToken(t, from, to)
    BY <1>6 DEF CreateToken, DeleteToken
  <2> QED  BY <1>0, <2>1, <2>2, SetTokenKeepsJobs DEF RequestsOK
<1>7. CASE UNCHANGED vars
  BY <1>0, <1>7 DEF vars, RequestsOK
<1>8. ASSUME NEW c \in Clients, Fails(c) \/ RecordChange(c) \/ ListPage(c) \/ PatchWrite(c)
      PROVE  RequestsOK'
  <2>1. UNCHANGED <<token, clock, view>> /\ Ends(c)
    BY <1>8 DEF Fails, RecordChange, ListPage, PatchWrite, clientVars
  <2>2. TouchesNothing \/ \E i \in Ids, row \in ValidRows \cup {NoRow} : Touches(i, row)
    BY <1>8, PatchTouches DEF Fails, RecordChange, ListPage, TouchesNothing, tableVars
  <2> QED  BY <1>0, <2>1, <2>2, EndsKeepsJobs DEF RequestsOK
<1> QED  BY <1>1, <1>2, <1>3, <1>4, <1>5, <1>6, <1>7, <1>8 DEF Next
----------------------------------------------------------------------------
\* The walks

LEMMA MatchingKept ==
    ASSUME DataInv, NEW min
    PROVE  WellKept(Matching(min)) /\ Matching(min) \subseteq ChangeRows
<1>1. Matching(min) \in SUBSET changes
  BY DEF Matching
<1>2. IsFiniteSet(Matching(min))
  BY <1>1, FS_Subset DEF DataInv, TablesOK
<1> QED  BY <1>1, <1>2 DEF DataInv, TablesOK, WellKept, ChangeRows

\* The ladder of the query lists the severities the documentation ranks.
LEMMA LadderIsRank ==
    ASSUME NEW min \in Severities, NEW severity \in Severities
    PROVE  AtLeast(severity, min) <=> severity \in Allowed(min)
<1>1. SeverityRank("none") = 0
  BY DEF SeverityRank
<1>2. SeverityRank("high") = 3
  <2> DEFINE I == {i \in 1 .. Len(Ladder) : Ladder[i] = "high"}
  <2>1. I = {3}
    BY DEF Ladder
  <2>2. SelectInSeq(Ladder, LAMBDA x : x = "high") = IF I # {} THEN Min(I) ELSE 0
    BY DEF SelectInSeq
  <2>3. Min({3}) = 3
    BY MinIsLeast
  <2> QED  BY <2>1, <2>2, <2>3 DEF SeverityRank
<1>3. Allowed("none") = {"none"} \cup ToSet(Ladder)
  BY <1>1 DEF Allowed
<1>4. Allowed("high") = {"high"}
  BY <1>2 DEF Allowed, Ladder
<1>5. ToSet(Ladder) = {"low", "medium", "high"}
  BY DEF ToSet, Ladder
<1> QED  BY <1>3, <1>4, <1>5 DEF AtLeast, Severities

\* New rows: a row that is not met yet is not pushed below the offset.
LEMMA InsertKeepsWalk ==
    ASSUME NEW w \in Walks, NEW rows, NEW more, rows \subseteq more, WellKept(more), WalkOK(w, rows)
    PROVE  [w EXCEPT !.grown = TRUE] \in Walks /\ WalkOK([w EXCEPT !.grown = TRUE], more)
<1> DEFINE next == [w EXCEPT !.grown = TRUE]
<1>1. /\ next \in Walks /\ next.grown = TRUE
      /\ next.cut = w.cut /\ next.done = w.done /\ next.start = w.start /\ next.got = w.got
      /\ next.offset = w.offset /\ w.offset \in Nat
  BY DEF Walks
<1> HIDE DEF next
<1>2. ASSUME OnTheWay(w, rows)
      PROVE  OnTheWay(next, more)
  <2>1. \A r \in rows : Place(r, more) <= w.offset => Place(r, rows) <= w.offset
    BY <1>1, PlacesOnlyGrow, PlaceType
  <2> QED  BY <1>1, <1>2, <2>1 DEF OnTheWay
<1>3. Arrived(w) => Arrived(next)
  BY <1>1 DEF Arrived
<1> QED  BY <1>1, <1>2, <1>3 DEF WalkOK, next

LEMMA CutWalk ==
    ASSUME NEW w \in Walks, NEW rows
    PROVE  [w EXCEPT !.cut = TRUE] \in Walks /\ WalkOK([w EXCEPT !.cut = TRUE], rows)
BY DEF Walks, WalkOK

\* One page on.
LEMMA PageKeepsWalk ==
    ASSUME DataInv, NEW w \in Walks, ~w.cut => OnTheWay(w, Matching(w.min)), NEW size \in Nat
    PROVE  LET page == ListChanges(w.min, size, Offset(w.offset))
               next == [w EXCEPT !.got = w.got \o page, !.offset = w.offset + size, !.done = Len(page) < size]
           IN  next \in Walks /\ next.min = w.min /\ WalkOK(next, Matching(w.min))
<1> DEFINE rows == Matching(w.min)
           page == ListChanges(w.min, size, Offset(w.offset))
           total == Cardinality(rows)
           next == [w EXCEPT !.got = w.got \o page, !.offset = w.offset + size, !.done = Len(page) < size]
<1>1. w.offset \in Nat /\ Offset(w.offset) = w.offset
  <2>1. w.offset \in Nat
    BY DEF Walks
  <2>2. \A x \in {w.offset, 0} : w.offset >= x
    BY <2>1
  <2>3. Offset(w.offset) \in {w.offset, 0} /\ \A x \in {w.offset, 0} : Offset(w.offset) >= x
    BY <2>2 DEF Offset, Max
  <2> QED  BY <2>1, <2>3
<1>2. /\ WellKept(rows) /\ rows \subseteq ChangeRows
      /\ total \in Nat /\ page \in Seq(rows)
      /\ Len(page) = IF total <= w.offset THEN 0 ELSE IF total <= w.offset + size THEN total - w.offset ELSE size
      /\ \A r \in rows : Place(r, rows) \in w.offset + 1 .. w.offset + size => \E i \in DOMAIN page : page[i] = r
  <2>1. WellKept(rows) /\ rows \subseteq ChangeRows
    BY MatchingKept
  <2>2. page = ListChanges(w.min, size, w.offset)
    BY <1>1
  <2>3. PageIs(page, rows, size, w.offset)
    BY <1>1, <2>1, <2>2, PageHoldsItsPlaces
  <2> QED  BY <2>1, <2>3 DEF PageIs
<1> HIDE DEF rows, page, total
<1>3. page \in Seq(ChangeRows) /\ w.got \in Seq(ChangeRows) /\ Len(page) \in Nat /\ Len(w.got) \in Nat
  BY <1>2 DEF Walks
<1>4. /\ w.got \o page \in Seq(ChangeRows)
      /\ Len(w.got \o page) = Len(w.got) + Len(page)
      /\ ToSet(w.got) \subseteq ToSet(w.got \o page) /\ ToSet(page) \subseteq ToSet(w.got \o page)
  <2>1. \A i \in DOMAIN page : (w.got \o page)[Len(w.got) + i] = page[i] /\ Len(w.got) + i \in DOMAIN (w.got \o page)
    BY <1>3
  <2>2. \A i \in DOMAIN w.got : (w.got \o page)[i] = w.got[i] /\ i \in DOMAIN (w.got \o page)
    BY <1>3
  <2>3. w.got \o page \in Seq(ChangeRows) /\ Len(w.got \o page) = Len(w.got) + Len(page)
    BY <1>3
  <2> QED  BY <2>1, <2>2, <2>3 DEF ToSet
<1> DEFINE longer == w.got \o page
<1>5. /\ next.got = longer /\ next.offset = w.offset + size /\ next.done = (Len(page) < size)
      /\ next.cut = w.cut /\ next.grown = w.grown /\ next.start = w.start /\ next.min = w.min
      /\ next \in Walks
  <2>1. longer \in Seq(ChangeRows) /\ w.offset + size \in Nat /\ (Len(page) < size) \in BOOLEAN
    BY <1>1, <1>4
  <2> HIDE DEF longer
  <2>2. next = [w EXCEPT !.got = longer, !.offset = w.offset + size, !.done = Len(page) < size]
    BY DEF longer
  <2> HIDE DEF next
  <2> QED  BY <2>1, <2>2 DEF Walks
<1> HIDE DEF next
<1>6. ASSUME ~w.cut
      PROVE  IF next.done THEN Arrived(next) ELSE OnTheWay(next, rows)
  <2>1. /\ w.start \subseteq rows
        /\ \A r \in w.start : Place(r, rows) <= w.offset => r \in ToSet(w.got)
        /\ ~w.grown => w.start = rows /\ Len(w.got) = w.offset /\ w.offset <= total
    BY <1>6 DEF OnTheWay, rows, total
  <2>2. \A r \in rows : Place(r, rows) \in 1 .. total
    BY <1>2, PlaceType DEF total
  <2>3. ASSUME NEW r \in w.start, Place(r, rows) <= w.offset + size
        PROVE  r \in ToSet(longer)
    <3>1. CASE Place(r, rows) <= w.offset
      BY <1>4, <2>1, <3>1
    <3>2. CASE Place(r, rows) > w.offset
      <4>1. Place(r, rows) \in w.offset + 1 .. w.offset + size
        BY <1>1, <2>1, <2>2, <2>3, <3>2
      <4>2. r \in ToSet(page)
        BY <1>2, <2>1, <4>1 DEF ToSet
      <4> QED  BY <1>4, <4>2
    <3> QED  BY <1>1, <2>1, <2>2, <3>1, <3>2
  <2>4. CASE Len(page) < size
    <3>1. total < w.offset + size
      BY <1>1, <1>2, <2>4
    <3>2. w.start \subseteq ToSet(longer)
      BY <1>1, <1>2, <2>1, <2>2, <2>3, <3>1
    <3>3. ~w.grown => Len(longer) = Cardinality(w.start)
      BY <1>1, <1>2, <1>4, <2>1, <3>1 DEF total
    <3> QED  BY <1>5, <2>4, <3>2, <3>3 DEF Arrived
  <2>5. CASE ~(Len(page) < size)
    <3>1. Len(page) = size /\ (size # 0 => w.offset + size <= total)
      BY <1>1, <1>2, <2>5
    <3>2. ~w.grown => Len(longer) = w.offset + size /\ w.offset + size <= total
      BY <1>1, <1>2, <1>4, <2>1, <3>1
    <3> HIDE DEF longer
    <3> QED  BY <1>5, <2>1, <2>3, <2>5, <3>2 DEF OnTheWay, total
  <2> QED  BY <2>4, <2>5
<1> QED  BY <1>5, <1>6 DEF WalkOK, rows, page, next
\* A walk begins with all the rows of its severities ahead of it.
LEMMA FreshWalk ==
    ASSUME DataInv, NEW min \in Severities, NEW limit \in {0, MaxLimit + 1}
    PROVE  LET w == WalkFrom(FALSE, min, limit, {r \in changes : AtLeast(r.severity, min)})
           IN  w \in Walks /\ w.min = min /\ OnTheWay(w, Matching(min))
<1> DEFINE start == {r \in changes : AtLeast(r.severity, min)}
           w == WalkFrom(FALSE, min, limit, start)
<1>2. start = Matching(min) /\ start \subseteq ChangeRows
  <2>1. \A r \in changes : r \in ChangeRows /\ r.severity \in Severities
    BY DEF DataInv, TablesOK, ChangeRows
  <2>2. \A r \in changes : AtLeast(r.severity, min) <=> r.severity \in Allowed(min)
    BY <2>1, LadderIsRank
  <2> QED  BY <2>1, <2>2 DEF Matching
<1> HIDE DEF w, start
<1>3. /\ w.min = min /\ w.start = start /\ w.got = <<>> /\ w.offset = 0 /\ w.grown = FALSE
      /\ w \in Walks
  BY <1>2 DEF w, WalkFrom, Walks
<1>4. WellKept(Matching(min))
  BY MatchingKept
<1>5. \A r \in Matching(min) : ~(Place(r, Matching(min)) <= 0)
  BY <1>4, PlaceType
<1>6. Cardinality(Matching(min)) \in Nat
  BY <1>4, FS_CardinalityType DEF WellKept
<1>7. OnTheWay(w, Matching(min))
  BY <1>2, <1>3, <1>5, <1>6 DEF OnTheWay
<1> QED  BY <1>3, <1>7 DEF w, start

LEMMA PageSizeType ==
    ASSUME NEW limit \in {0, MaxLimit + 1}
    PROVE  PageSize(limit) \in Nat
BY TimelineAssumption, MinOfTwo DEF PageSize

LEMMA ListPageKeepsWalks ==
    ASSUME DataInv, NEW c \in Clients, ListPage(c)
    PROVE  WalksOK'
<1>1. PICK min \in Severities, limit \in {0, MaxLimit + 1} :
          LET w == IF walk[c].done
                   THEN WalkFrom(FALSE, min, limit, {r \in changes : AtLeast(r.severity, min)})
                   ELSE walk[c]
              size == PageSize(w.limit)
              page == ListChanges(w.min, size, Offset(w.offset))
          IN  walk' = [walk EXCEPT ![c] = [w EXCEPT !.got = @ \o page, !.offset = @ + size,
                                                    !.done = Len(page) < size]]
  BY DEF ListPage, Severities
<1> DEFINE w == IF walk[c].done
                THEN WalkFrom(FALSE, min, limit, {r \in changes : AtLeast(r.severity, min)})
                ELSE walk[c]
           size == PageSize(w.limit)
           page == ListChanges(w.min, size, Offset(w.offset))
           next == [w EXCEPT !.got = w.got \o page, !.offset = w.offset + size, !.done = Len(page) < size]
<1>2. w \in Walks /\ (~w.cut => OnTheWay(w, Matching(w.min)))
  <2>1. CASE walk[c].done
    BY <2>1, FreshWalk
  <2>2. CASE ~walk[c].done
    BY <2>2 DEF DataInv, WalksOK, WalkOK
  <2> QED  BY <2>1, <2>2
<1>3. walk' = [walk EXCEPT ![c] = next]
  <2>1. walk' = [walk EXCEPT ![c] = [w EXCEPT !.got = @ \o page, !.offset = @ + size, !.done = Len(page) < size]]
    BY <1>1
  <2> HIDE DEF w, size, page
  <2>2. [w EXCEPT !.got = @ \o page, !.offset = @ + size, !.done = Len(page) < size] = next
    BY <1>2 DEF Walks
  <2> QED  BY <2>1, <2>2
<1> HIDE DEF w
<1>4. size \in Nat
  <2>1. w.limit \in {0, MaxLimit + 1}
    BY <1>2 DEF Walks
  <2> QED  BY <2>1, PageSizeType
<1>5. next \in Walks /\ next.min = w.min /\ WalkOK(next, Matching(w.min))
  <2> HIDE DEF size
  <2> QED  BY <1>2, <1>4, PageKeepsWalk
<1> HIDE DEF next
<1>6. changes' = changes
  BY DEF ListPage, tableVars, timelineVars
<1>7. \A min_ : Matching(min_)' = Matching(min_)
  BY <1>6 DEF Matching
<1>8. ASSUME NEW d \in Clients
      PROVE  WalkOK(walk'[d], Matching(walk'[d].min))
  BY <1>3, <1>5 DEF DataInv, WalksOK
<1> QED  BY <1>3, <1>5, <1>6, <1>8 DEF DataInv, WalksOK, Matching

LEMMA WalksKept ==
    ASSUME Inv, DataInv, [Next]_vars
    PROVE  WalksOK'
<1>0. WalksOK
  BY DEF DataInv
<1>1. ASSUME UNCHANGED <<walk, changes>>
      PROVE  WalksOK'
  BY <1>0, <1>1 DEF WalksOK, Matching
<1>2. ASSUME NEW c \in Clients, Arrive(c) \/ Count(c) \/ Validate(c) \/ Fails(c) \/ PatchWrite(c)
      PROVE  WalksOK'
  <2>1. UNCHANGED <<walk, changes>>
    BY <1>2 DEF Arrive, Count, Validate, Fails, PatchWrite, clientVars, tableVars, timelineVars
  <2> QED  BY <1>1, <2>1
<1>3. ASSUME NEW t \in Tokens, CreateToken(t) \/ DeleteToken(t)
      PROVE  WalksOK'
  <2>1. UNCHANGED <<walk, changes>>
    BY <1>3 DEF CreateToken, DeleteToken, SetToken, clientVars, tableVars, timelineVars
  <2> QED  BY <1>1, <2>1
<1>4. ASSUME NEW c \in Clients, NEW id \in Ids,
             CreateDevice(c, id) \/ GetDevice(c, id) \/ PatchRead(c, id) \/ Snapshot(c, id)
      PROVE  WalksOK'
  <2>1. UNCHANGED <<walk, changes>>
    BY <1>4 DEF CreateDevice, GetDevice, PatchRead, Snapshot, clientVars, tableVars, timelineVars
  <2> QED  BY <1>1, <2>1
<1>5. ASSUME NEW c \in Clients, NEW id \in Ids, DeleteDevice(c, id)
      PROVE  WalksOK'
  <2>1. walk' = [d \in Clients |-> [walk[d] EXCEPT !.cut = TRUE]]
    BY <1>5 DEF DeleteDevice
  <2>2. \A d \in Clients : walk[d] \in Walks
    BY <1>0 DEF WalksOK
  <2>3. ASSUME NEW d \in Clients, NEW rows
        PROVE  [walk[d] EXCEPT !.cut = TRUE] \in Walks /\ WalkOK([walk[d] EXCEPT !.cut = TRUE], rows)
    BY <2>2, CutWalk
  <2> QED  BY <2>1, <2>3 DEF WalksOK
<1>6. ASSUME NEW c \in Clients, RecordChange(c)
      PROVE  WalksOK'
  <2>1. walk' = [d \in Clients |-> [walk[d] EXCEPT !.grown = TRUE]]
    BY <1>6 DEF RecordChange
  <2>2. TablesOK' /\ changes \subseteq changes'
    BY <1>6, RecordKeepsTables DEF DataInv
  <2>3. \A min : Matching(min) \subseteq Matching(min)'
    BY <2>2 DEF Matching
  <2>4. \A min : WellKept(Matching(min)')
    <3> TAKE min
    <3>1. Matching(min)' \in SUBSET changes'
      BY DEF Matching
    <3>2. IsFiniteSet(Matching(min)')
      BY <2>2, <3>1, FS_Subset DEF TablesOK
    <3> QED  BY <2>2, <3>1, <3>2 DEF TablesOK, WellKept, ChangeRows
  <2>5. ASSUME NEW d \in Clients
        PROVE  /\ [walk[d] EXCEPT !.grown = TRUE] \in Walks
               /\ [walk[d] EXCEPT !.grown = TRUE].min = walk[d].min
               /\ WalkOK([walk[d] EXCEPT !.grown = TRUE], {r \in changes' : r.severity \in Allowed(walk[d].min)})
    <3> DEFINE rows == Matching(walk[d].min)
               more == {r \in changes' : r.severity \in Allowed(walk[d].min)}
    <3>1. walk[d] \in Walks /\ WalkOK(walk[d], rows)
      BY <1>0 DEF WalksOK
    <3>2. rows \subseteq more /\ WellKept(more)
      BY <2>3, <2>4 DEF Matching
    <3> HIDE DEF rows, more
    <3>3. [walk[d] EXCEPT !.grown = TRUE] \in Walks /\ WalkOK([walk[d] EXCEPT !.grown = TRUE], more)
      BY <3>1, <3>2, InsertKeepsWalk
    <3> QED  BY <3>1, <3>3 DEF Walks, more
  <2> QED  BY <2>1, <2>5 DEF WalksOK, Matching
<1>7. ASSUME NEW c \in Clients, ListPage(c)
      PROVE  WalksOK'
  BY <1>7, ListPageKeepsWalks
<1>8. CASE UNCHANGED vars
  <2>1. UNCHANGED <<walk, changes>>
    BY <1>8 DEF vars, timelineVars
  <2> QED  BY <1>1, <2>1
<1> QED  BY <1>2, <1>3, <1>4, <1>5, <1>6, <1>7, <1>8 DEF Next
----------------------------------------------------------------------------
\* Theorems

\* The inductive invariant holds in every reachable state.
THEOREM Invariance == Spec => []Inv
  BY InitInv, NextInv, PTL DEF Spec

\* Counting the tokens and validating one are two statements, and tokens come
\* and go between them: still no handler runs for a caller who was never let in.
THEOREM DoorIsClosed == Spec => []DoorStaysClosed
<1>1. Inv => DoorStaysClosed
  BY DEF Inv, Admitted, Knows, LetIn, DoorStaysClosed, Idle
<1> QED  BY <1>1, Invariance, PTL


LEMMA InitData ==
    ASSUME Init
    PROVE  DataInv
<1>1. changes = {} /\ lastId = 0 /\ IsFiniteSet({})
  BY FS_EmptySet DEF Init, TimelineInit
<1>2. TablesOK
  <2> DEFINE config == [f \in {"path"} |-> Site]
  <2>1. config \in Configs
    <3>1. {"path"} \in SUBSET Fields
      BY DEF Fields
    <3>2. config = [f \in {"path"} |-> config[f]] /\ \A f \in {"path"} : config[f] \in Values
      BY TypedTexts
    <3> HIDE DEF config
    <3> QED  BY <3>1, <3>2, ConfigIsMap
  <2>2. Valid("file", config) /\ "file" \in Types
    BY DEF Valid, Required, Types
  <2> HIDE DEF config
  <2>3. NewRow("file", config) \in ValidRows
    BY <2>1, <2>2, NewRowType
  <2> QED  BY <1>1, <2>3 DEF Init, TablesOK, config
<1>3. RequestsOK
  <2>1. \A c \in Clients : JobOK(request[c], devices, writes)
    BY IdleJob DEF Init
  <2>2. Len(Stamps) \in Nat
    BY TimelineAssumption
  <2> QED  BY <2>1, <2>2 DEF Init, RequestsOK
<1>4. WalksOK
  <2>1. NoWalk \in Walks /\ NoWalk.start = {} /\ NoWalk.got = <<>> /\ NoWalk.done = TRUE
    BY DEF NoWalk, WalkFrom, Walks, Severities
  <2>2. Arrived(NoWalk)
    <3> HIDE DEF NoWalk
    <3> QED  BY <2>1, FS_EmptySet DEF Arrived
  <2>3. ASSUME NEW rows
        PROVE  WalkOK(NoWalk, rows)
    BY <2>1, <2>2 DEF WalkOK
  <2>4. walk = [c \in Clients |-> NoWalk]
    BY DEF Init
  <2> QED  BY <2>1, <2>3, <2>4 DEF WalksOK
<1> QED  BY <1>2, <1>3, <1>4 DEF DataInv

\* The tables, the requests under way and the walks stay as they should.
THEOREM DataInvariance == Spec => []DataInv
<1>1. Inv /\ DataInv /\ [Next]_vars => DataInv'
  BY TablesKept, RequestsKept, WalksKept DEF DataInv
<1> QED  BY <1>1, InitData, Invariance, PTL DEF Spec

\* Rows that can be stored, changes of devices that exist with ids given out,
\* requests in one of their phases.
THEOREM TypeCorrect == Spec => []TypeOK
<1>1. DataInv => TypeOK
  <2> SUFFICES ASSUME DataInv PROVE TypeOK
    OBVIOUS
  <2> USE DEF DataInv
  <2>1. ASSUME NEW id \in Ids, Exists(id)
        PROVE  /\ devices[id].type \in Types
               /\ Valid(devices[id].type, devices[id].config)
               /\ devices[id].vendor \in Vendors
    BY <2>1 DEF TablesOK, Exists, ValidRows, Rows
  <2>2. \A r \in changes : r.id \in 1 .. lastId /\ Exists(r.device)
    BY DEF TablesOK
  <2>3. \A c \in Clients : request[c].phase \in {"idle", "count", "validate", "handle", "update", "record"}
    BY DEF RequestsOK, JobOK, Phases
  <2> QED  BY <2>1, <2>2, <2>3 DEF TypeOK, RequestsOK
<1> QED  BY <1>1, DataInvariance, PTL

\* For any page size, any stamps and any rows inserted meanwhile: a walk that no
\* deletion cut has met every row it started with.
THEOREM WalkIsComplete == Spec => []WalkSeesAll
<1>1. DataInv => WalkSeesAll
  <2> SUFFICES ASSUME DataInv, NEW c \in Clients, walk[c].done /\ ~walk[c].cut
               PROVE  /\ walk[c].start \subseteq ToSet(walk[c].got)
                      /\ ~walk[c].grown => Len(walk[c].got) = Cardinality(walk[c].start)
    BY DEF WalkSeesAll
  <2>1. Arrived(walk[c])
    BY DEF DataInv, WalksOK, WalkOK
  <2> QED  BY <2>1 DEF Arrived
<1> QED  BY <1>1, DataInvariance, PTL

\* However often a row is read, sent back redacted, merged and sealed again, its
\* credentials open to what was last typed.
THEOREM SecretsSurvivePatches == Spec => PatchKeepsSecrets
<1>1. ASSUME DataInv, DataInv', NEW c \in Clients, PatchWrite(c),
             request[c].job.version = writes[request[c].job.id]
      PROVE  LET old == devices[request[c].job.id].config
                 new == devices'[request[c].job.id]
                 sent == request[c].job.body.config
             IN  \A f \in SensitiveFields(new.type) \cap DOMAIN new.config :
                     Opened(new.config[f]) =
                         IF \E s \in sent : s[f] # Redacted THEN (CHOOSE s \in sent : TRUE)[f].text
                         ELSE Opened(old[f])
  <2> DEFINE id == request[c].job.id
             body == request[c].job.body
             row == devices[id]
  <2>1. id \in Ids /\ body \in Bodies /\ row \in Rows
        /\ request[c].job.row = Sealed(Patched(row, body))
    BY <1>1, PatchTouches DEF DataInv, RequestsOK, TablesOK, JobOK, ValidRows
  <2>2. devices'[id] = Sealed(Patched(row, body))
    BY <1>1, <2>1, PatchTouches DEF Touches, DataInv, TablesOK
  <2> HIDE DEF id, body, row
  <2>3. \A f \in SensitiveFields(Sealed(Patched(row, body)).type) \cap DOMAIN Sealed(Patched(row, body)).config :
            Opened(Sealed(Patched(row, body)).config[f]) =
                IF \E s \in body.config : s[f] # Redacted THEN (CHOOSE s \in body.config : TRUE)[f].text
                ELSE Opened(row.config[f])
    BY <2>1, PatchOpens
  <2> QED  BY <2>2, <2>3 DEF id, body, row
<1>2. DataInv /\ DataInv' /\ [Next]_vars =>
        [\A c \in Clients : PatchWrite(c) /\ request[c].job.version = writes[request[c].job.id] =>
          LET old == devices[request[c].job.id].config
              new == devices'[request[c].job.id]
              sent == request[c].job.body.config
          IN  \A f \in SensitiveFields(new.type) \cap DOMAIN new.config :
                  Opened(new.config[f]) =
                      IF \E s \in sent : s[f] # Redacted THEN (CHOOSE s \in sent : TRUE)[f].text
                      ELSE Opened(old[f])]_vars
  BY <1>1
<1> QED  BY <1>2, DataInvariance, PTL DEF Spec, PatchKeepsSecrets

============================================================================
