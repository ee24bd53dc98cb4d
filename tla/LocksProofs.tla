---------------------------- MODULE LocksProofs -----------------------------
(***************************************************************************)
(* No goroutines wait for one another in a circle, however many requests   *)
(* are served.  Every goroutine takes its locks in an order: while main    *)
(* starts alone, the log before the graph; from then on, the graph before  *)
(* the log; and those of the store and of the indexes last.                *)
(***************************************************************************)
EXTENDS Locks, SequenceLemmas

(***************************************************************************)
(* What a list of steps does.  A standing is what a goroutine holds, the   *)
(* locks it has written down as writer and as reader, and whether the log  *)
(* is attached, as far as main knows while it is alone.                    *)
(***************************************************************************)

Dos == {"Lock", "Enter", "Unlock", "RLock", "RUnlock", "Log", "Attach", "Detach"}
Steps == [do : Dos, lock : LockNames]
Standings == [w : SUBSET LockNames, r : SUBSET LockNames, att : BOOLEAN]
Modes == {"alone", "serving"}

Level(mode, l) ==
    IF l = "g" THEN IF mode = "alone" THEN 2 ELSE 1
    ELSE IF l = "w" THEN IF mode = "alone" THEN 1 ELSE 2
    ELSE 3

Below(mode, held, l) == \A k \in held : Level(mode, k) < Level(mode, l)

(* The step x leads from the standing s to the standing t, in the order.   *)
Leads(mode, s, x, t) ==
    \/ /\ x.do = "Lock" /\ Below(mode, s.w \cup s.r, x.lock)
       /\ t = [s EXCEPT !.w = @ \cup {x.lock}]
    \/ /\ x.do = "Enter" /\ x.lock \in s.w /\ Below(mode, (s.w \ {x.lock}) \cup s.r, x.lock)
       /\ t = s
    \/ /\ x.do = "Unlock" /\ x.lock \in s.w
       /\ t = [s EXCEPT !.w = @ \ {x.lock}]
    \/ /\ x.do = "RLock" /\ Below(mode, s.w \cup s.r, x.lock)
       /\ t = [s EXCEPT !.r = @ \cup {x.lock}]
    \/ /\ x.do = "RUnlock" /\ x.lock \in s.r
       /\ t = [s EXCEPT !.r = @ \ {x.lock}]
    \/ /\ x.do = "Log" /\ x.lock = "w"
       /\ IF mode = "alone" THEN ~s.att ELSE Below(mode, s.w \cup s.r, "w")
       /\ t = s
    \/ /\ x.do \in {"Attach", "Detach"}
       /\ t = IF mode = "alone" THEN [s EXCEPT !.att = (x.do = "Attach")] ELSE s

Path(h, mode, s, c, t) ==
    /\ h \in [0..Len(c) -> Standings]
    /\ h[0] = s /\ h[Len(c)] = t
    /\ \A i \in 1..Len(c) : Leads(mode, h[i - 1], c[i], h[i])

(* The steps of c, one after the other, lead from s to t. *)
Trip(mode, s, c, t) == c \in Seq(Steps) /\ \E h : Path(h, mode, s, c, t)

LEMMA TripNowhere ==
    ASSUME NEW mode, NEW s \in Standings
    PROVE  Trip(mode, s, <<>>, s)
<1>1. Path([i \in 0..0 |-> s], mode, s, <<>>, s)
  <2>1. [i \in 0..0 |-> s][0] = s /\ Len(<<>>) = 0 /\ 1..0 = {}
    OBVIOUS
  <2>. QED
    BY <2>1 DEF Path
<1>2. <<>> \in Seq(Steps)
  OBVIOUS
<1>. QED
  BY <1>1, <1>2 DEF Trip

LEMMA TripEnds ==
    ASSUME NEW mode, NEW s, NEW t, Trip(mode, s, <<>>, t)
    PROVE  s = t
  BY DEF Trip, Path

LEMMA TripOne ==
    ASSUME NEW mode, NEW s \in Standings, NEW t \in Standings,
           NEW x \in Steps, Leads(mode, s, x, t)
    PROVE  Trip(mode, s, <<x>>, t)
<1> DEFINE h == [i \in 0..1 |-> IF i = 0 THEN s ELSE t]
<1>1. Len(<<x>>) = 1 /\ <<x>>[1] = x /\ <<x>> \in Seq(Steps) /\ 1..1 = {1}
  OBVIOUS
<1>2. h \in [0..1 -> Standings] /\ h[0] = s /\ h[1] = t
  OBVIOUS
<1>. HIDE DEF h
<1>3. Path(h, mode, s, <<x>>, t)
  <2>1. \A i \in 1..1 : i = 1 /\ i - 1 = 0
    OBVIOUS
  <2>. QED
    BY <1>1, <1>2, <2>1 DEF Path
<1>. QED
  BY <1>1, <1>3 DEF Trip

LEMMA TripJoins ==
    ASSUME NEW mode, NEW s, NEW t, NEW u, NEW c, NEW d, Trip(mode, s, c, t), Trip(mode, t, d, u)
    PROVE  Trip(mode, s, c \o d, u)
<1>1. PICK f : Path(f, mode, s, c, t)
  BY DEF Trip
<1>2. PICK g : Path(g, mode, t, d, u)
  BY DEF Trip
<1> DEFINE m == Len(c)
           n == Len(d)
           h == [i \in 0..(m + n) |-> IF i =< m THEN f[i] ELSE g[i - m]]
<1>3. c \in Seq(Steps) /\ d \in Seq(Steps) /\ m \in Nat /\ n \in Nat
  BY DEF Trip
<1>4. /\ c \o d \in Seq(Steps) /\ Len(c \o d) = m + n
      /\ \A i \in 1..(m + n) : (c \o d)[i] = IF i <= m THEN c[i] ELSE d[i - m]
  BY <1>3, ConcatProperties
<1>5. /\ f \in [0..m -> Standings] /\ f[0] = s /\ f[m] = t
      /\ \A i \in 1..m : Leads(mode, f[i - 1], c[i], f[i])
  BY <1>1 DEF Path
<1>6. /\ g \in [0..n -> Standings] /\ g[0] = t /\ g[n] = u
      /\ \A i \in 1..n : Leads(mode, g[i - 1], d[i], g[i])
  BY <1>2 DEF Path
<1>. HIDE DEF m, n
<1>7. ASSUME NEW i \in 0..(m + n)
      PROVE  /\ i =< m => h[i] = f[i] /\ i \in 0..m
             /\ i >= m => h[i] = g[i - m] /\ i - m \in 0..n
  <2>1. h[i] = IF i =< m THEN f[i] ELSE g[i - m]
    OBVIOUS
  <2>2. CASE i < m
    BY <1>3, <2>1, <2>2
  <2>3. CASE i = m
    <3>1. i - m = 0
      BY <1>3, <2>3
    <3>. HIDE DEF h
    <3>. QED
      BY <1>3, <1>5, <1>6, <2>1, <2>3, <3>1
  <2>4. CASE i > m
    BY <1>3, <2>1, <2>4
  <2>. QED
    BY <1>3, <2>2, <2>3, <2>4
<1>8. h = [i \in 0..(m + n) |-> h[i]]
  OBVIOUS
<1>. HIDE DEF h
<1>9. h \in [0..(m + n) -> Standings]
  <2>1. ASSUME NEW i \in 0..(m + n)
        PROVE  h[i] \in Standings
    BY <1>3, <1>5, <1>6, <1>7
  <2>. QED
    BY <1>8, <2>1
<1>10. h[0] = s /\ h[m + n] = u
  <2>1. 0 \in 0..(m + n) /\ m + n \in 0..(m + n) /\ 0 =< m /\ m + n >= m /\ (m + n) - m = n
    BY <1>3
  <2>. QED
    BY <1>5, <1>6, <1>7, <2>1
<1>11. ASSUME NEW i \in 1..(m + n)
       PROVE  Leads(mode, h[i - 1], (c \o d)[i], h[i])
  <2>1. i \in 0..(m + n) /\ i - 1 \in 0..(m + n)
    BY <1>3
  <2>2. CASE i =< m
    <3>1. i \in 1..m /\ i - 1 =< m /\ (c \o d)[i] = c[i]
      BY <1>3, <1>4, <2>2
    <3>2. h[i] = f[i] /\ h[i - 1] = f[i - 1]
      BY <1>7, <2>1, <2>2, <3>1
    <3>. QED
      BY <1>5, <3>1, <3>2
  <2>3. CASE i > m
    <3>1. /\ i - m \in 1..n /\ i >= m /\ i - 1 >= m /\ (c \o d)[i] = d[i - m]
          /\ (i - 1) - m = (i - m) - 1
      BY <1>3, <1>4, <2>3
    <3>2. h[i] = g[i - m] /\ h[i - 1] = g[(i - m) - 1]
      BY <1>7, <2>1, <3>1
    <3>. QED
      BY <1>6, <3>1, <3>2
  <2>4. i =< m \/ i > m
    BY <1>3
  <2>. QED
    BY <2>2, <2>3, <2>4
<1>12. Path(h, mode, s, c \o d, u)
  BY <1>4, <1>9, <1>10, <1>11 DEF Path
<1>. QED
  BY <1>4, <1>12 DEF Trip

LEMMA TripStarts ==
    ASSUME NEW mode, NEW s, NEW t, NEW c, Trip(mode, s, c, t), c # <<>>
    PROVE  /\ Head(c) \in Steps /\ s \in Standings
           /\ \E m \in Standings : Leads(mode, s, Head(c), m) /\ Trip(mode, m, Tail(c), t)
<1>1. PICK h : Path(h, mode, s, c, t)
  BY DEF Trip
<1>2. c \in Seq(Steps) /\ Len(c) \in Nat /\ Len(c) # 0
  BY DEF Trip
<1>3. /\ Tail(c) \in Seq(Steps) /\ Len(Tail(c)) = Len(c) - 1
      /\ \A i \in 1..(Len(c) - 1) : Tail(c)[i] = c[i + 1]
      /\ Head(c) = c[1] /\ Head(c) \in Steps
  BY <1>2, HeadTailProperties
<1>4. /\ h \in [0..Len(c) -> Standings] /\ h[0] = s /\ h[Len(c)] = t
      /\ \A i \in 1..Len(c) : Leads(mode, h[i - 1], c[i], h[i])
  BY <1>1 DEF Path
<1> DEFINE n == Len(c) - 1
           rest == [i \in 0..n |-> h[i + 1]]
<1>5. 0 \in 0..Len(c) /\ 1 \in 1..Len(c) /\ 1 \in 0..Len(c) /\ 1 - 1 = 0 /\ n \in Nat
  BY <1>2
<1>6. Leads(mode, s, Head(c), h[1]) /\ h[1] \in Standings /\ s \in Standings
  BY <1>3, <1>4, <1>5
<1>7. \A i \in 0..n : rest[i] = h[i + 1] /\ i + 1 \in 0..Len(c)
  BY <1>2
<1>8. rest \in [0..n -> Standings]
  BY <1>4, <1>7
<1>9. rest[0] = h[1] /\ rest[n] = t
  BY <1>4, <1>5, <1>7
<1>. HIDE DEF rest
<1>10. ASSUME NEW i \in 1..n
       PROVE  Leads(mode, rest[i - 1], Tail(c)[i], rest[i])
  <2>1. i \in 0..n /\ i - 1 \in 0..n /\ (i - 1) + 1 = i /\ i + 1 \in 1..Len(c) /\ (i + 1) - 1 = i
    BY <1>2
  <2>2. rest[i - 1] = h[i] /\ rest[i] = h[i + 1] /\ Tail(c)[i] = c[i + 1]
    BY <1>3, <1>7, <2>1
  <2>. QED
    BY <1>4, <2>1, <2>2
<1>11. Path(rest, mode, h[1], Tail(c), t)
  BY <1>3, <1>8, <1>9, <1>10 DEF Path
<1>. QED
  BY <1>3, <1>6, <1>11 DEF Trip


(***************************************************************************)
(* The programs of the goroutines.                                         *)
(***************************************************************************)

LEMMA TripStep ==
    ASSUME NEW mode, NEW s \in Standings, NEW t \in Standings,
           NEW do \in Dos, NEW l \in LockNames, Leads(mode, s, [do |-> do, lock |-> l], t)
    PROVE  Trip(mode, s, Step(do, l), t)
<1>1. [do |-> do, lock |-> l] \in Steps
  BY DEF Steps
<1>. QED
  BY <1>1, TripOne DEF Step

With(s, l) == [s EXCEPT !.w = @ \cup {l}]
Within(s, l) == [s EXCEPT !.r = @ \cup {l}]

LEMMA TripHolding ==
    ASSUME NEW mode, NEW s \in Standings, NEW t \in Standings, NEW l \in LockNames, NEW body,
           Below(mode, s.w \cup s.r, l), l \notin t.w,
           Trip(mode, With(s, l), body, With(t, l))
    PROVE  Trip(mode, s, Holding(l, body), t)
<1>1. With(s, l) \in Standings /\ With(t, l) \in Standings
  BY DEF With, Standings
<1>2. Trip(mode, s, Step("Lock", l), With(s, l))
  <2>1. Leads(mode, s, [do |-> "Lock", lock |-> l], With(s, l))
    BY DEF Leads, With
  <2>. QED
    BY <1>1, <2>1, TripStep DEF Dos
<1>3. Trip(mode, With(t, l), Step("Unlock", l), t)
  <2>1. l \in With(t, l).w /\ [With(t, l) EXCEPT !.w = @ \ {l}] = t
    BY DEF With, Standings
  <2>2. Leads(mode, With(t, l), [do |-> "Unlock", lock |-> l], t)
    BY <2>1 DEF Leads
  <2>. QED
    BY <1>1, <2>2, TripStep DEF Dos
<1>4. Trip(mode, s, Step("Lock", l) \o body, With(t, l))
  BY <1>2, TripJoins
<1>5. Trip(mode, s, (Step("Lock", l) \o body) \o Step("Unlock", l), t)
  BY <1>3, <1>4, TripJoins
<1>. QED
  BY <1>5 DEF Holding

LEMMA TripSharing ==
    ASSUME NEW mode, NEW s \in Standings, NEW t \in Standings, NEW l \in LockNames, NEW body,
           Below(mode, s.w \cup s.r, l), l \notin t.r,
           Trip(mode, Within(s, l), body, Within(t, l))
    PROVE  Trip(mode, s, Sharing(l, body), t)
<1>1. Within(s, l) \in Standings /\ Within(t, l) \in Standings
  BY DEF Within, Standings
<1>2. Trip(mode, s, Step("RLock", l), Within(s, l))
  <2>1. Leads(mode, s, [do |-> "RLock", lock |-> l], Within(s, l))
    BY DEF Leads, Within
  <2>. QED
    BY <1>1, <2>1, TripStep DEF Dos
<1>3. Trip(mode, Within(t, l), Step("RUnlock", l), t)
  <2>1. l \in Within(t, l).r /\ [Within(t, l) EXCEPT !.r = @ \ {l}] = t
    BY DEF Within, Standings
  <2>2. Leads(mode, Within(t, l), [do |-> "RUnlock", lock |-> l], t)
    BY <2>1 DEF Leads
  <2>. QED
    BY <1>1, <2>2, TripStep DEF Dos
<1>4. Trip(mode, s, Step("RLock", l) \o body, Within(t, l))
  BY <1>2, TripJoins
<1>5. Trip(mode, s, (Step("RLock", l) \o body) \o Step("RUnlock", l), t)
  BY <1>3, <1>4, TripJoins
<1>. QED
  BY <1>5 DEF Sharing

(* The locks of the store and of the indexes can be taken whatever else is *)
(* held, the graph wherever only the log of a start is held.               *)
LEMMA LeavesTrip ==
    ASSUME NEW mode \in Modes, NEW s \in Standings, s.w \cup s.r \subseteq {"g", "w"}
    PROVE  /\ Trip(mode, s, UseStore, s) /\ Trip(mode, s, UseIndex, s) /\ Trip(mode, s, Lookup, s)
           /\ Trip(mode, s, Sharing("store", <<>>), s)
<1>1. /\ Below(mode, s.w \cup s.r, "store") /\ Below(mode, s.w \cup s.r, "index")
      /\ "store" \notin s.w \cup s.r /\ "index" \notin s.w \cup s.r
      /\ "store" \in LockNames /\ "index" \in LockNames
  BY DEF Below, Level, Modes, LockNames
<1>2. \A l \in LockNames : With(s, l) \in Standings /\ Within(s, l) \in Standings
  BY DEF With, Within, Standings
<1>3. \A l \in LockNames : /\ Trip(mode, With(s, l), <<>>, With(s, l))
                           /\ Trip(mode, Within(s, l), <<>>, Within(s, l))
  BY <1>2, TripNowhere
<1>4. Trip(mode, s, UseStore, s) /\ Trip(mode, s, UseIndex, s)
  BY <1>1, <1>3, TripHolding DEF UseStore, UseIndex
<1>5. Trip(mode, s, Lookup, s) /\ Trip(mode, s, Sharing("store", <<>>), s)
  BY <1>1, <1>3, TripSharing DEF Lookup
<1>. QED
  BY <1>4, <1>5

(* In which standings a program may take the lock of the graph.            *)
FreeOfGraph(mode, s) ==
    /\ s \in Standings /\ s.w \cup s.r \subseteq {"w"}
    /\ mode = "serving" => s.w \cup s.r = {}
    /\ mode = "alone" => ~s.att

LEMMA GraphTrips ==
    ASSUME NEW mode \in Modes, NEW s, FreeOfGraph(mode, s)
    PROVE  /\ Trip(mode, s, Mutator, s) /\ Trip(mode, s, Refused, s) /\ Trip(mode, s, RefusedByLog, s)
           /\ Trip(mode, s, Read, s) /\ Trip(mode, s, Rebuild, s) /\ Trip(mode, s, Replace, s)
<1> DEFINE held == With(s, "g")
           read == Within(s, "g")
<1>1. /\ s \in Standings /\ held \in Standings /\ read \in Standings /\ "g" \in LockNames /\ "w" \in LockNames
      /\ held.w \cup held.r \subseteq {"g", "w"} /\ read.w \cup read.r \subseteq {"g", "w"}
      /\ s.w \cup s.r \subseteq {"g", "w"} /\ "g" \notin s.w /\ "g" \notin s.r
  BY DEF FreeOfGraph, With, Within, Standings, LockNames
<1>2. Below(mode, s.w \cup s.r, "g")
  BY DEF FreeOfGraph, Below, Level, Modes
<1>3. /\ Trip(mode, held, UseStore, held) /\ Trip(mode, held, UseIndex, held)
      /\ Trip(mode, held, Sharing("store", <<>>), held)
      /\ Trip(mode, read, Sharing("store", <<>>), read)
      /\ Trip(mode, s, UseIndex, s)
  BY <1>1, LeavesTrip
<1>4. Trip(mode, held, Log, held)
  <2>1. IF mode = "alone" THEN ~held.att ELSE Below(mode, held.w \cup held.r, "w")
    BY DEF FreeOfGraph, With, Standings, Below, Level, Modes
  <2>2. Leads(mode, held, [do |-> "Log", lock |-> "w"], held)
    BY <2>1 DEF Leads
  <2>. QED
    BY <1>1, <2>2, TripStep DEF Log, Dos
<1>. HIDE DEF held, read
<1>5. Trip(mode, held, Sharing("store", <<>>) \o Log, held)
  BY <1>3, <1>4, TripJoins
<1>6. Trip(mode, held, ((Sharing("store", <<>>) \o Log) \o UseStore) \o UseIndex, held)
  BY <1>3, <1>5, TripJoins
<1>7. Trip(mode, s, Mutator, s) /\ Trip(mode, s, Refused, s) /\ Trip(mode, s, RefusedByLog, s)
      /\ Trip(mode, s, Replace, s)
  BY <1>1, <1>2, <1>3, <1>5, <1>6, TripHolding DEF Mutator, Refused, RefusedByLog, Replace, held
<1>8. Trip(mode, s, Read, s)
  BY <1>1, <1>2, <1>3, TripSharing DEF Read, read
<1>9. Trip(mode, s, Rebuild, s)
  BY <1>3, <1>8, TripJoins DEF Rebuild
<1>. QED
  BY <1>7, <1>8, <1>9

Free == [w |-> {}, r |-> {}, att |-> FALSE]

LEMMA LogTrip ==
    ASSUME NEW mode \in Modes, NEW body,
           Trip(mode, With(Free, "w"), body, With(Free, "w"))
    PROVE  Trip(mode, Free, Holding("w", body), Free)
<1>1. Free \in Standings /\ "w" \in LockNames /\ "w" \notin Free.w /\ Below(mode, Free.w \cup Free.r, "w")
  BY DEF Free, Standings, LockNames, Below
<1>. QED
  BY <1>1, TripHolding

(* Requests, saves and the stop begin and end without a lock; so does the  *)
(* start, which alone takes the lock of the log around that of the graph.  *)
LEMMA ProgramsTrip ==
    /\ \A handler \in Handlers : Trip("serving", Free, handler, Free)
    /\ Trip("serving", Free, Save, Free) /\ Trip("serving", Free, Stop, Free)
    /\ Trip("alone", Free, Start, [Free EXCEPT !.att = TRUE])
<1> DEFINE log == With(Free, "w")
           end == [Free EXCEPT !.att = TRUE]
<1>1. /\ Free \in Standings /\ log \in Standings /\ end \in Standings
      /\ "serving" \in Modes /\ "alone" \in Modes
      /\ "g" \in LockNames /\ "w" \in LockNames /\ "index" \in LockNames
  BY DEF Free, With, Standings, Modes, LockNames
<1>2. FreeOfGraph("serving", Free) /\ FreeOfGraph("alone", Free) /\ FreeOfGraph("alone", log)
  BY <1>1 DEF FreeOfGraph, Free, With
<1>3. Free.w \cup Free.r \subseteq {"g", "w"}
  BY DEF Free
<1>4. \A handler \in Handlers : Trip("serving", Free, handler, Free)
  <2>1. Trip("serving", Free, Lookup, Free)
    BY <1>1, <1>3, LeavesTrip
  <2>2. /\ Trip("serving", Free, Mutator, Free) /\ Trip("serving", Free, Refused, Free)
        /\ Trip("serving", Free, RefusedByLog, Free) /\ Trip("serving", Free, Read, Free)
        /\ Trip("serving", Free, Rebuild, Free) /\ Trip("serving", Free, Replace, Free)
    BY <1>1, <1>2, GraphTrips
  <2>3. Trip("serving", Free, (Lookup \o Read) \o Read, Free) /\ Trip("serving", Free, Replace \o Rebuild, Free)
    BY <2>1, <2>2, TripJoins
  <2>. QED
    BY <2>2, <2>3 DEF Handlers
<1>5. Trip("serving", Free, Save, Free)
  <2>1. Trip("serving", Free, Truncate, Free)
    BY <1>1, LogTrip, TripNowhere DEF Truncate
  <2>2. Trip("serving", Free, Read, Free)
    BY <1>1, <1>2, GraphTrips
  <2>. QED
    BY <2>1, <2>2, TripJoins DEF Save
<1>6. Trip("serving", Free, SetWAL("Detach"), Free)
  <2>1. Leads("serving", With(Free, "g"), [do |-> "Detach", lock |-> "g"], With(Free, "g"))
    BY DEF Leads
  <2>2. With(Free, "g") \in Standings
    BY <1>1 DEF With, Standings
  <2>3. Trip("serving", With(Free, "g"), Step("Detach", "g"), With(Free, "g"))
    BY <1>1, <2>1, <2>2, TripStep DEF Dos
  <2>4. Below("serving", Free.w \cup Free.r, "g") /\ "g" \notin Free.w
    BY DEF Below, Free
  <2>. QED
    BY <1>1, <2>3, <2>4, TripHolding DEF SetWAL
<1>7. Trip("alone", Free, SetWAL("Attach"), end)
  <2>1. Leads("alone", With(Free, "g"), [do |-> "Attach", lock |-> "g"], With(end, "g"))
    BY DEF Leads, With, Free
  <2>2. With(Free, "g") \in Standings /\ With(end, "g") \in Standings
    BY <1>1 DEF With, Standings
  <2>3. Trip("alone", With(Free, "g"), Step("Attach", "g"), With(end, "g"))
    BY <1>1, <2>1, <2>2, TripStep DEF Dos
  <2>4. Below("alone", Free.w \cup Free.r, "g") /\ "g" \notin end.w
    BY DEF Below, Free
  <2>. QED
    BY <1>1, <2>3, <2>4, TripHolding DEF SetWAL
<1>8. Trip("serving", Free, Stop, Free)
  BY <1>5, <1>6, TripJoins DEF Stop
<1>9. Trip("alone", Free, Start, end)
  <2>1. Trip("alone", log, Read, log) /\ Trip("alone", log, Mutator, log)
    BY <1>1, <1>2, GraphTrips
  <2>2. Trip("alone", log, Read \o Mutator, log)
    BY <2>1, TripJoins
  <2>3. Trip("alone", Free, Holding("w", Read \o Mutator), Free)
    BY <1>1, <2>2, LogTrip
  <2>4. Trip("alone", Free, Rebuild, Free) /\ Trip("alone", Free, Replace, Free)
    BY <1>1, <1>2, GraphTrips
  <2>5. Trip("alone", Free, ((Replace \o Rebuild) \o Holding("w", Read \o Mutator)) \o Rebuild, Free)
    BY <2>3, <2>4, TripJoins
  <2>. QED
    BY <1>7, <2>5, TripJoins DEF Start
<1>. QED
  BY <1>4, <1>5, <1>8, <1>9


(***************************************************************************)
(* The inductive invariant: the steps every goroutine has left lead, in    *)
(* the order of the phase, from what it holds to nothing.                  *)
(***************************************************************************)

Mode == IF phase = "starting" THEN "alone" ELSE "serving"

Standing(t) ==
    [w |-> {l \in LockNames : gate[l] = t}, r |-> {l \in LockNames : t \in readers[l]},
     att |-> phase = "starting" /\ t = "main" /\ attached]
End(t) == [Free EXCEPT !.att = (phase = "starting" /\ t = "main")]

TypeInv ==
    /\ code \in [Goroutines -> Seq(Steps)]
    /\ gate \in [LockNames -> Goroutines \cup {None}]
    /\ readers \in [LockNames -> SUBSET Goroutines]
    /\ attached \in BOOLEAN /\ phase \in {"starting", "serving", "closing"}

Ordered == \A t \in Goroutines : Trip(Mode, Standing(t), code[t], End(t))

Alone ==
    /\ phase = "starting" => \A t \in Goroutines \ {"main"} : code[t] = <<>>
    /\ phase = "serving" => code["main"] = <<>>

LockInv == TypeInv /\ Ordered /\ Alone

LEMMA StandingForms ==
    ASSUME NEW s \in Standings, NEW A
    PROVE  /\ [s EXCEPT !.w = A] = [w |-> A, r |-> s.r, att |-> s.att]
           /\ [s EXCEPT !.r = A] = [w |-> s.w, r |-> A, att |-> s.att]
           /\ [s EXCEPT !.att = A] = [w |-> s.w, r |-> s.r, att |-> A]
  BY DEF Standings

LEMMA FreeForm ==
    Free \in Standings /\ [Free EXCEPT !.att = FALSE] = Free
<1>1. Free \in Standings
  BY DEF Free, Standings
<1>2. [Free EXCEPT !.att = FALSE] = [w |-> Free.w, r |-> Free.r, att |-> FALSE]
  BY <1>1, StandingForms
<1>3. Free.w = {} /\ Free.r = {}
  BY DEF Free
<1>. QED
  BY <1>1, <1>2, <1>3 DEF Free

LEMMA StandingTyped ==
    ASSUME TypeInv, NEW t \in Goroutines
    PROVE  /\ Standing(t) \in Standings /\ End(t) \in Standings /\ Mode \in Modes
           /\ phase # "starting" \/ t # "main" => Standing(t).att = FALSE /\ End(t) = Free
           /\ None \notin Goroutines /\ "main" \in Goroutines /\ "ticker" \in Goroutines
           /\ Requests \subseteq Goroutines /\ "main" \notin Requests
<1>1. /\ None \notin Goroutines /\ "main" \in Goroutines /\ "ticker" \in Goroutines
      /\ Requests \subseteq Goroutines /\ "main" \notin Requests
  BY GoroutinesAssumption DEF Goroutines
<1>2. Mode \in Modes
  BY DEF Mode, Modes
<1>3. (phase = "starting" /\ t = "main" /\ attached) \in BOOLEAN
  BY DEF TypeInv
<1>4. Standing(t) \in Standings
  BY <1>3 DEF Standing, Standings
<1>5. Free \in Standings
  BY FreeForm
<1>6. (phase = "starting" /\ t = "main") \in BOOLEAN
  OBVIOUS
<1>7. End(t) \in Standings
  BY <1>5, <1>6 DEF End, Standings
<1>8. ASSUME phase # "starting" \/ t # "main"
      PROVE  Standing(t).att = FALSE /\ End(t) = Free
  <2>1. Standing(t).att = FALSE
    BY <1>8 DEF Standing
  <2>2. (phase = "starting" /\ t = "main") = FALSE
    BY <1>8
  <2>. QED
    BY <2>1, <2>2, FreeForm DEF End
<1>. QED
  BY <1>1, <1>2, <1>4, <1>7, <1>8

LEMMA InitOrdered ==
    ASSUME Init
    PROVE  LockInv
<1>1. /\ phase = "starting" /\ attached = FALSE
      /\ gate = [l \in LockNames |-> None] /\ readers = [l \in LockNames |-> {}]
      /\ code = [t \in Goroutines |-> IF t = "main" THEN Start ELSE <<>>]
  BY DEF Init
<1>2. None \notin Goroutines /\ "main" \in Goroutines
  BY GoroutinesAssumption DEF Goroutines
<1>3. \A t \in Goroutines : Standing(t) = Free
  BY <1>1, <1>2 DEF Standing, Free
<1>4. Mode = "alone" /\ Free \in Standings
  BY <1>1 DEF Mode, Free, Standings
<1>5. ASSUME NEW t \in Goroutines
      PROVE  Trip(Mode, Standing(t), code[t], End(t))
  <2>1. CASE t = "main"
    <3>1. End(t) = [Free EXCEPT !.att = TRUE] /\ code[t] = Start
      BY <1>1, <2>1 DEF End
    <3>. QED
      BY <1>3, <1>4, <3>1, ProgramsTrip
  <2>2. CASE t # "main"
    <3>1. End(t) = Free
      <4>1. (phase = "starting" /\ t = "main") = FALSE
        BY <2>2
      <4>. QED
        BY <4>1, FreeForm DEF End
    <3>2. code[t] = <<>>
      BY <1>1, <2>2
    <3>. QED
      BY <1>3, <1>4, <3>1, <3>2, TripNowhere
  <2>. QED
    BY <2>1, <2>2
<1>6. code \in [Goroutines -> Seq(Steps)]
  BY <1>1, <1>5 DEF Trip
<1>. QED
  BY <1>1, <1>5, <1>6 DEF LockInv, TypeInv, Ordered, Alone

(* A step of one goroutine that leaves what the others hold.               *)
LEMMA OneMoves ==
    ASSUME LockInv, NEW t \in Goroutines, NEW steps,
           code' = [code EXCEPT ![t] = steps], phase' = phase,
           gate' \in [LockNames -> Goroutines \cup {None}],
           readers' \in [LockNames -> SUBSET Goroutines], attached' \in BOOLEAN,
           phase = "starting" => t = "main", phase = "serving" => t # "main" \/ steps = <<>>,
           Trip(Mode, Standing(t)', steps, End(t)),
           \A u \in Goroutines \ {t} : Standing(u)' = Standing(u)
    PROVE  LockInv'
<1>1. Mode' = Mode /\ \A u \in Goroutines : End(u)' = End(u)
  BY DEF Mode, End
<1>2. /\ code \in [Goroutines -> Seq(Steps)] /\ DOMAIN code' = Goroutines
      /\ code'[t] = steps /\ \A u \in Goroutines \ {t} : code'[u] = code[u]
      /\ code' = [u \in Goroutines |-> code'[u]]
  BY DEF LockInv, TypeInv
<1>3. ASSUME NEW u \in Goroutines
      PROVE  Trip(Mode', Standing(u)', code'[u], End(u)')
  <2>1. CASE u = t
    BY <1>1, <1>2, <2>1
  <2>2. CASE u # t
    <3>1. Trip(Mode, Standing(u), code[u], End(u))
      BY DEF LockInv, Ordered
    <3>2. Standing(u)' = Standing(u) /\ code'[u] = code[u] /\ End(u)' = End(u)
      BY <1>1, <1>2, <2>2
    <3>. QED
      BY <1>1, <3>1, <3>2
  <2>. QED
    BY <2>1, <2>2
<1>4. \A u \in Goroutines : code'[u] \in Seq(Steps)
  BY <1>3 DEF Trip
<1>5. TypeInv'
  BY <1>2, <1>4 DEF LockInv, TypeInv
<1>6. Alone'
  <2>1. "main" \in Goroutines
    BY DEF Goroutines
  <2>. QED
    BY <1>2, <2>1 DEF LockInv, Alone
<1>. QED
  BY <1>3, <1>5, <1>6 DEF LockInv, Ordered

(* What the next step of a goroutine does to what it holds.                *)
LEMMA NextStep ==
    ASSUME LockInv, NEW t \in Goroutines, code[t] # <<>>
    PROVE  /\ Head(code[t]) \in Steps /\ On(t) \in LockNames
           /\ phase = "starting" => t = "main"
           /\ phase = "serving" => t # "main"
           /\ \E m \in Standings : /\ Leads(Mode, Standing(t), Head(code[t]), m)
                                   /\ Trip(Mode, m, Tail(code[t]), End(t))
<1>1. Trip(Mode, Standing(t), code[t], End(t))
  BY DEF LockInv, Ordered
<1>2. Head(code[t]) \in Steps /\ On(t) \in LockNames
  <2>1. Head(code[t]) \in Steps
    BY <1>1, TripStarts
  <2>. QED
    BY <2>1 DEF On, Steps
<1>. QED
  BY <1>1, <1>2, TripStarts DEF LockInv, Alone

LEMMA RunKeeps ==
    ASSUME LockInv, NEW t \in Goroutines, Run(t)
    PROVE  LockInv'
<1> DEFINE x == Head(code[t])
           s == Standing(t)
           rest == Tail(code[t])
<1>1. code[t] # <<>> /\ x.do = Do(t) /\ x.lock = On(t)
  BY DEF Run, LogOrSkip, Lock, Enter, Unlock, RLock, RUnlock, Assign, At, Idle, Do, On
<1>2. /\ x \in Steps /\ On(t) \in LockNames
      /\ phase = "starting" => t = "main"
      /\ phase = "serving" => t # "main"
  BY <1>1, NextStep
<1>3. PICK m \in Standings : Leads(Mode, s, x, m) /\ Trip(Mode, m, rest, End(t))
  BY <1>1, NextStep
<1>4. /\ s \in Standings /\ Mode \in Modes /\ None \notin Goroutines
      /\ phase # "starting" => s.att = FALSE
      /\ s.w = {l \in LockNames : gate[l] = t} /\ s.r = {l \in LockNames : t \in readers[l]}
  BY StandingTyped DEF LockInv, Standing
<1>5. /\ gate \in [LockNames -> Goroutines \cup {None}] /\ readers \in [LockNames -> SUBSET Goroutines]
      /\ attached \in BOOLEAN /\ DOMAIN code = Goroutines
  BY DEF LockInv, TypeInv
<1>6. \A mode : mode = Mode => (mode = "alone" <=> phase = "starting")
  BY DEF Mode
<1> DEFINE l == On(t)
<1>. HIDE DEF x, rest
<1>7. CASE LogOrSkip(t)
  <2>1. /\ x.do = "Log" /\ UNCHANGED <<gate, readers, attached, phase>>
        /\ code' = [code EXCEPT ![t] = (IF attached THEN Holding(l, <<>>) ELSE <<>>) \o rest]
    BY <1>1, <1>7 DEF LogOrSkip, At, Becomes, rest
  <2>2. m = s /\ l = "w" /\ IF Mode = "alone" THEN ~s.att ELSE Below(Mode, s.w \cup s.r, "w")
    BY <1>1, <1>3, <2>1 DEF Leads
  <2>3. \A u \in Goroutines : Standing(u)' = Standing(u)
    BY <2>1 DEF Standing
  <2>4. Trip(Mode, s, (IF attached THEN Holding(l, <<>>) ELSE <<>>) \o rest, End(t))
    <3>1. CASE ~attached
      <4>1. <<>> \o rest = rest
        BY <1>3, ConcatEmptySeq DEF Trip
      <4>. QED
        BY <1>3, <2>2, <3>1, <4>1
    <3>2. CASE attached
      <4>1. Mode # "alone"
        BY <1>2, <1>6, <2>2, <3>2 DEF Standing
      <4>2. Below(Mode, s.w \cup s.r, "w") /\ "w" \notin s.w
        BY <2>2, <4>1 DEF Below, Level
      <4>3. With(s, "w") \in Standings /\ "w" \in LockNames
        BY <1>4 DEF With, Standings, LockNames
      <4>. HIDE DEF s
      <4>4. Trip(Mode, With(s, "w"), <<>>, With(s, "w"))
        BY <4>3, TripNowhere
      <4>5. Trip(Mode, s, Holding("w", <<>>), s)
        BY <1>4, <4>2, <4>3, <4>4, TripHolding
      <4>. QED
        BY <1>3, <2>2, <3>2, <4>5, TripJoins
    <3>. QED
      BY <3>1, <3>2
  <2>. QED
    BY <1>2, <1>5, <2>1, <2>3, <2>4, OneMoves
<1>8. CASE Lock(t)
  <2>1. /\ x.do = "Lock" /\ gate[l] = None /\ UNCHANGED <<readers, attached, phase>>
        /\ gate' = [gate EXCEPT ![l] = t]
        /\ code' = [code EXCEPT ![t] = Step("Enter", l) \o rest]
    BY <1>1, <1>8 DEF Lock, At, Becomes, rest
  <2>2. Below(Mode, s.w \cup s.r, l) /\ m = With(s, l)
    BY <1>1, <1>3, <2>1 DEF Leads, With
  <2>3. \A u \in Goroutines \ {t} : Standing(u)' = Standing(u)
    BY <1>2, <1>4, <1>5, <2>1 DEF Standing
  <2>4. Standing(t)' = m
    <3>1. {k \in LockNames : gate'[k] = t} = s.w \cup {l}
      BY <1>2, <1>4, <1>5, <2>1
    <3>2. Standing(t)' = [w |-> {k \in LockNames : gate'[k] = t}, r |-> s.r, att |-> s.att]
      BY <2>1 DEF Standing
    <3>. QED
      BY <1>4, <2>2, <3>1, <3>2 DEF With, Standings
  <2>5. Leads(Mode, m, [do |-> "Enter", lock |-> l], m)
    <3>1. m.w = s.w \cup {l} /\ m.r = s.r
      BY <1>4, <2>2 DEF With, Standings
    <3>. QED
      BY <2>2, <3>1 DEF Leads, Below
  <2>6. Trip(Mode, m, Step("Enter", l), m)
    BY <1>2, <1>3, <2>5, TripStep DEF Dos
  <2>7. Trip(Mode, m, Step("Enter", l) \o rest, End(t))
    BY <1>3, <2>6, TripJoins
  <2>8. gate' \in [LockNames -> Goroutines \cup {None}]
    BY <1>2, <1>5, <2>1
  <2>. QED
    BY <1>2, <1>5, <2>1, <2>3, <2>4, <2>7, <2>8, OneMoves
<1>9. CASE Enter(t)
  <2>1. /\ x.do = "Enter" /\ UNCHANGED <<gate, readers, attached, phase>>
        /\ code' = [code EXCEPT ![t] = rest]
    BY <1>1, <1>9 DEF Enter, At, Goes, Becomes, rest
  <2>2. m = s
    BY <1>3, <2>1 DEF Leads
  <2>3. \A u \in Goroutines : Standing(u)' = Standing(u)
    BY <2>1 DEF Standing
  <2>. QED
    BY <1>2, <1>3, <1>5, <2>1, <2>2, <2>3, OneMoves
<1>10. CASE Unlock(t)
  <2>1. /\ x.do = "Unlock" /\ UNCHANGED <<readers, attached, phase>>
        /\ gate' = [gate EXCEPT ![l] = None]
        /\ code' = [code EXCEPT ![t] = rest]
    BY <1>1, <1>10 DEF Unlock, At, Goes, Becomes, rest
  <2>2. l \in s.w /\ m = [s EXCEPT !.w = @ \ {l}]
    BY <1>1, <1>3, <2>1 DEF Leads
  <2>3. gate[l] = t
    BY <1>4, <2>2
  <2>4. \A u \in Goroutines \ {t} : Standing(u)' = Standing(u)
    BY <1>2, <1>4, <1>5, <2>1, <2>3 DEF Standing
  <2>5. Standing(t)' = m
    <3>1. {k \in LockNames : gate'[k] = t} = s.w \ {l}
      BY <1>2, <1>4, <1>5, <2>1
    <3>2. Standing(t)' = [w |-> {k \in LockNames : gate'[k] = t}, r |-> s.r, att |-> s.att]
      BY <2>1 DEF Standing
    <3>. QED
      BY <1>4, <2>2, <3>1, <3>2, StandingForms
  <2>6. gate' \in [LockNames -> Goroutines \cup {None}]
    BY <1>2, <1>5, <2>1
  <2>. QED
    BY <1>2, <1>3, <1>5, <2>1, <2>4, <2>5, <2>6, OneMoves
<1>11. CASE RLock(t)
  <2>1. /\ x.do = "RLock" /\ UNCHANGED <<gate, attached, phase>>
        /\ readers' = [readers EXCEPT ![l] = @ \cup {t}]
        /\ code' = [code EXCEPT ![t] = rest]
    BY <1>1, <1>11 DEF RLock, At, Goes, Becomes, rest
  <2>2. m = [s EXCEPT !.r = @ \cup {l}]
    BY <1>1, <1>3, <2>1 DEF Leads
  <2>3. \A u \in Goroutines \ {t} : Standing(u)' = Standing(u)
    BY <1>2, <1>4, <1>5, <2>1 DEF Standing
  <2>4. Standing(t)' = m
    <3>1. {k \in LockNames : t \in readers'[k]} = s.r \cup {l}
      BY <1>2, <1>4, <1>5, <2>1
    <3>2. Standing(t)' = [w |-> s.w, r |-> {k \in LockNames : t \in readers'[k]}, att |-> s.att]
      BY <2>1 DEF Standing
    <3>. QED
      BY <1>4, <2>2, <3>1, <3>2, StandingForms
  <2>5. readers' \in [LockNames -> SUBSET Goroutines]
    BY <1>2, <1>5, <2>1
  <2>. QED
    BY <1>2, <1>3, <1>5, <2>1, <2>3, <2>4, <2>5, OneMoves
<1>12. CASE RUnlock(t)
  <2>1. /\ x.do = "RUnlock" /\ UNCHANGED <<gate, attached, phase>>
        /\ readers' = [readers EXCEPT ![l] = @ \ {t}]
        /\ code' = [code EXCEPT ![t] = rest]
    BY <1>1, <1>12 DEF RUnlock, At, Goes, Becomes, rest
  <2>2. m = [s EXCEPT !.r = @ \ {l}]
    BY <1>1, <1>3, <2>1 DEF Leads
  <2>3. \A u \in Goroutines \ {t} : Standing(u)' = Standing(u)
    BY <1>2, <1>4, <1>5, <2>1 DEF Standing
  <2>4. Standing(t)' = m
    <3>1. {k \in LockNames : t \in readers'[k]} = s.r \ {l}
      BY <1>2, <1>4, <1>5, <2>1
    <3>2. Standing(t)' = [w |-> s.w, r |-> {k \in LockNames : t \in readers'[k]}, att |-> s.att]
      BY <2>1 DEF Standing
    <3>. QED
      BY <1>4, <2>2, <3>1, <3>2, StandingForms
  <2>5. readers' \in [LockNames -> SUBSET Goroutines]
    BY <1>2, <1>5, <2>1
  <2>. QED
    BY <1>2, <1>3, <1>5, <2>1, <2>3, <2>4, <2>5, OneMoves
<1>13. CASE Assign(t)
  <2>1. /\ x.do \in {"Attach", "Detach"} /\ UNCHANGED <<gate, readers, phase>>
        /\ attached' = (x.do = "Attach")
        /\ code' = [code EXCEPT ![t] = rest]
    BY <1>1, <1>5, <1>13 DEF Assign, At, rest
  <2>2. m = IF Mode = "alone" THEN [s EXCEPT !.att = (x.do = "Attach")] ELSE s
    BY <1>3, <2>1 DEF Leads
  <2>3. \A u \in Goroutines \ {t} : Standing(u)' = Standing(u)
    BY <1>2, <2>1 DEF Standing
  <2>4. Standing(t)' = m
    <3>1. CASE phase = "starting"
      <4>1. t = "main" /\ Mode = "alone"
        BY <1>2, <3>1 DEF Mode
      <4>2. Standing(t)' = [w |-> s.w, r |-> s.r, att |-> x.do = "Attach"]
        BY <2>1, <3>1, <4>1 DEF Standing
      <4>. QED
        BY <1>4, <2>2, <4>1, <4>2, StandingForms
    <3>2. CASE phase # "starting"
      <4>1. Mode # "alone"
        BY <3>2 DEF Mode
      <4>2. Standing(t)' = Standing(t)
        BY <2>1, <3>2 DEF Standing
      <4>. QED
        BY <2>2, <4>1, <4>2
    <3>. QED
      BY <3>1, <3>2
  <2>5. attached' \in BOOLEAN
    BY <2>1
  <2>. QED
    BY <1>2, <1>3, <1>5, <2>1, <2>3, <2>4, <2>5, OneMoves
<1>. QED
  BY <1>7, <1>8, <1>9, <1>10, <1>11, <1>12, <1>13 DEF Run


(* In every other step nobody holds anything more or less.                 *)
LEMMA BeginsKeep ==
    ASSUME LockInv, NEW t \in Goroutines, NEW program, code[t] = <<>>, phase # "starting",
           t = "main" => phase = "serving" /\ phase' = "closing",
           t # "main" => phase' = phase, UNCHANGED <<gate, readers, attached>>,
           code' = [code EXCEPT ![t] = program], Trip("serving", Free, program, Free)
    PROVE  LockInv'
<1>1. /\ code \in [Goroutines -> Seq(Steps)] /\ DOMAIN code' = Goroutines
      /\ code'[t] = program /\ \A u \in Goroutines \ {t} : code'[u] = code[u]
      /\ code' = [u \in Goroutines |-> code'[u]]
  BY DEF LockInv, TypeInv
<1>2. phase' # "starting" /\ phase' \in {"serving", "closing"} /\ Mode = "serving" /\ Mode' = "serving"
  BY DEF LockInv, TypeInv, Mode
<1>3. \A u \in Goroutines : End(u) = Free
  BY StandingTyped DEF LockInv
<1>4. \A u \in Goroutines : End(u)' = Free /\ Standing(u)' = Standing(u)
  <2>1. TAKE u \in Goroutines
  <2>2. (phase' = "starting" /\ u = "main") = FALSE
    BY <1>2
  <2>3. End(u)' = Free
    BY <2>2, FreeForm DEF End, Free
  <2>4. Standing(u)' = Standing(u)
    BY <1>2 DEF Standing
  <2>. QED
    BY <2>3, <2>4
<1>5. ASSUME NEW u \in Goroutines
      PROVE  Trip("serving", Standing(u), code'[u], Free)
  <2>1. Trip("serving", Standing(u), code[u], Free)
    BY <1>2, <1>3 DEF LockInv, Ordered
  <2>2. CASE u = t
    <3>1. Standing(t) = Free
      BY <2>1, <2>2, TripEnds
    <3>. QED
      BY <1>1, <2>2, <3>1
  <2>3. CASE u # t
    BY <1>1, <2>1, <2>3
  <2>. QED
    BY <2>2, <2>3
<1>6. Ordered'
  BY <1>2, <1>4, <1>5 DEF Ordered
<1>7. \A u \in Goroutines : code'[u] \in Seq(Steps)
  BY <1>5 DEF Trip
<1>8. TypeInv'
  BY <1>1, <1>2, <1>7 DEF LockInv, TypeInv
<1>9. Alone'
  <2>1. "main" \in Goroutines
    BY StandingTyped DEF LockInv
  <2>. QED
    BY <1>1, <1>2, <2>1 DEF LockInv, Alone
<1>. QED
  BY <1>6, <1>8, <1>9 DEF LockInv

LEMMA ServeKeeps ==
    ASSUME LockInv, Serve
    PROVE  LockInv'
<1>1. /\ phase = "starting" /\ code["main"] = <<>> /\ phase' = "serving"
      /\ UNCHANGED <<code, gate, readers, attached>>
  BY DEF Serve, Idle
<1>2. /\ "main" \in Goroutines /\ \A t \in Goroutines : code[t] = <<>>
      /\ Mode = "alone" /\ Mode' = "serving"
  <2>1. "main" \in Goroutines
    BY DEF Goroutines
  <2>2. \A t \in Goroutines \ {"main"} : code[t] = <<>>
    BY <1>1 DEF LockInv, Alone
  <2>. QED
    BY <1>1, <2>1, <2>2 DEF Mode
<1>3. ASSUME NEW t \in Goroutines
      PROVE  Trip(Mode', Standing(t)', code'[t], End(t)')
  <2>1. Standing(t) = End(t)
    <3>1. Trip(Mode, Standing(t), <<>>, End(t))
      BY <1>2 DEF LockInv, Ordered
    <3>. QED
      BY <3>1, TripEnds
  <2>2. Standing(t).w = {} /\ Standing(t).r = {}
    BY <2>1, FreeForm DEF End, Free
  <2>3. /\ {l \in LockNames : gate[l] = t} = {} /\ {l \in LockNames : t \in readers[l]} = {}
    BY <2>2 DEF Standing
  <2>4. Standing(t)' = Free
    <3>1. (phase' = "starting" /\ t = "main" /\ attached') = FALSE
      BY <1>1
    <3>2. Standing(t)' = [w |-> {}, r |-> {}, att |-> (phase' = "starting" /\ t = "main" /\ attached')]
      BY <1>1, <2>3 DEF Standing
    <3>. QED
      BY <3>1, <3>2 DEF Free
  <2>5. End(t)' = Free
    <3>1. (phase' = "starting" /\ t = "main") = FALSE
      BY <1>1
    <3>. QED
      BY <3>1, FreeForm DEF End, Free
  <2>6. code'[t] = <<>>
    BY <1>1, <1>2
  <2>. QED
    BY <2>4, <2>5, <2>6, FreeForm, TripNowhere
<1>4. TypeInv' /\ Alone'
  BY <1>1, <1>2 DEF LockInv, TypeInv, Alone
<1>. QED
  BY <1>3, <1>4 DEF LockInv, Ordered

LEMMA NextKeeps ==
    ASSUME LockInv, [Next]_vars
    PROVE  LockInv'
<1>. USE StandingTyped DEF LockInv
<1>1. CASE \E t \in Goroutines : Run(t)
  BY <1>1, RunKeeps
<1>2. ASSUME NEW t \in Requests, Arrive(t)
      PROVE  LockInv'
  <2>1. PICK handler \in Handlers : Becomes(t, handler)
    BY <1>2 DEF Arrive
  <2>2. t \in Goroutines /\ t # "main"
    BY GoroutinesAssumption DEF Goroutines
  <2>. QED
    BY <1>2, <2>1, <2>2, ProgramsTrip, BeginsKeep DEF Arrive, Idle, Becomes
<1>3. CASE Serve
  BY <1>3, ServeKeeps
<1>4. CASE Tick
  <2>1. "ticker" \in Goroutines
    BY DEF Goroutines
  <2>. QED
    BY <1>4, <2>1, ProgramsTrip, BeginsKeep DEF Tick, Idle, Becomes
<1>5. CASE Signal
  <2>1. "main" \in Goroutines /\ code["main"] = <<>>
    BY <1>5 DEF Goroutines, Signal, Alone
  <2>. QED
    BY <1>5, <2>1, ProgramsTrip, BeginsKeep DEF Signal
<1>6. CASE UNCHANGED vars
  <2>1. /\ UNCHANGED <<code, gate, readers, attached, phase>>
    BY <1>6 DEF vars
  <2>. QED
    BY <2>1 DEF TypeInv, Ordered, Alone, Mode, Standing, End
<1>. QED
  BY <1>1, <1>2, <1>3, <1>4, <1>5, <1>6 DEF Next

(* The order holds of everything every goroutine has left to do, for any   *)
(* number of requests (graph.go:40-47, wal.go:29, 39, 54, main.go:28-41).  *)
THEOREM Inductive == Spec => []LockInv
<1>1. Init => LockInv
  BY InitOrdered
<1>2. LockInv /\ [Next]_vars => LockInv'
  BY NextKeeps
<1>. QED
  BY <1>1, <1>2, PTL DEF Spec



(***************************************************************************)
(* Whoever waits does so further down the order than whatever it holds.    *)
(***************************************************************************)

Rank(t) == 2 * Level(Mode, On(t)) + IF At(t, {"Enter"}) THEN 1 ELSE 0

LEMMA Waits ==
    ASSUME LockInv, NEW t \in Goroutines, WaitsFor(t) # {}
    PROVE  /\ On(t) \in LockNames /\ Level(Mode, On(t)) \in 1..3 /\ Rank(t) \in 1..7
           /\ \/ /\ ~At(t, {"Enter"}) /\ Rank(t) = 2 * Level(Mode, On(t))
                 /\ Below(Mode, Standing(t).w \cup Standing(t).r, On(t))
                 /\ WaitsFor(t) = {gate[On(t)]} \ {None}
              \/ /\ At(t, {"Enter"}) /\ Rank(t) = 2 * Level(Mode, On(t)) + 1
                 /\ Below(Mode, (Standing(t).w \ {On(t)}) \cup Standing(t).r, On(t))
                 /\ WaitsFor(t) = readers[On(t)]
<1>1. At(t, {"Lock", "RLock"}) \/ At(t, {"Enter"})
  BY DEF WaitsFor
<1>2. code[t] # <<>>
  BY <1>1 DEF At, Idle
<1>3. /\ On(t) \in LockNames
      /\ \E m \in Standings : Leads(Mode, Standing(t), Head(code[t]), m)
  BY <1>2, NextStep
<1>4. Level(Mode, On(t)) \in 1..3
  BY DEF Level
<1>5. CASE At(t, {"Lock", "RLock"})
  <2>1. ~At(t, {"Enter"}) /\ WaitsFor(t) = {gate[On(t)]} \ {None}
    BY <1>5 DEF At, WaitsFor
  <2>2. Rank(t) = 2 * Level(Mode, On(t))
    BY <1>4, <2>1 DEF Rank
  <2>3. Below(Mode, Standing(t).w \cup Standing(t).r, On(t))
    BY <1>3, <1>5 DEF At, Leads, Do, On
  <2>. QED
    BY <1>3, <1>4, <2>1, <2>2, <2>3
<1>6. CASE At(t, {"Enter"})
  <2>1. ~At(t, {"Lock", "RLock"})
    BY <1>6 DEF At
  <2>2. WaitsFor(t) = readers[On(t)]
    BY <1>6, <2>1 DEF WaitsFor
  <2>3. Rank(t) = 2 * Level(Mode, On(t)) + 1
    BY <1>4, <1>6 DEF Rank
  <2>4. Below(Mode, (Standing(t).w \ {On(t)}) \cup Standing(t).r, On(t))
    BY <1>3, <1>6 DEF At, Leads, Do, On
  <2>. QED
    BY <1>3, <1>4, <1>6, <2>2, <2>3, <2>4
<1>. QED
  BY <1>1, <1>5, <1>6

LEMMA WaitsUpwards ==
    ASSUME LockInv, NEW t \in Goroutines, NEW u \in Goroutines,
           u \in WaitsFor(t), WaitsFor(u) # {}
    PROVE  Rank(t) \in 1..7 /\ Rank(u) \in 1..7 /\ Rank(u) >= Rank(t) + 1
<1> DEFINE l == On(t)
           k == On(u)
<1>1. /\ l \in LockNames /\ k \in LockNames
      /\ Level(Mode, l) \in 1..3 /\ Level(Mode, k) \in 1..3
      /\ Rank(t) \in 1..7 /\ Rank(u) \in 1..7
  BY Waits
<1>2. \A n \in Standing(u).r : Level(Mode, n) < Level(Mode, k)
  BY Waits DEF Below
<1>3. \A n \in Standing(u).w :
        Level(Mode, n) < Level(Mode, k) \/ (n = k /\ Rank(u) = 2 * Level(Mode, k) + 1)
  BY Waits DEF Below
<1>4. Rank(u) >= 2 * Level(Mode, k)
  <2>1. Rank(u) = 2 * Level(Mode, k) \/ Rank(u) = 2 * Level(Mode, k) + 1
    BY Waits
  <2>. HIDE DEF k
  <2>. QED
    BY <1>1, <2>1
<1>5. CASE ~At(t, {"Enter"})
  <2>1. gate[l] = u /\ Rank(t) = 2 * Level(Mode, l)
    BY <1>5, Waits
  <2>2. l \in Standing(u).w
    BY <1>1, <2>1 DEF Standing
  <2>. HIDE DEF l, k
  <2>. QED
    BY <1>1, <1>3, <1>4, <2>1, <2>2
<1>6. CASE At(t, {"Enter"})
  <2>1. u \in readers[l] /\ Rank(t) = 2 * Level(Mode, l) + 1
    BY <1>6, Waits
  <2>2. l \in Standing(u).r
    BY <1>1, <2>1 DEF Standing
  <2>. HIDE DEF l, k
  <2>. QED
    BY <1>1, <1>2, <1>4, <2>1, <2>2
<1>. QED
  BY <1>5, <1>6

LEMMA NoCircle ==
    ASSUME LockInv
    PROVE  NoCyclicWait
<1>1. SUFFICES ASSUME NEW circle \in (SUBSET Goroutines) \ {{}},
                      \A t \in circle : WaitsFor(t) \cap circle # {}
               PROVE  FALSE
  BY DEF NoCyclicWait
<1>2. ASSUME NEW t \in circle
      PROVE  \E u \in circle : /\ Rank(t) \in 1..7 /\ Rank(u) \in 1..7
                               /\ Rank(u) >= Rank(t) + 1
  <2>1. PICK u \in circle : u \in WaitsFor(t)
    BY <1>1
  <2>2. WaitsFor(u) # {}
    BY <1>1
  <2>. QED
    BY <2>1, <2>2, WaitsUpwards
<1> DEFINE Reached(k) == \E t \in circle : Rank(t) \in 1..7 /\ Rank(t) >= k
           reached == {k \in Nat : Reached(k)}
<1>3. 0 \in reached
  BY <1>1, <1>2
<1>4. ASSUME NEW k \in reached
      PROVE  k + 1 \in reached
  <2>1. PICK t \in circle : Rank(t) \in 1..7 /\ Rank(t) >= k
    OBVIOUS
  <2>2. PICK u \in circle : Rank(u) \in 1..7 /\ Rank(u) >= Rank(t) + 1
    BY <1>2
  <2>3. Rank(u) >= k + 1 /\ k + 1 \in Nat
    BY <2>1, <2>2
  <2>. QED
    BY <2>2, <2>3
<1>. HIDE DEF reached
<1>5. Nat \subseteq reached
  BY <1>3, <1>4, NatsWithin
<1>6. 8 \in reached
  BY <1>5
<1>. QED
  BY <1>6 DEF reached

(* Whatever is served, saved, rebuilt, started and stopped at the same     *)
(* time, no goroutines ever wait for one another in a circle               *)
(* (graph.go:40-47, wal.go:29, 39, 54, memstore.go:14-91).                 *)
THEOREM NoDeadlock == Spec => []NoCyclicWait
  BY Inductive, NoCircle, PTL
=============================================================================
