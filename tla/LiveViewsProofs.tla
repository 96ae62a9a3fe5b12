--------------------------- MODULE LiveViewsProofs ---------------------------
(***************************************************************************)
(* Proofs about the live views, for any changes, pages, fetches and        *)
(* breaks.  The inductive invariant LiveIInv says, of every page that no   *)
(* cue was lost to, what will still bring it up to date (Covered): a cue   *)
(* to come or in its queue, the fetch that a reconnect makes, a fetch      *)
(* under way that will bring the list of now, or nothing, because it shows *)
(* the list already.                                                       *)
(***************************************************************************)
EXTENDS LiveViews, FiniteSetTheorems, TLAPS

----------------------------------------------------------------------------
(* The inductive invariant.                                                *)

Cued == {c \in Changes : change[c] = "cued"}

LiveTyped ==
  /\ change \in [Changes -> {"new", "written", "committed", "cued", "refused"}]
  /\ feed \subseteq [of : Changes, user : Participants, read : BOOLEAN]
  /\ mailed \subseteq Changes /\ missed \subseteq Pages /\ spoiled \subseteq Pages
  /\ page \in [Pages -> PageState]

(* The feeds hold one notice of each committed change for each party.      *)
OneNoticeEach ==
  /\ \A n \in feed : n.of \in Committed
  /\ \A c \in Committed, u \in Participants : \E n \in feed : n.of = c /\ n.user = u
  /\ \A m, n \in feed : m.of = n.of /\ m.user = n.user => m = n

(* A page r: it has a stream once it is mounted, it shows and its fetches  *)
(* brought back nothing that is not committed, and no more cues wait than  *)
(* there were.                                                             *)
Streams(r) ==
  /\ r.stream = r.mounted
  /\ r.opened => r.mounted
  /\ ~r.mounted => r.fetches = << >>
  /\ r.shown \subseteq Upcoming(r.viewer)
  /\ \A i \in DOMAIN r.fetches : r.fetches[i].got \subseteq Upcoming(r.viewer)
  /\ r.queue <= Cardinality(Cued)

(* What will bring the page r up to date, if it is not: a cue to come or   *)
(* in the queue, the fetch of a reconnect, or a fetch under way.           *)
Covered(r) ==
  \/ \E c \in Changes : change[c] = "committed"
  \/ r.queue > 0
  \/ ~r.opened /\ ~r.first
  \/ \E i \in DOMAIN r.fetches : ~r.fetches[i].read \/ r.fetches[i].got = Upcoming(r.viewer)
  \/ r.shown = Upcoming(r.viewer)

Catching(p) == p \notin missed \cup spoiled /\ page[p].mounted => Covered(page[p])

LiveIInv ==
  /\ LiveTyped
  /\ OneNoticeEach
  /\ \A p \in Pages : Streams(page[p]) /\ Catching(p)

----------------------------------------------------------------------------
(* Lemmas.                                                                 *)

LEMMA LiveConstants ==
  MaxFetches \in Nat \ {0} /\ MaxBreaks \in Nat /\ IsFiniteSet(Changes)
BY LiveAssumption

LEMMA FetchLists ==
  ASSUME NEW f
  PROVE  f \in BoundedSeq(Fetch, MaxFetches) <=> f \in Seq(Fetch) /\ Len(f) <= MaxFetches
<1>1. MaxFetches \in Nat
  BY LiveConstants
<1>2. ASSUME f \in BoundedSeq(Fetch, MaxFetches) PROVE f \in Seq(Fetch) /\ Len(f) <= MaxFetches
  <2>1. PICK m \in 0..MaxFetches : f \in [1..m -> Fetch]
    BY <1>2 DEF BoundedSeq, SeqOf
  <2> QED BY <1>1, <2>1
<1>3. ASSUME f \in Seq(Fetch), Len(f) <= MaxFetches PROVE f \in BoundedSeq(Fetch, MaxFetches)
  <2>1. Len(f) \in 0..MaxFetches /\ f \in [1..Len(f) -> Fetch]
    BY <1>1, <1>3
  <2> QED BY <2>1 DEF BoundedSeq, SeqOf
<1> QED BY <1>2, <1>3

(* The fetches of a page once another one is sent, and once one is over.   *)
LEMMA FetchSent ==
  ASSUME NEW f \in Seq(Fetch), NEW g, g = Append(f, [read |-> FALSE, got |-> {}])
  PROVE  /\ g \in Seq(Fetch) /\ Len(g) = Len(f) + 1
         /\ DOMAIN g = 1..Len(f) + 1
         /\ \A i \in DOMAIN f : i \in DOMAIN g /\ g[i] = f[i]
         /\ ~g[Len(f) + 1].read /\ g[Len(f) + 1].got = {}
<1>1. [read |-> FALSE, got |-> {}] \in Fetch
  BY DEF Fetch
<1> QED BY <1>1

LEMMA FetchOver ==
  ASSUME NEW f \in Seq(Fetch), NEW i \in DOMAIN f, NEW g, g = RemoveAt(f, i)
  PROVE  /\ g \in Seq(Fetch) /\ Len(g) = Len(f) - 1
         /\ \A j \in DOMAIN g : \E k \in DOMAIN f : g[j] = f[k]
         /\ \A k \in DOMAIN f \ {i} : \E j \in DOMAIN g : g[j] = f[k]
<1>1. /\ DOMAIN f = 1..Len(f) /\ Len(f) \in Nat /\ i \in 1..Len(f)
  OBVIOUS
<1>2. /\ SubSeq(f, 1, i - 1) \in Seq(Fetch) /\ Len(SubSeq(f, 1, i - 1)) = i - 1
      /\ \A j \in 1..i - 1 : SubSeq(f, 1, i - 1)[j] = f[j]
  BY <1>1
<1>3. /\ SubSeq(f, i + 1, Len(f)) \in Seq(Fetch) /\ Len(SubSeq(f, i + 1, Len(f))) = Len(f) - i
      /\ \A j \in 1..Len(f) - i : SubSeq(f, i + 1, Len(f))[j] = f[i + j]
  BY <1>1
<1> DEFINE a == SubSeq(f, 1, i - 1)
           b == SubSeq(f, i + 1, Len(f))
<1>4. g = a \o b
  BY DEF RemoveAt
<1>5. a \in Seq(Fetch) /\ b \in Seq(Fetch) /\ Len(a) = i - 1 /\ Len(b) = Len(f) - i
  BY <1>2, <1>3
<1>6. \A j \in 1..Len(f) - 1 : g[j] = IF j < i THEN f[j] ELSE f[j + 1]
  <2> SUFFICES ASSUME NEW j \in 1..Len(f) - 1 PROVE g[j] = IF j < i THEN f[j] ELSE f[j + 1]
    OBVIOUS
  <2>1. CASE j < i
    <3>1. j \in 1..i - 1
      BY <1>1, <2>1
    <3>2. a[j] = f[j]
      BY <1>2, <3>1
    <3> HIDE DEF a, b
    <3> QED BY <1>1, <1>4, <1>5, <2>1, <3>1, <3>2
  <2>2. CASE ~(j < i)
    <3>1. j - (i - 1) \in 1..Len(f) - i /\ i + (j - (i - 1)) = j + 1
      BY <1>1, <2>2
    <3>2. b[j - (i - 1)] = f[j + 1]
      BY <1>3, <3>1
    <3> HIDE DEF a, b
    <3> QED BY <1>1, <1>4, <1>5, <2>2, <3>1, <3>2
  <2> QED BY <2>1, <2>2
<1> HIDE DEF a, b
<1>7. g \in Seq(Fetch) /\ Len(g) = Len(f) - 1 /\ DOMAIN g = 1..Len(f) - 1
  <2>1. g \in Seq(Fetch) /\ Len(g) = Len(a) + Len(b)
    BY <1>4, <1>5
  <2>2. Len(g) = Len(f) - 1
    BY <1>1, <1>5, <2>1
  <2>3. DOMAIN g = 1..Len(g)
    BY <2>1
  <2> QED BY <2>1, <2>2, <2>3
<1>8. ASSUME NEW j \in DOMAIN g PROVE \E k \in DOMAIN f : g[j] = f[k]
  BY <1>1, <1>6, <1>7
<1>9. ASSUME NEW k \in DOMAIN f \ {i} PROVE \E j \in DOMAIN g : g[j] = f[k]
  <2>1. CASE k < i
    <3>1. k \in DOMAIN g
      BY <1>1, <1>7, <2>1
    <3> QED BY <1>6, <1>7, <2>1, <3>1
  <2>2. CASE k > i
    <3>1. k - 1 \in DOMAIN g /\ ~(k - 1 < i) /\ (k - 1) + 1 = k
      BY <1>1, <1>7, <2>2
    <3> QED BY <1>6, <1>7, <3>1
  <2> QED BY <1>1, <1>9, <2>1, <2>2
<1> QED BY <1>7, <1>8, <1>9

(* A cue can be waited for once.                                           *)
LEMMA CuesCount ==
  ASSUME LiveTyped, NEW c \in Changes, change[c] # "cued",
         change' = [change EXCEPT ![c] = "cued"]
  PROVE  /\ Cardinality(Cued) \in Nat /\ Cardinality(Cued)' = Cardinality(Cued) + 1
         /\ Cardinality(Cued)' <= Cardinality(Changes)
<1>1. IsFiniteSet(Cued) /\ Cued' = Cued \cup {c} /\ c \notin Cued /\ Cued' \subseteq Changes
  <2>1. Cued \subseteq Changes /\ IsFiniteSet(Cued)
    BY LiveConstants, FS_Subset DEF Cued
  <2> QED BY <2>1 DEF LiveTyped, Cued
<1>2. Cardinality(Cued) \in Nat /\ Cardinality(Cued \cup {c}) = Cardinality(Cued) + 1
  BY <1>1, FS_CardinalityType, FS_AddElement
<1>3. Cardinality(Cued') <= Cardinality(Changes)
  BY <1>1, LiveConstants, FS_Subset
<1> QED BY <1>1, <1>2, <1>3

(* A step of the page p.                                                   *)
LEMMA PageMoves ==
  ASSUME LiveIInv, NEW p \in Pages, NEW r \in PageState, Step(p, r), Streams(r),
         missed' \subseteq Pages, missed \ {p} \subseteq missed',
         spoiled' \subseteq Pages, spoiled \ {p} \subseteq spoiled',
         p \notin missed' \cup spoiled' /\ r.mounted => Covered(r)
  PROVE  LiveIInv'
<1>1. /\ page' \in [Pages -> PageState] /\ page'[p] = r
      /\ \A u \in Pages \ {p} : page'[u] = page[u]
      /\ UNCHANGED <<change, feed, mailed>>
  BY DEF Step, LiveIInv, LiveTyped
<1>2. LiveTyped'
  BY <1>1 DEF LiveIInv, LiveTyped
<1>3. OneNoticeEach'
  BY <1>1 DEF LiveIInv, OneNoticeEach, Committed
<1>4. ASSUME NEW u \in Pages PROVE Streams(page[u])' /\ Catching(u)'
  <2>1. \A s \in PageState : (Streams(s)' <=> Streams(s)) /\ (Covered(s)' <=> Covered(s))
    BY <1>1 DEF Streams, Covered, Upcoming, Committed, Cued
  <2>2. page[u] \in PageState
    BY DEF LiveIInv, LiveTyped
  <2>3. CASE u = p
    <3>1. Streams(r)' /\ (Covered(r) => Covered(r)')
      BY <2>1
    <3> QED BY <1>1, <2>3, <3>1 DEF Catching, Streams, Covered
  <2>4. CASE u # p
    <3>1. Streams(page[u]) /\ Catching(u) /\ page'[u] = page[u]
      BY <1>1, <2>4 DEF LiveIInv
    <3>2. u \notin missed' \cup spoiled' => u \notin missed \cup spoiled
      BY <2>4
    <3>3. PICK s \in PageState : s = page[u]
      BY <2>2
    <3>4. Streams(s)' /\ (Covered(s) => Covered(s)')
      BY <2>1, <3>1, <3>3
    <3>5. Streams(page[u])'
      BY <3>1, <3>3, <3>4 DEF Streams
    <3>6. Covered(s)' => Covered(page[u])'
      BY <3>1, <3>3 DEF Covered
    <3> QED BY <3>1, <3>2, <3>3, <3>4, <3>5, <3>6 DEF Catching
  <2> QED BY <2>3, <2>4
<1> QED BY <1>2, <1>3, <1>4 DEF LiveIInv

LEMMA RefetchedPage ==
  ASSUME NEW s \in PageState, Len(s.fetches) < MaxFetches, NEW r, r = Refetched(s)
  PROVE  /\ r \in PageState /\ r.mounted = s.mounted
         /\ Covered(r)
         /\ s.mounted /\ Streams(s) => Streams(r)
<1>1. s.fetches \in Seq(Fetch) /\ MaxFetches \in Nat
  BY FetchLists, LiveConstants DEF PageState
<1>2. PICK g : g = Append(s.fetches, [read |-> FALSE, got |-> {}])
  OBVIOUS
<1>3. /\ g \in Seq(Fetch) /\ Len(g) = Len(s.fetches) + 1
      /\ DOMAIN g = 1..Len(s.fetches) + 1 /\ DOMAIN s.fetches = 1..Len(s.fetches)
      /\ \A i \in DOMAIN s.fetches : i \in DOMAIN g /\ g[i] = s.fetches[i]
      /\ ~g[Len(s.fetches) + 1].read /\ g[Len(s.fetches) + 1].got = {}
  BY <1>1, <1>2, FetchSent
<1>4. Len(s.fetches) \in Nat /\ Len(g) <= MaxFetches
  BY <1>1, <1>3
<1>5. g \in BoundedSeq(Fetch, MaxFetches)
  BY <1>3, <1>4, FetchLists
<1>6. r = [s EXCEPT !.fetches = g]
  BY <1>2 DEF Refetched
<1>7. /\ r \in PageState /\ r.fetches = g /\ r.viewer = s.viewer /\ r.mounted = s.mounted
      /\ r.stream = s.stream /\ r.opened = s.opened /\ r.queue = s.queue /\ r.shown = s.shown
  BY <1>5, <1>6 DEF PageState
<1>8. Len(s.fetches) + 1 \in DOMAIN g
  BY <1>3, <1>4
<1>9. Covered(r)
  BY <1>3, <1>7, <1>8 DEF Covered
<1>10. ASSUME s.mounted, Streams(s) PROVE Streams(r)
  <2>1. ASSUME NEW i \in DOMAIN g PROVE g[i].got \subseteq Upcoming(s.viewer)
    <3>1. i \in DOMAIN s.fetches \/ i = Len(s.fetches) + 1
      BY <1>3, <1>4
    <3> QED BY <1>3, <1>10, <3>1 DEF Streams
  <2> QED BY <1>7, <1>10, <2>1 DEF Streams
<1> QED BY <1>7, <1>9, <1>10

(* The page is mounted, its stream opens or brings a cue: a fetch is sent, *)
(* unless the mount's is to do for the first opening.                      *)
LEMMA PageFetches ==
  ASSUME LiveIInv, NEW p \in Pages, Mount(p) \/ Opens(p) \/ Receive(p)
  PROVE  LiveIInv'
<1>1. PICK s \in PageState : s = page[p]
  BY DEF LiveIInv, LiveTyped
<1>2. /\ Streams(s) /\ missed \subseteq Pages /\ spoiled \subseteq Pages
      /\ p \notin missed \cup spoiled /\ s.mounted => Covered(s)
  BY <1>1 DEF LiveIInv, LiveTyped, Catching
<1>3. UNCHANGED <<missed, spoiled>>
  BY DEF Mount, Opens, Receive
<1>4. MaxFetches \in Nat \ {0} /\ Cardinality(Cued) \in Nat
  BY LiveConstants, FS_Subset, FS_CardinalityType DEF Cued
<1>5. CASE Mount(p)
  <2> DEFINE m == [s EXCEPT !.mounted = TRUE, !.stream = TRUE]
  <2>1. Step(p, Refetched(m)) /\ ~s.mounted
    BY <1>1, <1>5 DEF Mount
  <2>2. s.fetches = << >>
    BY <1>2, <2>1 DEF Streams
  <2>3. /\ m \in PageState /\ m.mounted /\ m.stream /\ m.fetches = << >> /\ m.queue = s.queue
        /\ m.opened = s.opened /\ m.viewer = s.viewer /\ m.shown = s.shown
    BY <2>2 DEF PageState
  <2>4. Len(m.fetches) < MaxFetches /\ DOMAIN m.fetches = {}
    BY <1>4, <2>3
  <2> HIDE DEF m
  <2>5. Streams(m)
    BY <1>2, <2>3, <2>4 DEF Streams
  <2>6. Refetched(m) \in PageState /\ Covered(Refetched(m)) /\ Streams(Refetched(m))
    BY <2>3, <2>4, <2>5, RefetchedPage
  <2> QED BY <1>2, <1>3, <2>1, <2>6, PageMoves
<1>6. CASE Opens(p)
  <2>1. /\ s.stream /\ Len(s.fetches) < MaxFetches
        /\ Step(p, OnOpen(s))
    BY <1>1, <1>6 DEF Opens, CanFetch
  <2>2. s.mounted
    BY <1>2, <2>1 DEF Streams
  <2>3. CASE s.first
    <3> DEFINE r == [s EXCEPT !.opened = TRUE, !.first = FALSE]
    <3>1. Step(p, r)
      BY <2>1, <2>3 DEF OnOpen
    <3>2. /\ r \in PageState /\ r.mounted = s.mounted /\ r.stream = s.stream /\ r.fetches = s.fetches
          /\ r.viewer = s.viewer /\ r.queue = s.queue /\ r.shown = s.shown
      BY DEF PageState
    <3> HIDE DEF r
    <3>3. Streams(r)
      BY <1>2, <2>2, <3>2 DEF Streams
    <3>4. Covered(s) => Covered(r)
      BY <2>3, <3>2 DEF Covered
    <3> QED BY <1>2, <1>3, <2>2, <3>1, <3>2, <3>3, <3>4, PageMoves
  <2>4. CASE ~s.first
    <3> DEFINE m == [s EXCEPT !.opened = TRUE]
    <3>1. Step(p, Refetched(m))
      BY <2>1, <2>4 DEF OnOpen
    <3>2. /\ m \in PageState /\ m.mounted = s.mounted /\ m.stream = s.stream /\ m.fetches = s.fetches
          /\ m.viewer = s.viewer /\ m.shown = s.shown /\ m.queue = s.queue
      BY DEF PageState
    <3> HIDE DEF m
    <3>3. Streams(m)
      BY <1>2, <2>2, <3>2 DEF Streams
    <3>4. Refetched(m) \in PageState /\ Covered(Refetched(m)) /\ Streams(Refetched(m))
      BY <2>1, <2>2, <3>2, <3>3, RefetchedPage
    <3> QED BY <1>2, <1>3, <3>1, <3>4, PageMoves
  <2> QED BY <2>3, <2>4
<1>7. CASE Receive(p)
  <2> DEFINE m == [s EXCEPT !.queue = @ - 1]
  <2>1. /\ s.opened /\ s.queue > 0 /\ Len(s.fetches) < MaxFetches
        /\ Step(p, Refetched(m))
    BY <1>1, <1>7 DEF Receive, CanFetch, OnCue
  <2>2. s.mounted
    BY <1>2, <2>1 DEF Streams
  <2>3. Cardinality(Changes) \in Nat
    BY LiveConstants, FS_CardinalityType
  <2>4. s.queue - 1 \in 0..Cardinality(Changes) /\ s.queue - 1 <= Cardinality(Cued)
    <3>1. s.queue \in 0..Cardinality(Changes) /\ s.queue <= Cardinality(Cued)
      BY <1>2 DEF PageState, Streams
    <3> QED BY <1>4, <2>1, <2>3, <3>1
  <2>5. /\ m \in PageState /\ m.mounted = s.mounted /\ m.stream = s.stream /\ m.fetches = s.fetches
        /\ m.viewer = s.viewer /\ m.shown = s.shown /\ m.queue = s.queue - 1 /\ m.opened = s.opened
    BY <2>4 DEF PageState
  <2> HIDE DEF m
  <2>6. Streams(m)
    BY <1>2, <2>2, <2>4, <2>5 DEF Streams
  <2>7. Refetched(m) \in PageState /\ Covered(Refetched(m)) /\ Streams(Refetched(m))
    BY <2>1, <2>2, <2>5, <2>6, RefetchedPage
  <2> QED BY <1>2, <1>3, <2>1, <2>7, PageMoves
<1> QED BY <1>5, <1>6, <1>7

(* The stream is subscribed, breaks, or ends at the broker.                *)
LEMMA StreamMoves ==
  ASSUME LiveIInv, NEW p \in Pages, Subscribe(p) \/ Break(p) \/ PumpEnds(p)
  PROVE  LiveIInv'
<1>1. PICK s \in PageState : s = page[p]
  BY DEF LiveIInv, LiveTyped
<1>2. /\ Streams(s) /\ missed \subseteq Pages /\ spoiled \subseteq Pages
      /\ p \notin missed \cup spoiled /\ s.mounted => Covered(s)
  BY <1>1 DEF LiveIInv, LiveTyped, Catching
<1>3. Cardinality(Changes) \in Nat /\ Cardinality(Cued) \in Nat /\ MaxBreaks \in Nat
  BY LiveConstants, FS_Subset, FS_CardinalityType DEF Cued
<1>4. s.breaks \in 0..MaxBreaks /\ 0 \in 0..Cardinality(Changes)
  BY <1>3 DEF PageState
<1>5. CASE Subscribe(p)
  <2> DEFINE r == [s EXCEPT !.pump = "runs"]
  <2>1. Step(p, r) /\ UNCHANGED <<missed, spoiled>>
    BY <1>1, <1>5 DEF Subscribe
  <2>2. /\ r \in PageState /\ r.mounted = s.mounted /\ r.stream = s.stream /\ r.fetches = s.fetches
        /\ r.viewer = s.viewer /\ r.queue = s.queue /\ r.shown = s.shown /\ r.opened = s.opened
        /\ r.first = s.first
    BY DEF PageState
  <2> HIDE DEF r
  <2>3. Streams(r) /\ (Covered(s) => Covered(r))
    BY <1>2, <2>2 DEF Streams, Covered
  <2> QED BY <1>2, <2>1, <2>2, <2>3, PageMoves
<1>6. CASE PumpEnds(p)
  <2> DEFINE r == [s EXCEPT !.pump = "dead", !.breaks = @ + 1]
  <2>1. Step(p, r) /\ UNCHANGED <<missed, spoiled>> /\ s.breaks < MaxBreaks
    BY <1>1, <1>6 DEF PumpEnds
  <2>2. s.breaks + 1 \in 0..MaxBreaks
    BY <1>3, <1>4, <2>1
  <2>3. /\ r \in PageState /\ r.mounted = s.mounted /\ r.stream = s.stream /\ r.fetches = s.fetches
        /\ r.viewer = s.viewer /\ r.queue = s.queue /\ r.shown = s.shown /\ r.opened = s.opened
        /\ r.first = s.first
    BY <2>2 DEF PageState
  <2> HIDE DEF r
  <2>4. Streams(r) /\ (Covered(s) => Covered(r))
    BY <1>2, <2>3 DEF Streams, Covered
  <2> QED BY <1>2, <2>1, <2>3, <2>4, PageMoves
<1>7. CASE Break(p)
  <2> DEFINE r == [s EXCEPT !.opened = FALSE, !.pump = "none", !.queue = 0, !.breaks = @ + 1]
  <2>1. /\ Step(p, r) /\ spoiled' = spoiled /\ s.breaks < MaxBreaks
        /\ missed' = IF s.first /\ s.queue > 0 THEN missed \cup {p} ELSE missed
    BY <1>1, <1>7 DEF Break
  <2>2. s.breaks + 1 \in 0..MaxBreaks
    BY <1>3, <1>4, <2>1
  <2>3. /\ r \in PageState /\ r.mounted = s.mounted /\ r.stream = s.stream /\ r.fetches = s.fetches
        /\ r.viewer = s.viewer /\ r.queue = 0 /\ r.shown = s.shown /\ r.opened = FALSE
        /\ r.first = s.first
    BY <1>4, <2>2 DEF PageState
  <2> HIDE DEF r
  <2>4. Streams(r)
    BY <1>2, <1>3, <2>3 DEF Streams
  <2>5. p \notin missed' \cup spoiled' /\ r.mounted => Covered(r)
    <3>1. CASE s.first /\ s.queue > 0
      BY <2>1, <3>1
    <3>2. CASE ~(s.first /\ s.queue > 0)
      BY <1>2, <2>1, <2>3, <3>2 DEF Covered
    <3> QED BY <3>1, <3>2
  <2> QED BY <1>2, <2>1, <2>3, <2>4, <2>5, PageMoves
<1> QED BY <1>5, <1>6, <1>7

(* A fetch is answered: what it read is the list of that moment.           *)
LEMMA ListIsRead ==
  ASSUME LiveIInv, NEW p \in Pages, NEW i \in 1..MaxFetches, ReadList(p, i)
  PROVE  LiveIInv'
<1>1. PICK s \in PageState : s = page[p]
  BY DEF LiveIInv, LiveTyped
<1>2. Streams(s) /\ missed \subseteq Pages /\ spoiled \subseteq Pages
  BY <1>1 DEF LiveIInv, LiveTyped
<1>3. s.fetches \in Seq(Fetch) /\ Len(s.fetches) <= MaxFetches
  BY FetchLists DEF PageState
<1> DEFINE x == [read |-> TRUE, got |-> Upcoming(s.viewer)]
           g == [s.fetches EXCEPT ![i] = x]
           r == [s EXCEPT !.fetches = g]
<1>4. /\ i \in DOMAIN s.fetches
      /\ Step(p, r)
      /\ missed' = missed \ {p} /\ spoiled' = spoiled \ {p}
  BY <1>1 DEF ReadList
<1>5. x \in Fetch
  BY DEF Fetch, Upcoming, Committed
<1>6. /\ g \in Seq(Fetch) /\ Len(g) = Len(s.fetches) /\ DOMAIN g = DOMAIN s.fetches
      /\ g[i] = x /\ \A j \in DOMAIN g \ {i} : g[j] = s.fetches[j]
  BY <1>3, <1>4, <1>5
<1>7. x.got = Upcoming(s.viewer)
  OBVIOUS
<1> HIDE DEF x, g
<1>8. g \in BoundedSeq(Fetch, MaxFetches)
  BY <1>3, <1>6, FetchLists
<1>9. /\ r \in PageState /\ r.fetches = g /\ r.viewer = s.viewer /\ r.mounted = s.mounted
      /\ r.stream = s.stream /\ r.opened = s.opened /\ r.queue = s.queue /\ r.shown = s.shown
  BY <1>8 DEF PageState
<1> HIDE DEF r
<1>10. Streams(r)
  <2>1. s.mounted
    BY <1>2, <1>4 DEF Streams
  <2>2. \A j \in DOMAIN g : g[j].got \subseteq Upcoming(s.viewer)
    BY <1>2, <1>6, <1>7 DEF Streams
  <2> QED BY <1>2, <1>9, <2>1, <2>2 DEF Streams
<1>11. Covered(r)
  BY <1>4, <1>6, <1>7, <1>9 DEF Covered
<1> QED BY <1>2, <1>4, <1>9, <1>10, <1>11, PageMoves

(* The response is shown, or there is none.  An older list than the one    *)
(* shown spoils the page.                                                  *)
LEMMA ListIsShown ==
  ASSUME LiveIInv, NEW p \in Pages, NEW i \in 1..MaxFetches, SetItems(p, i) \/ SetError(p, i)
  PROVE  LiveIInv'
<1>1. PICK s \in PageState : s = page[p]
  BY DEF LiveIInv, LiveTyped
<1>2. /\ Streams(s) /\ missed \subseteq Pages /\ spoiled \subseteq Pages
      /\ p \notin missed \cup spoiled /\ s.mounted => Covered(s)
  BY <1>1 DEF LiveIInv, LiveTyped, Catching
<1>3. s.fetches \in Seq(Fetch) /\ Len(s.fetches) <= MaxFetches /\ MaxFetches \in Nat
  BY FetchLists, LiveConstants DEF PageState
<1>4. PICK g : g = RemoveAt(s.fetches, i)
  OBVIOUS
<1>5. i \in DOMAIN s.fetches /\ missed' = missed
  BY <1>1 DEF SetItems, SetError
<1>6. /\ g \in Seq(Fetch) /\ Len(g) = Len(s.fetches) - 1
      /\ \A j \in DOMAIN g : \E k \in DOMAIN s.fetches : g[j] = s.fetches[k]
      /\ \A k \in DOMAIN s.fetches \ {i} : \E j \in DOMAIN g : g[j] = s.fetches[k]
  <2>1. PICK f \in Seq(Fetch) : f = s.fetches
    BY <1>3
  <2>2. i \in DOMAIN f /\ g = RemoveAt(f, i)
    BY <1>4, <1>5, <2>1
  <2>3. /\ g \in Seq(Fetch) /\ Len(g) = Len(f) - 1
        /\ \A j \in DOMAIN g : \E k \in DOMAIN f : g[j] = f[k]
        /\ \A k \in DOMAIN f \ {i} : \E j \in DOMAIN g : g[j] = f[k]
    BY <2>2, FetchOver
  <2> QED BY <2>1, <2>3
<1>7. g \in BoundedSeq(Fetch, MaxFetches)
  BY <1>3, <1>6, FetchLists
<1>8. s.mounted
  BY <1>2, <1>5 DEF Streams
<1>9. \A j \in DOMAIN g : g[j].got \subseteq Upcoming(s.viewer)
  BY <1>2, <1>6 DEF Streams
<1>10. CASE SetError(p, i)
  <2> DEFINE r == [s EXCEPT !.fetches = g]
  <2>1. Step(p, r) /\ spoiled' = spoiled \cup {p}
    BY <1>1, <1>4, <1>10 DEF SetError
  <2>2. /\ r \in PageState /\ r.fetches = g /\ r.viewer = s.viewer /\ r.mounted = s.mounted
        /\ r.stream = s.stream /\ r.opened = s.opened /\ r.queue = s.queue /\ r.shown = s.shown
    BY <1>7 DEF PageState
  <2> HIDE DEF r
  <2>3. Streams(r)
    BY <1>2, <1>8, <1>9, <2>2 DEF Streams
  <2> QED BY <1>2, <1>5, <2>1, <2>2, <2>3, PageMoves
<1>11. CASE SetItems(p, i)
  <2>1. PICK f \in Fetch : f = s.fetches[i]
    BY <1>3, <1>5
  <2> DEFINE r == [s EXCEPT !.shown = f.got, !.fetches = g]
  <2>2. /\ Step(p, r) /\ f.read
        /\ spoiled' = IF s.shown \subseteq f.got THEN spoiled ELSE spoiled \cup {p}
    BY <1>1, <1>4, <1>11, <2>1 DEF SetItems
  <2>3. f.got \subseteq Changes /\ f.got \subseteq Upcoming(s.viewer)
    BY <1>2, <1>5, <2>1 DEF Fetch, Streams
  <2>4. /\ r \in PageState /\ r.fetches = g /\ r.viewer = s.viewer /\ r.mounted = s.mounted
        /\ r.stream = s.stream /\ r.opened = s.opened /\ r.queue = s.queue
        /\ r.first = s.first /\ r.shown = f.got
    BY <1>7, <2>3 DEF PageState
  <2> HIDE DEF r
  <2>5. Streams(r)
    BY <1>2, <1>8, <1>9, <2>3, <2>4 DEF Streams
  <2>6. ASSUME p \notin missed' \cup spoiled' PROVE Covered(r)
    <3>1. Covered(s) /\ s.shown \subseteq f.got
      BY <1>2, <1>5, <1>8, <2>2, <2>6
    <3>2. ASSUME NEW k \in DOMAIN s.fetches,
                 ~s.fetches[k].read \/ s.fetches[k].got = Upcoming(s.viewer)
          PROVE  Covered(r)
      <4>1. CASE k = i
        BY <2>1, <2>2, <2>4, <3>2, <4>1 DEF Covered
      <4>2. CASE k # i
        <5>1. PICK j \in DOMAIN g : g[j] = s.fetches[k]
          BY <1>6, <4>2
        <5> QED BY <2>4, <3>2, <5>1 DEF Covered
      <4> QED BY <4>1, <4>2
    <3>3. ASSUME s.shown = Upcoming(s.viewer) PROVE Covered(r)
      BY <2>3, <2>4, <3>1, <3>3 DEF Covered
    <3>4. ASSUME \/ \E c \in Changes : change[c] = "committed"
                 \/ s.queue > 0
                 \/ ~s.opened /\ ~s.first
          PROVE  Covered(r)
      BY <2>4, <3>4 DEF Covered
    <3> QED BY <3>1, <3>2, <3>3, <3>4 DEF Covered
  <2>7. spoiled' \subseteq Pages /\ spoiled \ {p} \subseteq spoiled'
    BY <1>2, <2>2
  <2> QED BY <1>2, <1>5, <2>2, <2>4, <2>5, <2>6, <2>7, PageMoves
<1> QED BY <1>10, <1>11

(* A change is delivered or refused, a notice is read.                     *)
LEMMA NoticeMoves ==
  ASSUME LiveIInv,
         (\E c \in Changes : Deliver(c) \/ RefuseChange(c)) \/ \E n \in feed : MarkRead(n)
  PROVE  LiveIInv'
<1>1. LiveTyped /\ OneNoticeEach
  BY DEF LiveIInv
<1>2. UNCHANGED <<page, missed, spoiled>>
  BY DEF Deliver, RefuseChange, MarkRead
<1>3. /\ change' \in [Changes -> {"new", "written", "committed", "cued", "refused"}]
      /\ \A c \in Changes : \A how \in {"committed", "cued"} : change'[c] = how <=> change[c] = how
      /\ mailed' \subseteq Changes
  BY <1>1 DEF LiveTyped, Deliver, RefuseChange, MarkRead
<1>4. Committed' = Committed /\ Cued' = Cued
  BY <1>3 DEF Committed, Cued
<1>5. LiveTyped' /\ OneNoticeEach'
  <2>1. CASE \E c \in Changes : Deliver(c) \/ RefuseChange(c)
    <3>1. feed' = feed
      BY <2>1 DEF Deliver, RefuseChange
    <3> QED BY <1>1, <1>2, <1>3, <1>4, <3>1 DEF LiveTyped, OneNoticeEach
  <2>2. CASE \E n \in feed : MarkRead(n)
    <3>1. PICK n \in feed : feed' = (feed \ {n}) \cup {[n EXCEPT !.read = TRUE]}
      BY <2>2 DEF MarkRead
    <3>2. PICK m \in [of : Changes, user : Participants, read : BOOLEAN] :
            m = [n EXCEPT !.read = TRUE] /\ m.of = n.of /\ m.user = n.user
      <4>1. n \in [of : Changes, user : Participants, read : BOOLEAN]
        BY <1>1 DEF LiveTyped
      <4>2. /\ [n EXCEPT !.read = TRUE] \in [of : Changes, user : Participants, read : BOOLEAN]
            /\ [n EXCEPT !.read = TRUE].of = n.of /\ [n EXCEPT !.read = TRUE].user = n.user
        BY <4>1
      <4> QED BY <4>2
    <3>3. feed' = (feed \ {n}) \cup {m}
      BY <3>1, <3>2
    <3>4. LiveTyped'
      BY <1>1, <1>2, <1>3, <3>2, <3>3 DEF LiveTyped
    <3>5. OneNoticeEach'
      <4>1. \A k \in feed' : \E l \in feed : l.of = k.of /\ l.user = k.user /\ (k # m => k = l)
            /\ (k = m => l = n)
        BY <3>2, <3>3
      <4>2. \A l \in feed : \E k \in feed' : l.of = k.of /\ l.user = k.user
        BY <3>2, <3>3
      <4>3. \A k \in feed' : k.of \in Committed
        BY <1>1, <4>1 DEF OneNoticeEach
      <4>4. \A c \in Committed, u \in Participants : \E k \in feed' : k.of = c /\ k.user = u
        BY <1>1, <4>2 DEF OneNoticeEach
      <4>5. ASSUME NEW k \in feed', NEW l \in feed', k.of = l.of, k.user = l.user PROVE k = l
        <5>1. \A a, b \in feed : a.of = b.of /\ a.user = b.user => a = b
          BY <1>1 DEF OneNoticeEach
        <5> QED BY <3>2, <3>3, <4>5, <5>1
      <4> QED BY <1>4, <4>3, <4>4, <4>5 DEF OneNoticeEach
    <3> QED BY <3>4, <3>5
  <2> QED BY <2>1, <2>2
<1>6. ASSUME NEW p \in Pages PROVE Streams(page[p])' /\ Catching(p)'
  <2>1. Streams(page[p]) /\ Catching(p)
    BY DEF LiveIInv
  <2>2. (\E c \in Changes : change[c] = "committed") => \E c \in Changes : change'[c] = "committed"
    BY <1>3
  <2>3. Streams(page[p])'
    BY <1>2, <1>4, <2>1 DEF Streams, Upcoming
  <2>4. Catching(p)'
    BY <1>2, <1>4, <2>1, <2>2 DEF Catching, Covered, Upcoming
  <2> QED BY <2>3, <2>4
<1> QED BY <1>5, <1>6 DEF LiveIInv

(* A change commits with its notices.                                      *)
LEMMA ChangeCommits ==
  ASSUME LiveIInv, NEW c \in Changes, CommitChange(c)
  PROVE  LiveIInv'
<1>1. LiveTyped /\ OneNoticeEach
  BY DEF LiveIInv
<1>2. /\ change[c] = "written" /\ change' = [change EXCEPT ![c] = "committed"]
      /\ feed' = feed \cup AddEvent(c)
      /\ UNCHANGED <<mailed, page, missed, spoiled>>
  BY DEF CommitChange
<1>3. Committed' = Committed \cup {c} /\ c \notin Committed /\ Cued' = Cued
  BY <1>1, <1>2 DEF LiveTyped, Committed, Cued
<1>4. AddEvent(c) \subseteq [of : Changes, user : Participants, read : BOOLEAN]
  <2> SUFFICES ASSUME NEW n \in AddEvent(c)
               PROVE  n \in [of : Changes, user : Participants, read : BOOLEAN]
    OBVIOUS
  <2>1. PICK u \in Participants : n = [of |-> c, user |-> u, read |-> FALSE]
    BY DEF AddEvent
  <2> QED BY <2>1
<1>5. LiveTyped'
  BY <1>1, <1>2, <1>4 DEF LiveTyped
<1>6. OneNoticeEach'
  <2>1. /\ \A n \in AddEvent(c) : n.of = c
        /\ \A u \in Participants : \E n \in AddEvent(c) : n.of = c /\ n.user = u
        /\ \A m, n \in AddEvent(c) : m.user = n.user => m = n
    <3>1. \A n \in AddEvent(c) : \E u \in Participants : n = [of |-> c, user |-> u, read |-> FALSE]
      BY DEF AddEvent
    <3>2. \A u \in Participants : [of |-> c, user |-> u, read |-> FALSE] \in AddEvent(c)
      BY DEF AddEvent
    <3>3. \A n \in AddEvent(c) : n.of = c /\ n = [of |-> c, user |-> n.user, read |-> FALSE]
      BY <3>1
    <3>4. \A m, n \in AddEvent(c) : m.user = n.user => m = n
      BY <3>3
    <3>5. \A u \in Participants : \E n \in AddEvent(c) : n.of = c /\ n.user = u
      BY <3>2
    <3> QED BY <3>3, <3>4, <3>5
  <2>2. \A n \in feed : n.of \in Committed /\ n.of # c
    BY <1>1, <1>3 DEF OneNoticeEach
  <2>3. \A n \in feed' : n.of \in Committed'
    BY <1>2, <1>3, <2>1, <2>2
  <2>4. \A d \in Committed', u \in Participants : \E n \in feed' : n.of = d /\ n.user = u
    BY <1>1, <1>2, <1>3, <2>1 DEF OneNoticeEach
  <2>5. \A m, n \in feed' : m.of = n.of /\ m.user = n.user => m = n
    BY <1>1, <1>2, <2>1, <2>2 DEF OneNoticeEach
  <2> QED BY <2>3, <2>4, <2>5 DEF OneNoticeEach
<1>7. ASSUME NEW p \in Pages PROVE Streams(page[p])' /\ Catching(p)'
  <2>1. Streams(page[p])
    BY DEF LiveIInv
  <2>2. \A viewer : Upcoming(viewer) \subseteq Upcoming(viewer)'
    BY <1>3 DEF Upcoming
  <2>3. change'[c] = "committed"
    BY <1>1, <1>2 DEF LiveTyped
  <2>4. Streams(page[p])'
    BY <1>2, <1>3, <2>1, <2>2 DEF Streams
  <2> QED BY <2>3, <2>4 DEF Catching, Covered
<1> QED BY <1>5, <1>6, <1>7 DEF LiveIInv

(* The channels of the cue have one that the viewer may subscribe to.      *)
LEMMA CarriesAtMostOne ==
  ASSUME NEW p \in Pages, page[p].viewer \in Viewers
  PROVE  /\ Carries(p) \in {0, 1}
         /\ page[p].pump = "runs" /\ page[p].viewer # "OTHER" => Carries(p) = 1
<1> DEFINE v == page[p].viewer
<1>1. CASE v = "OTHER"
  <2>1. SubscribableChannels(v) \cap AppointmentChanged = {}
    BY <1>1 DEF SubscribableChannels, AppointmentChanged
  <2> QED BY <1>1, <2>1, FS_EmptySet DEF Carries
<1>2. CASE v # "OTHER"
  <2>1. SubscribableChannels(v) \cap AppointmentChanged = {v}
    BY <1>2 DEF SubscribableChannels, AppointmentChanged, Viewers
  <2> QED BY <1>2, <2>1, FS_Singleton DEF Carries
<1> QED BY <1>1, <1>2

(* A cue is published: a stream that carries it queues it, one that is     *)
(* down will fetch when it opens again, and the others miss it.            *)
LEMMA CuePublished ==
  ASSUME LiveIInv, NEW c \in Changes, Cue(c)
  PROVE  LiveIInv'
<1>1. LiveTyped /\ OneNoticeEach
  BY DEF LiveIInv
<1>2. /\ change[c] = "committed" /\ change' = [change EXCEPT ![c] = "cued"]
      /\ page' = [p \in Pages |-> [page[p] EXCEPT !.queue = @ + Carries(p)]]
      /\ missed' = missed \cup {p \in Pages : Uncovered(p)}
      /\ UNCHANGED <<feed, mailed, spoiled>>
  BY DEF Cue
<1>3. Committed' = Committed
  BY <1>1, <1>2 DEF LiveTyped, Committed
<1>4. /\ Cardinality(Cued) \in Nat /\ Cardinality(Cued)' = Cardinality(Cued) + 1
      /\ Cardinality(Cued)' <= Cardinality(Changes) /\ Cardinality(Changes) \in Nat
  BY <1>1, <1>2, CuesCount, LiveConstants, FS_CardinalityType
<1>5. ASSUME NEW p \in Pages
      PROVE  page'[p] \in PageState /\ Streams(page[p])' /\ Catching(p)'
  <2>1. PICK s \in PageState : s = page[p]
    BY <1>1 DEF LiveTyped
  <2>2. PICK r : r = page'[p]
    OBVIOUS
  <2>3. PICK n \in {0, 1} : n = Carries(p) /\ (s.pump = "runs" /\ s.viewer # "OTHER" => n = 1)
    BY <2>1, CarriesAtMostOne DEF PageState
  <2>4. r = [s EXCEPT !.queue = @ + n]
    BY <1>2, <2>1, <2>2, <2>3
  <2>5. Streams(s) /\ Catching(p)
    BY <2>1 DEF LiveIInv
  <2>6. s.queue + n \in 0..Cardinality(Changes) /\ s.queue + n <= Cardinality(Cued)'
    <3>1. s.queue \in 0..Cardinality(Changes) /\ s.queue <= Cardinality(Cued)
      BY <2>5 DEF PageState, Streams
    <3> QED BY <1>4, <2>3, <3>1
  <2>7. /\ r \in PageState /\ r.mounted = s.mounted /\ r.stream = s.stream /\ r.fetches = s.fetches
        /\ r.viewer = s.viewer /\ r.shown = s.shown /\ r.opened = s.opened /\ r.first = s.first
        /\ r.queue = s.queue + n
    BY <2>4, <2>6 DEF PageState
  <2>8. Upcoming(s.viewer)' = Upcoming(s.viewer)
    BY <1>3 DEF Upcoming
  <2>9. Streams(page[p])'
    BY <2>2, <2>5, <2>6, <2>7, <2>8 DEF Streams, Upcoming
  <2>10. ASSUME p \notin missed' \cup spoiled', r.mounted PROVE Covered(r)'
    <3>1. ~Uncovered(p) /\ s.mounted /\ s.stream
      BY <1>2, <2>5, <2>7, <2>10 DEF Streams
    <3>2. CASE s.viewer = "OTHER"
      <4>1. s.shown = {} /\ Upcoming(r.viewer)' = {}
        BY <2>5, <2>7, <3>2 DEF Streams, Upcoming
      <4> QED BY <2>7, <4>1 DEF Covered
    <3>3. CASE s.viewer # "OTHER" /\ s.pump = "runs"
      <4>1. r.queue > 0
        BY <2>3, <2>7, <3>3 DEF PageState
      <4> QED BY <4>1 DEF Covered
    <3>4. CASE s.pump # "runs"
      <4>1. ~s.first /\ ~s.opened
        BY <2>1, <3>1, <3>4 DEF Uncovered
      <4> QED BY <2>7, <4>1 DEF Covered
    <3> QED BY <3>2, <3>3, <3>4
  <2>11. Catching(p)'
    BY <2>2, <2>10 DEF Catching, Covered
  <2> QED BY <2>2, <2>7, <2>9, <2>11
<1>6. LiveTyped'
  <2>1. page' \in [Pages -> PageState]
    BY <1>2, <1>5
  <2> QED BY <1>1, <1>2, <2>1 DEF LiveTyped
<1>7. OneNoticeEach'
  BY <1>1, <1>2, <1>3 DEF OneNoticeEach
<1> QED BY <1>5, <1>6, <1>7 DEF LiveIInv

LEMMA CueDropped ==
  ASSUME LiveIInv, NEW c \in Changes, DropCue(c)
  PROVE  LiveIInv'
<1>1. LiveTyped /\ OneNoticeEach
  BY DEF LiveIInv
<1>2. /\ change[c] = "committed" /\ change' = [change EXCEPT ![c] = "cued"]
      /\ spoiled' = spoiled \cup {p \in Pages : page[p].mounted}
      /\ UNCHANGED <<feed, mailed, page, missed>>
  BY DEF DropCue
<1>3. Committed' = Committed
  BY <1>1, <1>2 DEF LiveTyped, Committed
<1>4. /\ Cardinality(Cued) \in Nat /\ Cardinality(Cued)' = Cardinality(Cued) + 1
  BY <1>1, <1>2, CuesCount
<1>5. LiveTyped' /\ OneNoticeEach'
  BY <1>1, <1>2, <1>3 DEF LiveTyped, OneNoticeEach
<1>6. ASSUME NEW p \in Pages PROVE Streams(page[p])' /\ Catching(p)'
  <2>1. PICK s \in PageState : s = page[p]
    BY <1>1 DEF LiveTyped
  <2>2. Streams(s) /\ page'[p] = s
    BY <1>2, <2>1 DEF LiveIInv
  <2>3. s.queue <= Cardinality(Cued)'
    <3>1. Cardinality(Changes) \in Nat
      BY LiveConstants, FS_CardinalityType
    <3>2. s.queue \in 0..Cardinality(Changes) /\ s.queue <= Cardinality(Cued)
      BY <2>2 DEF PageState, Streams
    <3> QED BY <1>4, <3>1, <3>2
  <2>4. Streams(page[p])'
    BY <1>3, <2>2, <2>3 DEF Streams, Upcoming
  <2>5. Catching(p)'
    BY <1>2, <2>1, <2>2 DEF Catching
  <2> QED BY <2>4, <2>5
<1> QED BY <1>5, <1>6 DEF LiveIInv

----------------------------------------------------------------------------
(* The invariant.                                                          *)

LEMMA LiveInitially == LiveInit => LiveIInv
<1> SUFFICES ASSUME LiveInit PROVE LiveIInv
  OBVIOUS
<1>1. PICK who \in [Pages -> Viewers] :
        page = [p \in Pages |->
          [viewer |-> who[p], mounted |-> FALSE, shown |-> {}, fetches |-> << >>,
           stream |-> FALSE, opened |-> FALSE, pump |-> "none", first |-> TRUE,
           queue |-> 0, breaks |-> 0]]
  BY DEF LiveInit
<1>2. /\ change = [c \in Changes |-> "new"]
      /\ feed = {} /\ mailed = {} /\ missed = {} /\ spoiled = {}
  BY DEF LiveInit
<1>3. /\ Cardinality(Changes) \in Nat /\ Cardinality(Cued) \in Nat /\ MaxBreaks \in Nat
  BY LiveConstants, FS_Subset, FS_CardinalityType DEF Cued
<1>4. << >> \in BoundedSeq(Fetch, MaxFetches) /\ DOMAIN << >> = {}
  <2>1. << >> \in Seq(Fetch) /\ Len(<< >>) = 0 /\ MaxFetches \in Nat
    BY LiveConstants
  <2>2. DOMAIN << >> = {}
    OBVIOUS
  <2>3. Len(<< >>) <= MaxFetches
    BY <2>1
  <2>4. << >> \in BoundedSeq(Fetch, MaxFetches)
    BY ONLY <2>1, <2>3, FetchLists
  <2> QED BY ONLY <2>2, <2>4
<1>5. ASSUME NEW p \in Pages PROVE page[p] \in PageState /\ Streams(page[p]) /\ Catching(p)
  <2>1. page[p] = [viewer |-> who[p], mounted |-> FALSE, shown |-> {}, fetches |-> << >>,
                   stream |-> FALSE, opened |-> FALSE, pump |-> "none", first |-> TRUE,
                   queue |-> 0, breaks |-> 0]
    BY <1>1
  <2>2. 0 \in 0..Cardinality(Changes) /\ 0 \in 0..MaxBreaks /\ who[p] \in Viewers
    BY <1>3
  <2>3. page[p] \in PageState
    BY <1>4, <2>1, <2>2 DEF PageState
  <2>4. Streams(page[p])
    BY <1>3, <1>4, <2>1 DEF Streams
  <2> QED BY <2>1, <2>3, <2>4 DEF Catching
<1>6. LiveTyped
  BY <1>1, <1>2, <1>5 DEF LiveTyped
<1>7. OneNoticeEach
  BY <1>2 DEF OneNoticeEach, Committed
<1> QED BY <1>5, <1>6, <1>7 DEF LiveIInv

LEMMA LiveInductive == LiveIInv /\ [LiveNext]_liveVars => LiveIInv'
<1> SUFFICES ASSUME LiveIInv, [LiveNext]_liveVars PROVE LiveIInv'
  OBVIOUS
<1>1. CASE UNCHANGED liveVars
  <2>1. LiveTyped' /\ OneNoticeEach'
    BY <1>1 DEF liveVars, LiveIInv, LiveTyped, OneNoticeEach, Committed
  <2>2. ASSUME NEW p \in Pages PROVE Streams(page[p])' /\ Catching(p)'
    <3>1. Streams(page[p]) /\ Catching(p)
      BY DEF LiveIInv
    <3>2. Streams(page[p])'
      BY <1>1, <3>1 DEF liveVars, Streams, Upcoming, Committed, Cued
    <3>3. Catching(p)'
      BY <1>1, <3>1 DEF liveVars, Catching, Covered, Upcoming, Committed
    <3> QED BY <3>2, <3>3
  <2> QED BY <2>1, <2>2 DEF LiveIInv
<1>2. CASE \E c \in Changes : Deliver(c) \/ CommitChange(c) \/ RefuseChange(c) \/ Cue(c) \/ DropCue(c)
  BY <1>2, NoticeMoves, ChangeCommits, CuePublished, CueDropped
<1>3. CASE \E n \in feed : MarkRead(n)
  BY <1>3, NoticeMoves
<1>4. ASSUME NEW p \in Pages, Browser(p) PROVE LiveIInv'
  BY <1>4, PageFetches, StreamMoves, ListIsRead, ListIsShown DEF Browser
<1> QED BY <1>1, <1>2, <1>3, <1>4 DEF LiveNext

LEMMA NoticesAreOnePerParty == LiveIInv => NoticesFollowCommits
<1> SUFFICES ASSUME LiveIInv PROVE NoticesFollowCommits
  OBVIOUS
<1>1. /\ \A n \in feed : n.of \in Committed
      /\ \A c \in Committed, u \in Participants : \E n \in feed : n.of = c /\ n.user = u
      /\ \A m, n \in feed : m.of = n.of /\ m.user = n.user => m = n
  BY DEF LiveIInv, OneNoticeEach
<1>2. {n.of : n \in feed} = Committed
  <2>1. "CUSTOMER" \in Participants
    BY DEF Participants
  <2>2. \A c \in Committed : \E n \in feed : c = n.of
    BY <1>1, <2>1
  <2> QED BY <1>1, <2>2
<1>3. ASSUME NEW c \in Committed, NEW u \in Participants
      PROVE  Cardinality({n \in feed : n.of = c /\ n.user = u}) = 1
  <2>1. PICK m \in feed : m.of = c /\ m.user = u
    BY <1>1
  <2>2. {n \in feed : n.of = c /\ n.user = u} = {m}
    BY <1>1, <2>1
  <2> QED BY <2>2, FS_Singleton
<1> QED BY <1>2, <1>3 DEF NoticesFollowCommits

(* The inductive invariant holds of every behaviour of the live views, for *)
(* any changes, pages, fetches and breaks.                                 *)
THEOREM LiveInvariance == LiveSpec => []LiveIInv
<1> QED BY LiveInitially, LiveInductive, PTL DEF LiveSpec

(* Changes, feeds and pages have their types, no more cues wait than there *)
(* were changes, and each committed change left one notice for each party. *)
THEOREM LiveTypeCorrect == LiveSpec => []LiveTypeOK
<1>1. LiveIInv => LiveTypeOK
  BY NoticesAreOnePerParty DEF LiveIInv, LiveTyped, LiveTypeOK
<1> QED BY <1>1, LiveInvariance, PTL

(* useUpcomingAppointments(), events() and the bus: a connected page that  *)
(* waits for nothing shows every change, but for the exceptions named.     *)
THEOREM ConnectedPagesCatchUp == LiveSpec => []PagesCatchUp
<1>1. LiveIInv => PagesCatchUp
  <2> SUFFICES ASSUME LiveIInv, NEW p \in Pages, Settled(p), p \notin missed \cup spoiled
               PROVE  page[p].shown = Upcoming(page[p].viewer)
    BY DEF PagesCatchUp
  <2>1. Covered(page[p])
    BY DEF LiveIInv, Catching, Settled
  <2> QED BY <2>1 DEF Covered, Settled
<1> QED BY <1>1, LiveInvariance, PTL
=============================================================================
