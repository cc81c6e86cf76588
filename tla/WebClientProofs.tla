-------------------------- MODULE WebClientProofs ---------------------------
(*************************************************************************)
(* Proofs about WebClient: its types, that a hole of the list is marked by *)
(* a seam (HolesAreMarked) and that a resync brings what was posted        *)
(* meanwhile (CaughtUpWhenQuiet), for every page size, history and number  *)
(* of posts, deletes, lost sockets and pages in flight.                    *)
(*                                                                         *)
(* Neither property is inductive. A hole is not only between two messages  *)
(* of the list: it also begins at the edge of a scrollback or a fill in    *)
(* flight, whose message a delete may have taken meanwhile, and ends where *)
(* a backfill in flight goes on (Anchors, Tops). Seamed says of all of     *)
(* these that a seam comes between where a hole begins and what is missing *)
(* in it, Bottom that a message does when the start was reached. What a page carries is the table of   *)
(* the moment it was served, and PageInv says what of that is still true   *)
(* when it arrives. All of it holds only while no delete took a whole      *)
(* piece of the list.                                                      *)
(*************************************************************************)
EXTENDS WebClient, FiniteSetTheorems, WellFoundedInduction, TLAPS

(*************************************************************************)
(* The least and the greatest of a set of numbers                          *)
(*************************************************************************)

(* A set of numbers has a least one, and one with a bound a greatest.      *)
LEMMA Lowest ==
  ASSUME NEW S \in SUBSET Nat, S # {}
  PROVE  \E m \in S : \A x \in S : m <= x
<1> DEFINE R == OpToRel(<, Nat)
<1>1. IsWellFoundedOn(R, Nat)
  BY NatLessThanWellFounded
<1>2. \A x \in S, y \in S : (<<y, x>> \in R) <=> y < x
  BY DEF OpToRel
<1> HIDE DEF R
<1>3. PICK m \in S : \A y \in S : ~ (<<y, m>> \in R)
  BY <1>1, WFMin
<1>4. \A x \in S : ~ (x < m)
  BY <1>2, <1>3
<1>5. m \in Nat /\ \A x \in S : x \in Nat
  OBVIOUS
<1> QED
  BY <1>4, <1>5

LEMMA Highest ==
  ASSUME NEW p \in Nat, NEW S \in SUBSET (0..p), S # {}
  PROVE  \E m \in S : \A x \in S : x <= m
<1> DEFINE U == {y \in Nat : \A x \in S : x <= y}
<1>1. PICK m \in U : \A y \in U : m <= y
  BY Lowest, p \in U
<1>2. m \in S
  <2> SUFFICES ASSUME m \notin S PROVE FALSE
    OBVIOUS
  <2>1. m \in Nat /\ \A x \in S : x \in Nat /\ x < m
    BY <1>1
  <2>2. m - 1 \in Nat /\ \A x \in S : x <= m - 1
    <3>1. PICK x \in S : TRUE
      OBVIOUS
    <3> QED
      BY <2>1, <3>1
  <2>3. m - 1 \in U
    BY <2>2
  <2> QED
    BY <1>1, <2>1, <2>3
<1> QED
  BY <1>2

(* So Min and Max are what their names say.                                *)
LEMMA MinIs ==
  ASSUME NEW S \in SUBSET Nat, S # {}
  PROVE  Min(S) \in S /\ \A x \in S : Min(S) <= x
BY Lowest DEF Min

LEMMA MaxIs ==
  ASSUME NEW p \in Nat, NEW S \in SUBSET (0..p), S # {}
  PROVE  Max(S) \in S /\ \A x \in S : x <= Max(S)
BY Highest DEF Max

(***************************************************************************)
(* The invariant                                                           *)
(***************************************************************************)

(* What the channel has and the list lacks, though no exception covers it. *)
Missing == Live \ (held \cup jumped)
Lost == Missing \cap owed

OfOps(ops) == {f \in fetches : f.op \in ops}

(* Where a hole of the list begins: at a message, or at the edge a page in *)
(* flight reaches up to; where one ends: there too, or where a backfill    *)
(* goes on.                                                                *)
Edges == {f.edge : f \in OfOps({"older", "fill"})}
Anchors == held \cup Edges
Tops == held \cup Edges \cup {f.edge - 1 : f \in OfOps({"backfill"})}

(* From where a hole begins up to what is missing in it there is a seam.   *)
Seamed ==
    \A n \in Missing, k \in Anchors, b \in Tops : k <= n /\ n < b =>
        \E g \in gaps : k <= g /\ g <= n

(* Below a list that reached the start nothing is missing.                 *)
Bottom == reachedStart => \A n \in Missing, b \in Tops : n < b => \E h \in held : h < n

(* A seam has messages on both sides.                                      *)
SeamsAreInside == \A g \in gaps : \E h, i \in held : h <= g /\ g < i

(* A page starts from a message the list holds, or held until it was       *)
(* deleted.                                                                *)
EdgesAreKnown ==
    /\ \A f \in OfOps({"older", "fill"}) : f.edge \in held \cup gone
    /\ \A f \in OfOps({"backfill"}) : f.edge - 1 \in held \cup gone
    /\ \A f \in OfOps({"fill"}) : f.seam < f.edge

(* An empty list has no seams, is owed nothing and waits for no page that  *)
(* starts from one of its messages.                                        *)
Empty ==
    held = {} =>
        /\ gaps = {} /\ owed = {} /\ (loaded => reachedStart)
        /\ OfOps({"older", "fill", "backfill"}) = {}

(* Before the first page the list is empty.                                *)
Loading == ~loaded => held = {} /\ ~reachedStart /\ fetches = OfOps({"load", "refresh"})

(* A page has all there is between its ends, and up to its edge, and below *)
(* if it is short.                                                         *)
Solid(f, top) == \A k \in f.page, n \in Live : k < n /\ n < top => n \in f.page
Low(f, top) == \A n \in Live : n < top => n \in f.page
Short(f) == Cardinality(f.page) < Page

(* What a served page still is while the channel and the list go on.       *)
PageInv(f) ==
    /\ f.op \in {"load", "older", "around", "fill"} => \A top \in f.page : Solid(f, top)
    /\ f.op \in {"older", "fill"} => /\ \A x \in f.page : x < f.edge
                                     /\ Solid(f, f.edge)
                                     /\ Short(f) => Low(f, f.edge)
    /\ f.op = "load" /\ Short(f) => \A top \in f.page : Low(f, top)
    /\ f.op = "backfill" => /\ f.dead \subseteq f.page
                            /\ \A x \in f.page : f.edge <= x /\ f.edge..x \subseteq f.page

PagesAreWhole == \A f \in fetches : f.served => PageInv(f)

(* What a tab that follows the channel lacks is newer than something it    *)
(* holds, and if it is newer than all it holds, it is coming: its frame    *)
(* is, or there is no socket, or a resync brings it.                       *)
LostIsAbove == \A n \in Lost : \E h \in held : h < n

(* The resync that brings n.                                               *)
Brings(f, n) ==
    \/ f.op = "refresh"
    \/ f.op = "backfill" /\ (f.served => n \in f.page \/ Cardinality(f.page) >= BackPage)
Coming(n) ==
    \/ [type |-> "message_create", seq |-> n] \in frames
    \/ ~connected
    \/ \E f \in fetches : Brings(f, n)
TailComes == \A n \in Lost : (\A h \in held : h < n) => Coming(n)

(* The inductive invariant                                                 *)
ListInv ==
    /\ Seamed /\ Bottom /\ SeamsAreInside /\ EdgesAreKnown
    /\ Empty /\ Loading /\ PagesAreWhole /\ LostIsAbove /\ TailComes

IInv ==
    /\ TypeOK
    /\ \A frame \in frames : frame.type = "message_delete" => frame.seq \in gone
    /\ owed # {} => hadReady
    /\ ~severed => ListInv

-----------------------------------------------------------------------------
(* Where a message is missing, the list around it ends at some a below and *)
(* some c above, and there is a seam from a to c.                          *)
LEMMA SeamAround ==
  ASSUME TypeOK, Seamed, EdgesAreKnown,
         NEW n \in Missing, NEW k \in Anchors, NEW b \in Tops, k <= n, n < b
  PROVE  \E a \in held \cup {k}, c \in held \cup {b}, g \in gaps :
            /\ k <= a /\ a <= n /\ n < c /\ c <= b
            /\ a <= g /\ g <= n
            /\ \A h \in held : h <= a \/ c <= h
<1>0. posted \in Nat /\ held \subseteq 1..posted /\ gone \subseteq 1..posted
  BY WebClientAssumption DEF TypeOK
<1>1. Anchors \subseteq 0..posted /\ Tops \subseteq 0..posted /\ n \in 0..posted /\ held \subseteq Tops /\ held \subseteq Anchors
  <2>1. \A x \in held \cup gone : x \in 0..posted
    BY <1>0
  <2>2. Tops \subseteq 0..posted
    BY <2>1 DEF EdgesAreKnown, Tops, Edges, OfOps
  <2>3. Anchors \subseteq 0..posted
    BY <2>1 DEF EdgesAreKnown, Anchors, Edges, OfOps
  <2> QED
    BY <1>0, <2>2, <2>3 DEF Anchors, Tops, Missing, Live
<1> DEFINE Below == {h \in held \cup {k} : h <= n}
           Above == {h \in held \cup {b} : n < h}
<1>2. PICK a \in Below : \A x \in Below : x <= a
  <2>1. Below \subseteq 0..posted /\ k \in Below
    BY <1>1, <1>0
  <2> HIDE DEF Below
  <2> QED
    BY <2>1, <1>0, Highest
<1>3. PICK c \in Above : \A x \in Above : c <= x
  <2>1. Above \subseteq 0..posted /\ b \in Above
    BY <1>1, <1>0
  <2> HIDE DEF Above
  <2> QED
    BY <2>1, <1>0, Lowest
<1>4. /\ a \in held \cup {k} /\ c \in held \cup {b} /\ a \in Anchors /\ c \in Tops
      /\ k <= a /\ a <= n /\ n < c /\ c <= b
  BY <1>1, <1>2, <1>3
<1>5. \A h \in held : h <= a \/ c <= h
  BY <1>0, <1>1, <1>2, <1>3
<1>6. \E g \in gaps : a <= g /\ g <= n
  BY <1>4 DEF Seamed
<1> QED
  BY <1>4, <1>5, <1>6

(* The list has messages on both sides of it, then.                        *)
LEMMA HeldAround ==
  ASSUME TypeOK, Seamed, EdgesAreKnown, SeamsAreInside,
         NEW n \in Missing, NEW k \in Anchors, NEW b \in Tops, k <= n, n < b
  PROVE  (\E h \in held : h < n) /\ (\E i \in held : n < i)
<1>1. PICK a \in held \cup {k}, c \in held \cup {b}, g \in gaps :
            /\ k <= a /\ a <= n /\ n < c /\ c <= b
            /\ a <= g /\ g <= n
            /\ \A h \in held : h <= a \/ c <= h
  BY SeamAround
<1>2. PICK h, i \in held : h <= g /\ g < i
  BY DEF SeamsAreInside
<1>3. /\ held \subseteq Nat /\ gone \subseteq Nat /\ gaps \subseteq Nat
      /\ n \in Nat /\ n \notin held /\ held \cup gone \subseteq Nat
  BY WebClientAssumption DEF TypeOK, Missing, Live
<1>4. a \in Nat /\ c \in Nat /\ g \in Nat /\ h \in Nat /\ i \in Nat
  BY <1>1, <1>2, <1>3 DEF EdgesAreKnown, Anchors, Tops, Edges
<1>5. h < n
  BY <1>1, <1>2, <1>3, <1>4
<1>6. c <= i
  BY <1>1, <1>2, <1>4
<1> QED
  BY <1>1, <1>3, <1>4, <1>5, <1>6

(* Messages leave the list, but no piece of it as a whole: where one was   *)
(* below or above something missing, one still is, and so for a seam.      *)
LEMMA PiecesStay ==
  ASSUME TypeOK, Seamed, EdgesAreKnown, SeamsAreInside,
         NEW D, \A s \in held : \E h \in Piece(s) : h \notin D
  PROVE  /\ \A n \in Missing : (\E h \in held : h < n) => \E h \in held \ D : h < n
         /\ \A n \in Missing : (\E h \in held : h < n) /\ (\E h \in held : n < h) => \E h \in held \ D : n < h
         /\ \A g \in gaps : \E h, i \in held \ D : h <= g /\ g < i
<1>0. /\ posted \in Nat /\ held \subseteq Nat /\ gaps \subseteq Nat /\ Missing \subseteq Nat
      /\ held \cap Missing = {} /\ held \subseteq Anchors /\ held \subseteq Tops
  BY WebClientAssumption DEF TypeOK, Missing, Live, Anchors, Tops
<1>1. \A s, x \in held : x \in Piece(s) <=> \A g \in gaps : ~(s <= g /\ g < x) /\ ~(x <= g /\ g < s)
  BY DEF Piece, Between
<1>2. \A s \in held : \E x \in held \ D : \A g \in gaps : ~(s <= g /\ g < x) /\ ~(x <= g /\ g < s)
  BY <1>1 DEF Piece
<1>4. ASSUME NEW n \in Missing, NEW k \in held, NEW b \in held, k < n, n < b
      PROVE  (\E h \in held \ D : h < n) /\ (\E h \in held \ D : n < h)
  <2>1. PICK a \in held, c \in held, g \in gaps :
            /\ a <= n /\ n < c /\ a <= g /\ g <= n
            /\ \A h \in held : h <= a \/ c <= h
    BY <1>0, <1>4, SeamAround
  <2>2. PICK x \in held \ D : \A j \in gaps : ~(a <= j /\ j < x) /\ ~(x <= j /\ j < a)
    BY <1>2
  <2>3. PICK y \in held \ D : \A j \in gaps : ~(c <= j /\ j < y) /\ ~(y <= j /\ j < c)
    BY <1>2
  <2>4. x # n /\ y # n /\ x \in Nat /\ y \in Nat /\ a \in Nat /\ c \in Nat /\ g \in Nat /\ n \in Nat
    BY <1>0
  <2>5. x < n
    BY <2>1, <2>2, <2>4
  <2>6. n < y
    BY <2>1, <2>3, <2>4
  <2> QED
    BY <2>5, <2>6
<1>5. ASSUME NEW n \in Missing, NEW k \in held, k < n
      PROVE  \E h \in held \ D : h < n
  <2>1. CASE \E b \in held : n < b
    BY <2>1, <1>4, <1>5
  <2>2. CASE \A b \in held : ~(n < b)
    <3>1. PICK x \in held \ D : TRUE
      BY <1>2
    <3> QED
      BY <1>0, <3>1, <2>2
  <2> QED
    BY <2>1, <2>2
<1>6. ASSUME NEW g \in gaps
      PROVE  \E h, i \in held \ D : h <= g /\ g < i
  <2>1. PICK k, b \in held : k <= g /\ g < b
    BY DEF SeamsAreInside
  <2>2. PICK x \in held \ D : \A j \in gaps : ~(k <= j /\ j < x) /\ ~(x <= j /\ j < k)
    BY <1>2
  <2>3. PICK y \in held \ D : \A j \in gaps : ~(b <= j /\ j < y) /\ ~(y <= j /\ j < b)
    BY <1>2
  <2>4. x <= g /\ g < y
    BY <1>0, <2>1, <2>2, <2>3
  <2> QED
    BY <2>4
<1> QED
  BY <1>4, <1>5, <1>6

-----------------------------------------------------------------------------
(* The bounds the types give.                                              *)
LEMMA Ranges ==
  ASSUME TypeOK
  PROVE  /\ posted \in Nat /\ held \subseteq 1..posted /\ gone \subseteq 1..posted
         /\ gaps \subseteq 1..posted /\ Missing \subseteq 1..posted /\ Live \subseteq 1..posted
         /\ \A n \in held \cup gone \cup gaps \cup Missing : n \in Nat /\ 1 <= n /\ n <= posted
         /\ held \cap Missing = {} /\ gone \cap Missing = {} /\ Missing \subseteq Live
         /\ \A f \in fetches :
               /\ f.edge \in Nat /\ f.served \in BOOLEAN
               /\ \A n \in f.page : n \in Nat /\ 1 <= n /\ n <= posted
BY WebClientAssumption DEF TypeOK, Missing, Live, Fetches

LEMMA LastIs ==
  ASSUME TypeOK, held # {}
  PROVE  LastSeq \in held /\ \A h \in held : h <= LastSeq
<1>1. posted \in Nat /\ held \subseteq 0..posted
  BY Ranges
<1> QED
  BY <1>1, MaxIs DEF LastSeq, LastSeqOf

(* A fetch just sent starts from the list.                                 *)
Fresh(f) ==
    /\ f.op \in {"older", "fill"} => f.edge \in held
    /\ f.op = "fill" => f.seam < f.edge
    /\ f.op = "backfill" => f.edge - 1 \in held

(* While the list rests, whatever is posted, deleted or asked for, its     *)
(* holes stay what they are.                                               *)
LEMMA ListRests ==
  ASSUME TypeOK, ListInv, UNCHANGED <<held, gaps, reachedStart>>,
         gone \subseteq gone', jumped \subseteq jumped', \A n \in Live' : n \in Live \/ n > posted,
         \A n \in Live' : n \in Nat,
         \A f \in fetches' : f.op \in {"older", "fill", "backfill"} =>
            Fresh(f) \/ \E g \in fetches : g.op = f.op /\ g.edge = f.edge /\ g.seam = f.seam
  PROVE  Seamed' /\ Bottom' /\ SeamsAreInside' /\ EdgesAreKnown'
<1>0. /\ \A n \in Missing' : n \in Nat /\ (n \in Missing \/ n > posted)
  BY DEF Missing
<1>1. \A n \in held \cup gone : n \in Nat /\ 1 <= n /\ n <= posted
  BY Ranges
<1>2. EdgesAreKnown'
  BY DEF ListInv, EdgesAreKnown, OfOps, Fresh
<1>3. Tops' \subseteq Tops /\ Anchors' \subseteq Anchors
  BY DEF Tops, Anchors, Edges, OfOps, Fresh
<1>4. \A b \in Tops : b \in Nat /\ b <= posted
  BY <1>1 DEF Tops, Edges, OfOps, ListInv, EdgesAreKnown
<1>5. Seamed'
  BY <1>0, <1>3, <1>4, Ranges DEF ListInv, Seamed
<1>6. Bottom'
  BY <1>0, <1>3, <1>4, Ranges DEF ListInv, Bottom
<1>7. SeamsAreInside'
  BY DEF ListInv, SeamsAreInside
<1> QED
  BY <1>2, <1>5, <1>6, <1>7

(* A served page stays what it is: a post is newer than it.                *)
LEMMA PageRests ==
  ASSUME TypeOK, EdgesAreKnown, NEW f \in fetches, PageInv(f),
         \A n \in Live' : n \in Nat /\ (n \in Live \/ n > posted)
  PROVE  PageInv(f)'
<1>1. /\ \A n \in f.page : n \in Nat /\ n <= posted
      /\ f.edge \in Nat /\ (f.op \in {"older", "fill"} => f.edge <= posted)
  BY Ranges DEF EdgesAreKnown, OfOps
<1>2. ASSUME NEW top \in Nat, top <= posted
      PROVE  (Solid(f, top) => Solid(f, top)') /\ (Low(f, top) => Low(f, top)')
  BY <1>2, Ranges DEF Solid, Low
<1> QED
  BY <1>1, <1>2 DEF PageInv, Short

LEMMA PagesRest ==
  ASSUME TypeOK, ListInv,
         \A n \in Live' : n \in Nat /\ (n \in Live \/ n > posted),
         \A f \in fetches' : f.served => f \in fetches \/ f.op = "refresh"
  PROVE  PagesAreWhole'
BY PageRests DEF PagesAreWhole, ListInv, PageInv

(* A fetch is sent by a list that is ready for its answer.                 *)
Sent(f) ==
    /\ Fresh(f)
    /\ f.op \in {"older", "around", "fill", "backfill"} => loaded

Rests ==
    /\ UNCHANGED <<held, gaps, loaded, reachedStart>>
    /\ gone \subseteq gone' /\ jumped \subseteq jumped'
    /\ \A n \in Live' : n \in Nat /\ (n \in Live \/ n > posted)
    /\ \A f \in fetches' :
          /\ f.op \in Ops
          /\ Sent(f) \/ \E g \in fetches : g.op = f.op /\ g.edge = f.edge /\ g.seam = f.seam
    /\ \A n \in owed' : n \in owed \/ (n > posted /\ held # {})

LEMMA RestingList ==
  ASSUME TypeOK, ListInv, Rests
  PROVE  /\ Seamed' /\ Bottom' /\ SeamsAreInside' /\ EdgesAreKnown'
         /\ Empty' /\ Loading' /\ LostIsAbove'
         /\ \A n \in Lost' : n \in Lost \/ n > posted
<1>1. Seamed' /\ Bottom' /\ SeamsAreInside' /\ EdgesAreKnown'
  BY ListRests DEF Rests, Sent
<1>2. Empty'
  BY DEF Rests, Sent, Fresh, ListInv, Empty, OfOps, Loading
<1>3. Loading'
  BY DEF Rests, Sent, ListInv, Loading, OfOps, Ops
<1>4. \A n \in Lost' : n \in Lost \/ (n > posted /\ held # {})
  BY WebClientAssumption DEF Lost, Missing, Rests, TypeOK
<1>5. LostIsAbove'
  <2> SUFFICES ASSUME NEW n \in Lost'
               PROVE  \E h \in held' : h < n
    BY DEF LostIsAbove
  <2>1. CASE n \in Lost
    BY <2>1 DEF ListInv, LostIsAbove, Rests
  <2>2. CASE n > posted /\ held # {}
    <3>1. PICK h \in held : h \in Nat /\ h <= posted
      BY <2>2, Ranges
    <3>2. n \in Nat /\ held' = held
      BY DEF Rests, Lost, Missing
    <3> QED
      BY <2>2, <3>1, <3>2, Ranges
  <2> QED
    BY <1>4, <2>1, <2>2
<1> QED
  BY <1>1, <1>2, <1>3, <1>4, <1>5

LEMMA PostKeeps ==
  ASSUME TypeOK, ListInv, Post
  PROVE  ListInv'
<1>1. Rests
  BY Ranges DEF Post, Rests, listVars, Live, TypeOK, Fetches
<1>2. PagesAreWhole'
  BY PagesRest, <1>1 DEF Post, Rests
<1>3. TailComes'
  <2> SUFFICES ASSUME NEW n \in Lost', \A h \in held' : h < n
               PROVE  Coming(n)'
    BY DEF TailComes
  <2>1. CASE n \in Lost
    BY <2>1 DEF ListInv, TailComes, Coming, Post, listVars, socketVars, Brings
  <2>2. CASE n > posted
    BY <2>2, Ranges DEF Coming, Post, Lost, Missing, Live
  <2> QED
    BY <1>1, <2>1, <2>2, RestingList
<1> QED
  BY <1>1, <1>2, <1>3, RestingList DEF ListInv

LEMMA DeleteKeeps ==
  ASSUME TypeOK, ListInv, NEW s \in 1..MaxPosts, Delete(s)
  PROVE  ListInv'
<1>1. Rests
  BY Ranges DEF Delete, Rests, listVars, history, Live, TypeOK, Fetches
<1>2. PagesAreWhole'
  BY PagesRest, <1>1 DEF Delete, Rests
<1>3. TailComes'
  <2> SUFFICES ASSUME NEW n \in Lost', \A h \in held' : h < n
               PROVE  Coming(n)'
    BY DEF TailComes
  <2>1. n \in Lost
    BY Ranges DEF Delete, listVars, history, Lost, Missing, Live
  <2> QED
    BY <2>1 DEF ListInv, TailComes, Coming, Delete, listVars, socketVars, Brings
<1> QED
  BY <1>1, <1>2, <1>3, RestingList DEF ListInv

LEMMA MissKeeps ==
  ASSUME TypeOK, ListInv, NEW frame, Miss(frame)
  PROVE  ListInv'
<1>1. Rests
  BY Ranges DEF Miss, Rests, listVars, history, Live, TypeOK, Fetches
<1>2. PagesAreWhole'
  BY PagesRest, <1>1 DEF Miss, Rests
<1>3. TailComes'
  BY DEF TailComes, Coming, Miss, socketVars
<1> QED
  BY <1>1, <1>2, <1>3, RestingList DEF ListInv

LEMMA LossKeeps ==
  ASSUME TypeOK, ListInv, LinkLost \/ ServerBounces
  PROVE  ListInv'
<1>1. Rests
  <2>1. CASE LinkLost
    BY <2>1, Ranges DEF LinkLost, Rests, serverVars, listVars, history, Live, TypeOK, Fetches
  <2>2. CASE ServerBounces
    BY <2>2, Ranges DEF ServerBounces, Rests, listVars, history, Live, TypeOK, Fetches
  <2> QED
    BY <2>1, <2>2
<1>2. PagesAreWhole'
  BY PagesRest, <1>1 DEF LinkLost, ServerBounces, Rests
<1>3. TailComes'
  BY DEF TailComes, Coming, LinkLost, ServerBounces, LoseSocket
<1> QED
  BY <1>1, <1>2, <1>3, RestingList DEF ListInv

LEMMA ConnectKeeps ==
  ASSUME TypeOK, ListInv, owed # {} => hadReady, Connect
  PROVE  ListInv'
<1>0. \A f \in fetches' : f \in fetches \/ (f = Refresh /\ hadReady)
  BY DEF Connect
<1>1. Rests
  BY <1>0, Ranges DEF Connect, Rests, Sent, Fresh, Refresh, Fetch, serverVars, listVars, history, Live, TypeOK, Fetches, Ops
<1>2. PagesAreWhole'
  BY PagesRest, <1>0, <1>1 DEF Rests, Refresh, Fetch
<1>3. TailComes'
  <2> SUFFICES ASSUME NEW n \in Lost', \A h \in held' : h < n
               PROVE  Coming(n)'
    BY DEF TailComes
  <2>1. hadReady /\ Refresh \in fetches'
    BY DEF Connect, Lost, history
  <2> QED
    BY <2>1 DEF Coming, Brings, Refresh, Fetch
<1> QED
  BY <1>1, <1>2, <1>3, RestingList DEF ListInv

LEMMA AskKeeps ==
  ASSUME TypeOK, ListInv, Reader
  PROVE  ListInv'
<1>0. PICK f : Ask(f) /\ f.op \in Ops /\ Sent(f) /\ ~f.served
  <2>1. CASE EnsureLoaded
    BY <2>1 DEF EnsureLoaded, Fetch, Ops, Sent, Fresh
  <2>2. CASE FetchOlder
    <3>1. held # {}
      BY <2>2 DEF FetchOlder, ListInv, Empty
    <3>2. Min(held) \in held /\ \A h \in held : Min(held) <= h
      BY <3>1, Ranges, MinIs
    <3> QED
      BY <2>2, <3>1, <3>2 DEF FetchOlder, Fetch, Ops, Sent, Fresh
  <2>3. CASE \E s \in 1..MaxPosts : EnsureAround(s)
    BY <2>3 DEF EnsureAround, Fetch, Ops, Sent, Fresh
  <2>4. CASE \E p \in (1..MaxPosts) \X (1..MaxPosts) : FillGap(p)
    <3>1. PICK p \in (1..MaxPosts) \X (1..MaxPosts) : FillGap(p)
      BY <2>4
    <3>2. p[2] \in held
      BY <3>1 DEF FillGap, Neighbours
    <3>3. loaded
      BY <3>2 DEF ListInv, Loading
    <3>4. p[1] < p[2]
      BY <3>1 DEF FillGap, Neighbours
    <3> QED
      BY <3>1, <3>2, <3>3, <3>4 DEF FillGap, Fetch, Ops, Sent, Fresh
  <2> QED
    BY <2>1, <2>2, <2>3, <2>4 DEF Reader
<1>1. Rests
  BY <1>0, Ranges DEF Ask, Rests, serverVars, listVars, history, Live, TypeOK, Fetches
<1>2. PagesAreWhole'
  BY PagesRest, <1>0, <1>1 DEF Rests, Ask
<1>3. TailComes'
  BY <1>0 DEF Ask, TailComes, Coming, Lost, Missing, Live, serverVars, socketVars, listVars, history, ListInv, Brings
<1> QED
  BY <1>1, <1>2, <1>3, RestingList DEF ListInv

LEMMA RefreshKeeps ==
  ASSUME TypeOK, ListInv, NEW f, Arrive(f), ChannelsRefreshed(f)
  PROVE  ListInv'
<1>0. /\ UNCHANGED <<posted, gone, frames, connected, held, loaded, reachedStart, gaps, jumped, owed>>
  BY DEF Arrive, ChannelsRefreshed, serverVars, socketVars, listVars
<1>1. held # {} => LastSeq \in held
  BY LastIs
<1>2. \A g \in fetches' : g \in fetches \/ (held # {} /\ g = Fetch("backfill", LastSeq + 1, f.edge))
  BY DEF ChannelsRefreshed
<1>3. \A g \in fetches' : g.op \in Ops /\ (g \in fetches \/ (Sent(g) /\ ~g.served))
  <2> SUFFICES ASSUME NEW g \in fetches', held # {}, g = Fetch("backfill", LastSeq + 1, f.edge)
               PROVE  g.op \in Ops /\ Sent(g) /\ ~g.served
    BY <1>2 DEF TypeOK, Fetches
  <2>1. LastSeq \in Nat /\ LastSeq + 1 - 1 = LastSeq
    BY <1>1, Ranges
  <2>2. g.op = "backfill" /\ g.edge - 1 \in held /\ g.served = FALSE
    BY <1>1, <2>1 DEF Fetch
  <2>3. loaded
    BY DEF ListInv, Loading
  <2> QED
    BY <2>2, <2>3 DEF Sent, Fresh, Ops
<1>4. Rests
  BY <1>0, <1>3, Ranges DEF Rests, Live
<1>5. PagesAreWhole'
  BY PagesRest, <1>3, <1>4 DEF Rests
<1>6. TailComes'
  <2> SUFFICES ASSUME NEW n \in Lost', \A h \in held' : h < n
               PROVE  Coming(n)'
    BY DEF TailComes
  <2>1. n \in Lost
    BY <1>0 DEF Lost, Missing, Live
  <2>2. held # {}
    BY <2>1 DEF ListInv, LostIsAbove
  <2>3. Fetch("backfill", LastSeq + 1, f.edge) \in fetches'
    BY <2>2 DEF ChannelsRefreshed
  <2> QED
    BY <2>3 DEF Coming, Brings, Fetch
<1> QED
  BY <1>4, <1>5, <1>6, RestingList DEF ListInv

-----------------------------------------------------------------------------
(* The pages the server answers with.                                      *)
LEMMA PageIsWhole ==
  ASSUME TypeOK, NEW edge \in Nat
  PROVE  /\ PageBelow(edge) \subseteq {n \in Live : n < edge}
         /\ \A k \in PageBelow(edge), n \in Live : k < n /\ n < edge => n \in PageBelow(edge)
         /\ Cardinality(PageBelow(edge)) < Page => \A n \in Live : n < edge => n \in PageBelow(edge)
<1> DEFINE B == {n \in Live : n < edge}
           P == PageBelow(edge)
           Over(n) == {t \in B : t > n}
<1>1. P = {n \in B : Cardinality(Over(n)) < Page}
  BY DEF PageBelow
<1>2. posted \in Nat /\ B \subseteq 1..posted /\ IsFiniteSet(1..posted) /\ Page \in Nat \ {0}
  BY Ranges, FS_Interval, WebClientAssumption
<1>3. IsFiniteSet(B) /\ P \subseteq B
  BY <1>1, <1>2, FS_Subset
<1> HIDE DEF P
<1>4. \A S \in SUBSET B : IsFiniteSet(S) /\ Cardinality(S) \in Nat
  BY <1>3, FS_Subset, FS_CardinalityType
<1>5. ASSUME NEW k \in P, NEW n \in Live, k < n, n < edge
      PROVE  n \in P
  <2>1. k \in Nat /\ n \in Nat
    BY <1>3, <1>5, Ranges
  <2>2. Over(n) \subseteq Over(k)
    BY <1>2, <1>5, <2>1
  <2>3. Over(k) \in SUBSET B /\ Over(n) \in SUBSET B
    OBVIOUS
  <2> HIDE DEF Over
  <2>4. Cardinality(Over(n)) <= Cardinality(Over(k))
    BY <1>4, <2>2, <2>3, FS_Subset
  <2>5. n \in B
    BY <1>5
  <2> QED
    BY <1>1, <1>2, <1>4, <2>3, <2>4, <2>5
<1>6. ASSUME Cardinality(P) < Page, NEW m \in B, m \notin P
      PROVE  FALSE
  <2> DEFINE Out == B \ P
  <2>1. PICK n \in Out : \A x \in Out : x <= n
    <3>1. Out \subseteq 0..posted /\ m \in Out
      BY <1>2, <1>6
    <3> HIDE DEF Out
    <3> QED
      BY <1>2, <3>1, Highest
  <2>2. Over(n) \subseteq P
    BY <1>2, <2>1
  <2>3. Cardinality(Over(n)) <= Cardinality(P)
    BY <1>3, <1>4, <2>2, FS_Subset
  <2>4. Cardinality(Over(n)) \in Nat /\ Cardinality(P) \in Nat
    BY <1>3, <1>4
  <2>5. n \in P
    BY <1>1, <1>2, <1>6, <2>1, <2>3, <2>4
  <2> QED
    BY <2>1, <2>5
<1> QED
  BY <1>3, <1>5, <1>6 DEF P

LEMMA BackPageIs ==
  ASSUME TypeOK, NEW edge \in Nat, NEW n \in Nat, edge <= n, n <= posted, edge # 0
  PROVE  n \in PageFrom(edge) \/ Cardinality(PageFrom(edge)) >= BackPage
<1>1. posted \in Nat /\ BackPage \in Nat \ {0}
  BY Ranges, WebClientAssumption
<1>2. PageFrom(edge) \subseteq 1..posted /\ IsFiniteSet(PageFrom(edge))
  <2>1. PageFrom(edge) \subseteq 1..posted
    BY DEF PageFrom
  <2>2. IsFiniteSet(1..posted)
    BY <1>1, FS_Interval
  <2> QED
    BY <2>1, <2>2, FS_Subset
<1>3. CASE n < edge + BackPage
  BY <1>1, <1>3 DEF PageFrom
<1>4. CASE edge + BackPage <= n
  <2>1. edge..(edge + BackPage - 1) \subseteq PageFrom(edge)
    BY <1>1, <1>4 DEF PageFrom
  <2>2. IsFiniteSet(edge..(edge + BackPage - 1)) /\ Cardinality(edge..(edge + BackPage - 1)) = BackPage
    BY <1>1, FS_Interval
  <2>3. Cardinality(edge..(edge + BackPage - 1)) <= Cardinality(PageFrom(edge))
    BY <1>2, <2>1, FS_Subset
  <2> QED
    BY <1>1, <1>2, <2>2, <2>3, FS_CardinalityType
<1> QED
  BY <1>1, <1>3, <1>4

(* Where a hole may end, nothing that is newer than the whole list is      *)
(* missing below.                                                          *)
LEMMA TailIsAbove ==
  ASSUME TypeOK, ListInv, NEW b \in Tops, NEW n \in Missing, \A h \in held : h < n
  PROVE  ~(n < b)
<1>1. held # {}
  BY DEF Tops, Edges, ListInv, Empty, OfOps
<1>2. PICK k \in held : k < n
  BY <1>1
<1>3. k \in Anchors /\ k <= n
  BY <1>2, Ranges DEF Anchors
<1>4. SUFFICES ASSUME n < b PROVE FALSE
  OBVIOUS
<1>5. PICK i \in held : n < i
  BY <1>3, <1>4, HeldAround DEF ListInv
<1> QED
  BY <1>5, Ranges

(* Nothing is missing where a backfill has been.                           *)
LEMMA BackfillIsAbove ==
  ASSUME TypeOK, ListInv, NEW f \in OfOps({"backfill"}), NEW n \in Missing,
         \A h \in held : h < n
  PROVE  f.edge <= n
<1>1. f.edge - 1 \in Tops /\ f.edge - 1 \in held \cup gone
  BY DEF Tops, ListInv, EdgesAreKnown
<1>2. n # f.edge - 1 /\ n \in Nat /\ f.edge \in Nat /\ f.edge - 1 \in Nat
  BY <1>1, Ranges DEF OfOps
<1>3. ~(n < f.edge - 1)
  BY <1>1, TailIsAbove
<1> QED
  BY <1>2, <1>3

LEMMA ServeKeeps ==
  ASSUME TypeOK, ListInv, NEW f \in fetches, Serve(f)
  PROVE  ListInv'
<1> DEFINE page == IF f.op = "backfill" THEN PageFrom(f.edge) ELSE PageBelow(f.edge)
           new == [f EXCEPT !.served = TRUE, !.page = page, !.dead = page \cap gone]
<1>0. f \in Fetches /\ f.edge \in Nat /\ ~f.served
  BY DEF TypeOK, Serve, Fetches
<1>1. /\ UNCHANGED <<posted, gone, frames, connected, held, loaded, reachedStart, gaps, jumped, owed>>
      /\ fetches' = (fetches \ {f}) \cup {new}
  BY DEF Serve, serverVars, socketVars, listVars, history
<1>2. /\ new.op = f.op /\ new.edge = f.edge /\ new.seam = f.seam /\ new.served = TRUE
      /\ new.page = page /\ new.dead = page \cap gone
  BY <1>0 DEF Fetches
<1> HIDE DEF new
<1>3. Rests
  BY <1>0, <1>1, <1>2, Ranges DEF Rests, Live, Fetches, TypeOK
<1>4. f.op # "backfill" =>
         /\ page \subseteq {n \in Live : n < f.edge}
         /\ \A k \in page, n \in Live : k < n /\ n < f.edge => n \in page
         /\ Cardinality(page) < Page => \A n \in Live : n < f.edge => n \in page
  BY <1>0, PageIsWhole
<1>5. f.op = "backfill" => page = {s \in 1..posted : f.edge <= s /\ s < f.edge + BackPage}
  BY DEF PageFrom
<1> HIDE DEF page
<1>6. PageInv(new)
  <2>1. CASE f.op = "backfill"
    <3>1. f.edge \in Nat \ {0}
      BY <1>0, <2>1, Ranges DEF ListInv, EdgesAreKnown, OfOps
    <3>2. posted \in Nat /\ BackPage \in Nat
      BY Ranges, WebClientAssumption
    <3>3. \A x \in page : f.edge <= x /\ f.edge..x \subseteq page
      BY <1>5, <2>1, <3>1, <3>2
    <3> QED
      BY <1>2, <2>1, <3>3 DEF PageInv
  <2>2. CASE f.op # "backfill"
    <3>1. \A top \in page : Solid(new, top)
      BY <1>0, <1>2, <1>4, <2>2, Ranges DEF Solid
    <3>2. Solid(new, f.edge)
      BY <1>0, <1>2, <1>4, <2>2 DEF Solid
    <3>3. Short(new) => Low(new, f.edge)
      BY <1>0, <1>2, <1>4, <2>2 DEF Short, Low
    <3>4. Short(new) => \A top \in page : Low(new, top)
      BY <1>0, <1>2, <1>4, <2>2, Ranges DEF Short, Low
    <3>5. \A x \in page : x < f.edge
      BY <1>4, <2>2
    <3> QED
      BY <1>2, <2>2, <3>1, <3>2, <3>3, <3>4, <3>5 DEF PageInv
  <2> QED
    BY <2>1, <2>2
<1>7. PagesAreWhole'
  <2> SUFFICES ASSUME NEW g \in fetches', g.served PROVE PageInv(g)'
    BY DEF PagesAreWhole
  <2>1. PageInv(g)
    BY <1>1, <1>6 DEF ListInv, PagesAreWhole
  <2> QED
    BY <1>1, <2>1 DEF PageInv, Solid, Low, Short, Live
<1>8. TailComes'
  <2> SUFFICES ASSUME NEW n \in Lost', \A h \in held' : h < n
               PROVE  Coming(n)'
    BY DEF TailComes
  <2>1. n \in Lost /\ n \in Missing /\ \A h \in held : h < n
    BY <1>1 DEF Lost, Missing, Live
  <2>2. Coming(n)
    BY <2>1 DEF ListInv, TailComes
  <2>3. ASSUME Brings(f, n)
        PROVE  Brings(new, n)
    <3>1. CASE f.op = "backfill"
      <4>1. f.edge \in Nat \ {0} /\ f.edge <= n
        BY <1>0, <2>1, <3>1, BackfillIsAbove, Ranges DEF ListInv, EdgesAreKnown, OfOps
      <4>2. n \in Nat /\ n <= posted
        BY <2>1, Ranges
      <4>3. n \in page \/ Cardinality(page) >= BackPage
        BY <3>1, <4>1, <4>2, BackPageIs DEF page
      <4> QED
        BY <1>2, <3>1, <4>3 DEF Brings
    <3> QED
      BY <1>2, <2>3, <3>1 DEF Brings
  <2>4. CASE \E g \in fetches : Brings(g, n)
    BY <1>1, <2>3, <2>4 DEF Coming, Brings
  <2> QED
    BY <1>1, <2>2, <2>4 DEF Coming
<1> QED
  BY <1>3, <1>7, <1>8, RestingList DEF ListInv

-----------------------------------------------------------------------------
(* Live frames                                                             *)

(* Next to a message, what is missing and no hole of its own has a message *)
(* of the list in between.                                                 *)
LEMMA BesideHole ==
  ASSUME TypeOK, NEW x \in 0..posted, NEW n \in Missing, n \notin Hole(x), n # x
  PROVE  /\ n < x => \E m \in held : n < m /\ m <= x
         /\ x < n /\ (\E h \in held : n < h) => \E m \in held : x <= m /\ m < n
<1>0. posted \in Nat /\ held \cup {x} \subseteq 0..posted /\ n \in Nat /\ 1 <= n /\ x \in Nat /\ held \subseteq Nat /\ n \notin held
  BY Ranges
<1>1. Max(held \cup {x}) \in Nat /\ \A y \in held \cup {x} : y <= Max(held \cup {x})
  <2>1. Max(held \cup {x}) \in held \cup {x} /\ \A y \in held \cup {x} : y <= Max(held \cup {x})
    BY <1>0, MaxIs
  <2> QED
    BY <1>0, <2>1
<1>2. ASSUME NEW y \in held \cup {x}, n < y
      PROVE  \E m \in held : m \in n..x \/ m \in x..n
  <2>1. y <= Max(held \cup {x}) /\ y \in Nat
    BY <1>0, <1>1
  <2>2. n \in 1..Max(held \cup {x}) \ {x}
    BY <1>0, <1>1, <1>2, <2>1
  <2> QED
    BY <2>2 DEF Hole
<1>3. n < x => \E m \in held : n < m /\ m <= x
  BY <1>0, <1>2
<1>4. ASSUME x < n, NEW h \in held, n < h
      PROVE  \E m \in held : x <= m /\ m < n
  BY <1>0, <1>2, <1>4
<1> QED
  BY <1>3, <1>4

LEMMA CreateKeeps ==
  ASSUME TypeOK, ListInv, NEW frame \in frames, frame.type = "message_create",
         connected, frames' = frames \ {frame}, ApplyCreate(frame.seq),
         UNCHANGED <<posted, gone, socketVars, losses, owed>>
  PROVE  ListInv'
<1> DEFINE s == frame.seq
<1>0. /\ s \in Nat /\ 1 <= s /\ s <= posted
      /\ UNCHANGED <<posted, gone, connected, loaded, reachedStart, gaps, fetches, owed, Live>>
  BY Ranges DEF TypeOK, ApplyCreate, socketVars, Live
<1>1. PagesAreWhole'
  BY <1>0, PagesRest, Ranges
<1>2. \A n \in Lost : n # s /\ Coming(n) => Coming(n)'
  BY <1>0 DEF Coming, Brings
<1>3. CASE held' = held
  <2>1. Rests
    BY <1>0, <1>3, Ranges DEF ApplyCreate, Rests, TypeOK, Fetches
  <2>2. TailComes'
    <3> SUFFICES ASSUME NEW n \in Lost', \A h \in held' : h < n
                 PROVE  Coming(n)'
      BY DEF TailComes
    <3>1. n \in Lost /\ Coming(n)
      BY <1>0, <1>3, <2>1, RestingList, Ranges DEF Lost, Missing, ListInv, TailComes, Rests
    <3>2. n # s
      <4>1. held # {}
        BY <3>1 DEF ListInv, LostIsAbove
      <4>2. held' = held \cup {s}
        BY <4>1 DEF ListInv, Loading, ApplyCreate
      <4> QED
        BY <1>3, <3>1, <4>2, Ranges DEF Lost
    <3> QED
      BY <1>2, <3>1, <3>2
  <2> QED
    BY <1>1, <2>1, <2>2, RestingList DEF ListInv
<1>4. CASE held' # held
  <2>1. loaded /\ held' = held \cup {s} /\ jumped' = jumped \cup Hole(s) /\ s \notin held
    BY <1>4 DEF ApplyCreate
  <2>2. Missing' = Missing \ (Hole(s) \cup {s}) /\ Lost' = Lost \ (Hole(s) \cup {s})
    BY <1>0, <2>1 DEF Missing, Lost, Live
  <2>3. ASSUME NEW n \in Missing', n < s
        PROVE  \E m \in held : n < m /\ m <= s
    BY <1>0, <2>2, <2>3, BesideHole
  <2>4. ASSUME NEW n \in Missing', s < n, NEW h \in held, n < h
        PROVE  \E m \in held : s <= m /\ m < n
    BY <1>0, <2>2, <2>4, BesideHole
  <2>5. Seamed'
    <3> SUFFICES ASSUME NEW n \in Missing', NEW k \in Anchors', NEW b \in Tops', k <= n, n < b
                 PROVE  \E g \in gaps : k <= g /\ g <= n
      BY <1>0 DEF Seamed
    <3>1. n \in Missing /\ n # s /\ k \in Anchors \cup {s} /\ b \in Tops \cup {s} /\ n \in Nat
      BY <1>0, <2>1, <2>2, Ranges DEF Anchors, Tops, Edges, OfOps
    <3>2. PICK c \in Tops : n < c
      <4>1. CASE b = s
        BY <2>3, <4>1 DEF Tops
      <4> QED
        BY <3>1, <4>1
    <3>3. CASE k \in Anchors
      BY <3>1, <3>2, <3>3 DEF ListInv, Seamed
    <3>4. CASE k = s
      <4>1. PICK h \in held : n < h
        <5>1. \E h \in held : ~(h < n)
          BY <3>1, <3>2, TailIsAbove
        <5> QED
          BY <3>1, <5>1, Ranges
      <4>2. PICK m \in held : s <= m /\ m < n
        BY <1>0, <2>4, <3>1, <3>4, <4>1
      <4>3. PICK g \in gaps : m <= g /\ g <= n
        BY <3>1, <3>2, <4>2, Ranges DEF ListInv, Seamed, Anchors
      <4> QED
        BY <1>0, <3>4, <4>2, <4>3, Ranges
    <3> QED
      BY <3>1, <3>3, <3>4
  <2>6. Bottom'
    <3> SUFFICES ASSUME NEW n \in Missing', NEW b \in Tops', n < b, reachedStart
                 PROVE  \E h \in held : h < n
      BY <1>0, <2>1 DEF Bottom
    <3>1. n \in Missing /\ b \in Tops \cup {s}
      BY <1>0, <2>1, <2>2 DEF Tops, Edges, OfOps
    <3>2. CASE b \in Tops
      BY <3>1, <3>2 DEF ListInv, Bottom
    <3>3. CASE b = s
      <4>1. PICK m \in held : n < m
        BY <2>3, <3>3
      <4> QED
        BY <3>1, <4>1 DEF ListInv, Bottom, Tops
    <3> QED
      BY <3>1, <3>2, <3>3
  <2>7. SeamsAreInside'
    BY <1>0, <2>1 DEF ListInv, SeamsAreInside
  <2>8. EdgesAreKnown' /\ Empty' /\ Loading'
    BY <1>0, <2>1 DEF ListInv, EdgesAreKnown, Empty, Loading, OfOps
  <2>9. LostIsAbove'
    BY <2>1, <2>2 DEF ListInv, LostIsAbove
  <2>10. TailComes'
    BY <1>2, <2>1, <2>2 DEF ListInv, TailComes
  <2> QED
    BY <1>1, <2>5, <2>6, <2>7, <2>8, <2>9, <2>10 DEF ListInv
<1> QED
  BY <1>3, <1>4

LEMMA DeleteFrameKeeps ==
  ASSUME TypeOK, ListInv, NEW frame \in frames, frame.type = "message_delete", frame.seq \in gone,
         frames' = frames \ {frame}, ApplyDelete(frame.seq), ~Severs,
         UNCHANGED <<posted, gone, socketVars, losses, owed>>
  PROVE  ListInv'
<1> DEFINE s == frame.seq
<1>0. /\ UNCHANGED <<posted, gone, connected, loaded, reachedStart, gaps, fetches, owed, jumped, Live>>
      /\ held' = held \ {s}
  BY DEF ApplyDelete, socketVars, Live
<1>1. Missing' = Missing /\ Lost' = Lost /\ Tops' \subseteq Tops /\ Anchors' \subseteq Anchors
  BY <1>0 DEF Missing, Lost, Live, Tops, Anchors, Edges, OfOps
<1>2. \A x \in held : \E h \in Piece(x) : h \notin {s}
  BY <1>0 DEF Severs
<1>3. /\ \A n \in Missing : (\E h \in held : h < n) => \E h \in held' : h < n
      /\ \A n \in Missing : (\E h \in held : h < n) /\ (\E h \in held : n < h) => \E h \in held' : n < h
      /\ \A g \in gaps : \E h, i \in held' : h <= g /\ g < i
  BY <1>0, <1>2, PiecesStay DEF ListInv
<1>4. Seamed' /\ SeamsAreInside'
  BY <1>0, <1>1, <1>3 DEF ListInv, Seamed, SeamsAreInside
<1>5. Bottom' /\ LostIsAbove'
  BY <1>0, <1>1, <1>3 DEF ListInv, Bottom, LostIsAbove, OfOps, Lost
<1>6. EdgesAreKnown' /\ Loading'
  BY <1>0 DEF ListInv, EdgesAreKnown, Loading, OfOps
<1>7. Empty'
  BY <1>0, <1>2 DEF ListInv, Empty, OfOps, Piece
<1>8. PagesAreWhole'
  BY <1>0, PagesRest, Ranges
<1>9. TailComes'
  <2> SUFFICES ASSUME NEW n \in Lost, \A h \in held' : h < n
               PROVE  Coming(n)'
    BY <1>1 DEF TailComes
  <2>1. \A h \in held : h < n
    <3> SUFFICES ASSUME NEW h \in held, ~(h < n) PROVE FALSE
      OBVIOUS
    <3>1. n < h /\ n \in Missing
      BY Ranges DEF Lost
    <3>2. PICK i \in held' : n < i
      BY <1>3, <3>1 DEF ListInv, LostIsAbove
    <3> QED
      BY <1>0, <3>1, <3>2, Ranges
  <2>2. Coming(n)
    BY <2>1 DEF ListInv, TailComes
  <2> QED
    BY <1>0, <2>2 DEF Coming, Brings
<1> QED
  BY <1>4, <1>5, <1>6, <1>7, <1>8, <1>9 DEF ListInv

-----------------------------------------------------------------------------
(* Pages arrive                                                            *)

LEMMA BackfillKeeps ==
  ASSUME TypeOK, ListInv, NEW f, Arrive(f), BackfillArrives(f), ~Severs
  PROVE  ListInv'
<1> DEFINE P == f.page \ f.dead
           R == held \ f.dead
           next == Fetch("backfill", LastSeqOf(held') + 1, f.seam)
<1>0. /\ UNCHANGED <<posted, gone, frames, connected, loaded, reachedStart, gaps, owed, Live>>
      /\ f \in fetches /\ f.served /\ f.op = "backfill" /\ f \in OfOps({"backfill"})
      /\ held' = R \cup P /\ jumped' = jumped \cup Overtaken(f)
  BY DEF Arrive, BackfillArrives, serverVars, socketVars, Live, OfOps
<1>1. /\ f.dead \subseteq f.page \cap gone /\ f.page \subseteq 1..posted
      /\ \A x \in f.page : f.edge <= x /\ f.edge..x \subseteq f.page
      /\ f.edge \in Nat /\ f.edge - 1 \in held \cup gone
  BY <1>0 DEF TypeOK, Fetches, ListInv, PagesAreWhole, PageInv, EdgesAreKnown
<1>2. held # {}
  BY <1>0 DEF ListInv, Empty, OfOps
<1>3. LastSeq \in held /\ \A h \in held : h <= LastSeq
  BY <1>2, LastIs
<1>4. \A x \in held : \E h \in Piece(x) : h \notin f.dead
  <2> SUFFICES ASSUME NEW x \in held PROVE \E h \in Piece(x) : h \notin f.dead
    OBVIOUS
  <2>1. PICK h \in Piece(x) : h \in held'
    BY DEF Severs
  <2> QED
    BY <1>0, <2>1
<1>5. /\ \A n \in Missing : (\E h \in held : h < n) => \E h \in R : h < n
      /\ \A n \in Missing : (\E h \in held : h < n) /\ (\E h \in held : n < h) => \E h \in R : n < h
      /\ \A g \in gaps : \E h, i \in R : h <= g /\ g < i
  BY <1>4, PiecesStay DEF ListInv
<1>6. /\ held' # {} /\ LastSeqOf(held') \in held' /\ held' \subseteq 1..posted
  <2>1. held' \subseteq 1..posted
    BY <1>0, <1>1, Ranges
  <2>2. held' # {}
    BY <1>0, <1>2, <1>4 DEF Piece
  <2>3. posted \in Nat /\ held' \subseteq 0..posted
    BY <2>1, Ranges
  <2> QED
    BY <2>1, <2>2, <2>3, MaxIs DEF LastSeqOf
<1>7. \A g \in fetches' : g \in fetches \/ (g = next /\ g.op = "backfill" /\ g.edge - 1 \in held' /\ ~g.served)
  <2>1. next.op = "backfill" /\ next.edge = LastSeqOf(held') + 1 /\ next.served = FALSE
    BY DEF Fetch
  <2>2. LastSeqOf(held') \in Nat
    <3>1. posted \in Nat /\ LastSeqOf(held') \in 1..posted
      BY <1>6, Ranges
    <3> QED
      BY <3>1
  <2>3. next.edge - 1 \in held'
    BY <1>6, <2>1, <2>2
  <2> HIDE DEF next
  <2>4. fetches' \subseteq fetches \cup {next}
    BY DEF BackfillArrives, next
  <2> QED
    BY <2>1, <2>3, <2>4
<1> HIDE DEF next
<1>8. \A n \in Missing' : /\ n \in Missing /\ n \notin f.page /\ n \notin Overtaken(f)
                          /\ n \in Nat /\ 1 <= n /\ n <= posted /\ n \notin held
  <2> SUFFICES ASSUME NEW n \in Missing'
               PROVE  n \in Missing /\ n \notin f.page /\ n \notin Overtaken(f)
    BY Ranges
  <2>1. n \in Live /\ n \notin R /\ n \notin P /\ n \notin jumped /\ n \notin Overtaken(f)
    BY <1>0 DEF Missing
  <2>2. n \notin f.dead
    BY <1>1, <2>1 DEF Live
  <2> QED
    BY <2>1, <2>2 DEF Missing
<1>9. \A n \in Missing', x \in f.page : f.edge <= n => x < n
  <2> SUFFICES ASSUME NEW n \in Missing', NEW x \in f.page, f.edge <= n, ~(x < n)
               PROVE  FALSE
    OBVIOUS
  <2>1. x \in Nat /\ n \in f.edge..x
    BY <1>0, <1>1, <1>8, Ranges
  <2> QED
    BY <1>1, <1>8, <2>1
<1>10. ASSUME NEW n \in Missing', NEW x \in f.page, x < n, NEW h \in held, n < h
       PROVE  \E m \in R : x < m /\ m < n
  <2>1. /\ \A y \in f.page : y \in Nat /\ f.edge <= y
        /\ \A y \in held : y \in Nat /\ 1 <= y
        /\ n \in Nat /\ 1 <= n /\ LastSeq \in Nat
    BY <1>0, <1>1, <1>3, <1>8, Ranges
  <2>2. f.edge <= n /\ n \in 1..LastSeq
    BY <1>1, <1>3, <1>10, <2>1
  <2>3. f.page # {} /\ \A y \in f.page : y < n
    BY <1>9, <1>10, <2>2
  <2>4. PICK m \in held : m \in 1..n /\ \A y \in f.page : ~(m <= y)
    BY <1>8, <2>2, <2>3 DEF Overtaken
  <2>5. m \notin f.page /\ m # n
    BY <1>8, <2>1, <2>4
  <2>6. m \in R
    BY <1>1, <2>5
  <2> QED
    BY <1>10, <2>1, <2>4, <2>5, <2>6
<1>11. ASSUME NEW n \in Missing', \A h \in held : h < n
       PROVE  \A b \in Tops : ~(n < b)
  BY <1>8, <1>11, TailIsAbove
<1>12. ASSUME NEW n \in Missing', NEW b \in P, n < b
       PROVE  n < f.edge - 1 /\ f.edge - 1 < b /\ f.edge - 1 \in Tops
  <2>1. b \in f.page /\ b \in Nat /\ n \in Nat /\ f.edge <= b
    BY <1>0, <1>1, <1>8, Ranges
  <2>2. ~(f.edge <= n)
    BY <1>9, <1>12, <2>1
  <2>3. n # f.edge - 1
    BY <1>1, <1>8, Ranges
  <2> QED
    BY <1>0, <1>1, <2>1, <2>2, <2>3 DEF Tops
<1>13. Tops' \subseteq Tops \cup P /\ Anchors' \subseteq Anchors \cup P
  <2>1. \A g \in OfOps({"backfill"})' : g \in OfOps({"backfill"}) \/ g.edge - 1 \in held'
    BY <1>7 DEF OfOps
  <2>2. \A g \in OfOps({"older", "fill"})' : g \in OfOps({"older", "fill"})
    BY <1>7 DEF OfOps
  <2> QED
    BY <1>0, <2>1, <2>2 DEF Tops, Anchors, Edges
<1>14. \A b \in Tops \cup Anchors : b \in Int
  BY Ranges DEF Tops, Anchors, Edges, OfOps
<1>15. Seamed'
  <2> SUFFICES ASSUME NEW n \in Missing', NEW k \in Anchors', NEW b \in Tops', k <= n, n < b
               PROVE  \E g \in gaps : k <= g /\ g <= n
    BY <1>0 DEF Seamed
  <2>1. CASE k \in Anchors /\ b \in Tops
    BY <1>8, <2>1 DEF ListInv, Seamed
  <2>2. CASE k \in P
    <3>1. k \in f.page /\ k \in Nat /\ k < n
      BY <1>0, <1>8, <2>2, Ranges
    <3>2. CASE \E h \in held : n < h
      <4>1. PICK h \in held : n < h
        BY <3>2
      <4>2. PICK m \in R : k < m /\ m < n
        BY <1>10, <3>1, <4>1
      <4>3. m \in Anchors /\ h \in Tops /\ m \in Nat /\ m <= n
        BY <1>8, <4>1, <4>2, Ranges DEF Anchors, Tops
      <4>4. PICK g \in gaps : m <= g /\ g <= n
        BY <1>8, <4>1, <4>3 DEF ListInv, Seamed
      <4> QED
        BY <3>1, <4>2, <4>3, <4>4, Ranges
    <3>3. CASE \A h \in held : ~(n < h)
      <4>1. \A h \in held : h < n
        BY <1>8, <3>3, Ranges
      <4>2. b \notin Tops
        BY <1>11, <4>1
      <4>3. b \in f.page /\ f.edge <= k
        BY <1>1, <1>13, <3>1, <4>2
      <4> QED
        BY <1>0, <1>1, <1>8, <1>9, <3>1, <4>3, Ranges
    <3> QED
      BY <3>2, <3>3
  <2>3. CASE k \in Anchors /\ b \in P
    BY <1>8, <1>12, <2>3 DEF ListInv, Seamed
  <2> QED
    BY <1>13, <2>1, <2>2, <2>3
<1>16. Bottom'
  <2> SUFFICES ASSUME NEW n \in Missing', NEW b \in Tops', n < b, reachedStart
               PROVE  \E h \in R : h < n
    BY <1>0 DEF Bottom
  <2>1. \E h \in held : h < n
    BY <1>8, <1>12, <1>13 DEF ListInv, Bottom
  <2> QED
    BY <1>5, <1>8, <2>1
<1>17. SeamsAreInside' /\ EdgesAreKnown'
  <2>1. SeamsAreInside'
    BY <1>0, <1>5 DEF SeamsAreInside
  <2>2. \A x \in held \cup gone : x \in held' \cup gone'
    BY <1>0, <1>1
  <2> QED
    BY <1>7, <2>1, <2>2 DEF ListInv, EdgesAreKnown, OfOps
<1>19. Empty' /\ Loading'
  BY <1>0, <1>2, <1>6, <1>7 DEF ListInv, Empty, Loading, OfOps
<1>20. PagesAreWhole'
  BY <1>0, <1>7, PagesRest, Ranges
<1>21. \A n \in Lost' : n \in Lost /\ n \in Missing'
  BY <1>0, <1>8 DEF Lost
<1>22. LostIsAbove'
  BY <1>0, <1>5, <1>21 DEF ListInv, LostIsAbove, Lost
<1>23. TailComes'
  <2> SUFFICES ASSUME NEW n \in Lost', \A h \in held' : h < n
               PROVE  Coming(n)'
    BY DEF TailComes
  <2>1. \A h \in held : h < n
    <3> SUFFICES ASSUME NEW h \in held, ~(h < n) PROVE FALSE
      OBVIOUS
    <3>1. n < h /\ n \in Missing /\ n \in Lost
      BY <1>8, <1>21, Ranges
    <3>2. PICK i \in R : n < i
      BY <1>5, <3>1 DEF ListInv, LostIsAbove
    <3> QED
      BY <1>0, <3>1, <3>2, Ranges
  <2>2. Coming(n)
    BY <1>21, <2>1 DEF ListInv, TailComes
  <2>3. CASE \E g \in fetches : g # f /\ Brings(g, n)
    BY <2>3 DEF Coming, Brings, BackfillArrives
  <2>4. CASE Brings(f, n)
    <3>1. Cardinality(f.page) >= BackPage
      BY <1>0, <1>8, <1>21, <2>4 DEF Brings
    <3>2. Cardinality(f.page) \in Nat /\ BackPage \in Nat
      <4>1. posted \in Nat /\ IsFiniteSet(1..posted)
        BY Ranges, FS_Interval
      <4> QED
        BY <1>1, <4>1, FS_Subset, FS_CardinalityType, WebClientAssumption
    <3>3. next \in fetches'
      BY <3>1, <3>2 DEF BackfillArrives, next
    <3> QED
      BY <3>3 DEF Coming, Brings, next, Fetch
  <2> QED
    BY <1>0, <2>2, <2>3, <2>4 DEF Coming
<1> QED
  BY <1>15, <1>16, <1>17, <1>19, <1>20, <1>22, <1>23 DEF ListInv

(* A page the reader has asked for arrives.                                *)
LEMMA AnswerArrives ==
  ASSUME TypeOK, ListInv,
         NEW f \in Asked, f.served, fetches' = fetches \ {f},
         held' = held \cup f.page, loaded', jumped \subseteq jumped',
         UNCHANGED <<posted, gone, frames, connected, owed>>
  PROVE  /\ f \in fetches /\ PageInv(f)
         /\ \A n \in Missing' : n \in Missing /\ n \in Live /\ n \notin f.page /\ n \notin held /\ n \notin jumped'
         /\ \A n \in held' \cup Missing' \cup f.page : n \in Nat /\ 1 <= n /\ n <= posted
         /\ Anchors' \subseteq Anchors \cup f.page /\ Tops' \subseteq Tops \cup f.page
         /\ \A b \in Tops \cup Anchors : b \in Int
         /\ EdgesAreKnown' /\ Loading' /\ PagesAreWhole' /\ LostIsAbove' /\ TailComes'
<1>1. f \in fetches /\ PageInv(f)
  BY DEF Asked, ListInv, PagesAreWhole
<1>2. \A n \in Missing' : n \in Missing /\ n \in Live /\ n \notin f.page /\ n \notin held /\ n \notin jumped'
  BY DEF Missing, Live
<1>3. \A n \in held' \cup Missing' \cup f.page : n \in Nat /\ 1 <= n /\ n <= posted
  BY <1>1, <1>2, Ranges
<1>4. \A ops : OfOps(ops)' \subseteq OfOps(ops)
  BY DEF OfOps
<1>5. Anchors' \subseteq Anchors \cup f.page /\ Tops' \subseteq Tops \cup f.page
  BY <1>4 DEF Anchors, Tops, Edges
<1>6. EdgesAreKnown' /\ Loading'
  BY <1>4 DEF EdgesAreKnown, Loading, ListInv
<1>7. PagesAreWhole'
  BY PagesRest, Ranges DEF Live
<1>8. \A n \in Lost' : n \in Lost
  BY <1>2 DEF Lost
<1>9. LostIsAbove'
  BY <1>8 DEF ListInv, LostIsAbove
<1>10. TailComes'
  BY <1>8 DEF ListInv, TailComes, Coming, Brings, Asked
<1>11. \A b \in Tops \cup Anchors : b \in Int
  BY Ranges DEF Tops, Anchors, Edges, OfOps
<1> QED
  BY <1>1, <1>2, <1>3, <1>5, <1>6, <1>7, <1>9, <1>10, <1>11

LEMMA LoadKeeps ==
  ASSUME TypeOK, ListInv, ~loaded,
         NEW f \in Asked, Arrive(f), f.op = "load", PageArrives(f)
  PROVE  ListInv'
<1>0. /\ UNCHANGED <<posted, gone, frames, connected, gaps, owed>> /\ jumped \subseteq jumped'
      /\ f.served /\ held' = held \cup f.page /\ fetches' = fetches \ {f} /\ loaded'
      /\ reachedStart' = Short(f)
  BY DEF Arrive, PageArrives, serverVars, socketVars, Short
<1>1. /\ f \in fetches /\ PageInv(f)
      /\ \A n \in Missing' : n \in Missing /\ n \notin f.page /\ n \notin held
      /\ \A n \in held' \cup Missing' \cup f.page : n \in Nat /\ 1 <= n /\ n <= posted
      /\ EdgesAreKnown' /\ Loading' /\ PagesAreWhole' /\ LostIsAbove' /\ TailComes'
  BY <1>0, AnswerArrives
<1>2. /\ held = {} /\ gaps = {} /\ owed = {} /\ held' = f.page
      /\ OfOps({"older", "fill", "backfill"}) = {} /\ Tops' = f.page /\ Anchors' = f.page
  <2>1. held = {}
    BY DEF ListInv, Loading
  <2>2. gaps = {} /\ owed = {} /\ OfOps({"older", "fill", "backfill"}) = {}
    BY <2>1 DEF ListInv, Empty
  <2>3. OfOps({"backfill"})' = {} /\ OfOps({"older", "fill"})' = {}
    BY <1>0, <2>2 DEF OfOps
  <2> QED
    BY <1>0, <2>1, <2>2, <2>3 DEF Tops, Anchors, Edges
<1>3. Seamed'
  <2> SUFFICES ASSUME NEW n \in Missing', NEW k \in f.page, NEW b \in f.page, k <= n, n < b PROVE FALSE
    BY <1>2 DEF Seamed
  <2>1. k < n
    BY <1>1
  <2> QED
    BY <1>0, <1>1, <2>1 DEF PageInv, Solid, Missing, Live
<1>4. Bottom'
  BY <1>0, <1>1, <1>2 DEF Bottom, PageInv, Low, Missing, Live
<1>5. SeamsAreInside'
  BY <1>0, <1>2 DEF SeamsAreInside
<1>6. Empty'
  <2>1. f.page = {} => Short(f)
    BY FS_EmptySet, WebClientAssumption DEF Short
  <2> QED
    BY <1>0, <1>2, <2>1 DEF Empty, OfOps
<1> QED
  BY <1>1, <1>3, <1>4, <1>5, <1>6 DEF ListInv

(* A first page comes again: what it skips is jumped over.                 *)
LEMMA LoadAgainKeeps ==
  ASSUME TypeOK, ListInv, loaded,
         NEW f \in Asked, Arrive(f), f.op = "load", PageArrives(f)
  PROVE  ListInv'
<1>0. /\ UNCHANGED <<posted, gone, frames, connected, gaps, owed>> /\ jumped' = jumped \cup Doubled(f)
      /\ f.served /\ held' = held \cup f.page /\ fetches' = fetches \ {f} /\ loaded'
      /\ reachedStart' = Short(f)
  BY DEF Arrive, PageArrives, serverVars, socketVars, Short
<1>1. /\ f \in fetches /\ PageInv(f)
      /\ \A n \in Missing' : n \in Missing /\ n \in Live /\ n \notin f.page /\ n \notin held /\ n \notin jumped'
      /\ \A n \in held' \cup Missing' \cup f.page : n \in Nat /\ 1 <= n /\ n <= posted
      /\ Anchors' \subseteq Anchors \cup f.page /\ Tops' \subseteq Tops \cup f.page
      /\ EdgesAreKnown' /\ Loading' /\ PagesAreWhole' /\ LostIsAbove' /\ TailComes'
  BY <1>0, AnswerArrives
<1>2. /\ posted \in Nat /\ f.page \subseteq 0..posted /\ 0 \in 0..posted
  BY <1>1, Ranges
<1>3. /\ \A n \in Missing', x \in f.page : n \notin Hole(x) /\ n # x
      /\ f.page = {} => \A n \in Missing' : n \notin Hole(0) /\ n # 0
  <2>1. \A x \in f.page \cup {0} : (x = 0 => f.page = {}) => Hole(x) \subseteq jumped'
    BY <1>0 DEF Doubled
  <2> QED
    BY <1>1, <2>1
<1>4. ASSUME NEW n \in Missing', NEW b \in Tops', n < b
      PROVE  \E h \in held : n < h
  <2>1. PICK c \in Tops : n < c
    <3>1. CASE b \in f.page
      BY <1>1, <1>2, <1>3, <1>4, <3>1, BesideHole DEF Tops
    <3> QED
      BY <1>1, <1>4, <3>1
  <2>2. \E h \in held : ~(h < n)
    BY <1>1, <2>1, TailIsAbove
  <2> QED
    BY <1>1, <2>2, Ranges
<1>5. Seamed'
  <2> SUFFICES ASSUME NEW n \in Missing', NEW k \in Anchors', NEW b \in Tops', k <= n, n < b
               PROVE  \E g \in gaps : k <= g /\ g <= n
    BY <1>0 DEF Seamed
  <2>1. PICK h \in held : n < h
    BY <1>4
  <2>2. CASE k \in Anchors
    BY <1>1, <2>1, <2>2 DEF ListInv, Seamed, Tops
  <2>3. CASE k \in f.page
    <3>1. k < n /\ k \in Nat
      BY <1>1, <2>3
    <3>2. PICK m \in held : k <= m /\ m < n
      BY <1>1, <1>2, <1>3, <2>1, <2>3, <3>1, BesideHole
    <3>3. m \in Anchors /\ h \in Tops /\ m <= n /\ m \in Nat
      BY <1>1, <2>1, <3>2, Ranges DEF Anchors, Tops
    <3>4. PICK g \in gaps : m <= g /\ g <= n
      BY <1>1, <2>1, <3>3 DEF ListInv, Seamed
    <3> QED
      BY <3>1, <3>2, <3>3, <3>4, Ranges
  <2> QED
    BY <1>1, <2>2, <2>3
<1>6. Bottom'
  <2> SUFFICES ASSUME NEW n \in Missing', NEW b \in Tops', n < b, Short(f)
               PROVE  \E h \in held' : h < n
    BY <1>0 DEF Bottom
  <2>1. PICK i \in held : n < i
    BY <1>4
  <2>2. CASE f.page = {}
    <3>1. n \in Missing /\ 0 < n
      BY <1>1
    <3>2. \E m \in held : 0 <= m /\ m < n
      BY <1>2, <1>3, <2>1, <2>2, <3>1, BesideHole
    <3> QED
      BY <1>0, <3>2
  <2>3. CASE f.page # {}
    <3>1. PICK x \in f.page : TRUE
      BY <2>3
    <3>2. ~(n < x)
      BY <1>0, <1>1, <3>1 DEF PageInv, Low
    <3> QED
      BY <1>0, <1>1, <3>1, <3>2
  <2> QED
    BY <2>2, <2>3
<1>7. SeamsAreInside'
  BY <1>0 DEF ListInv, SeamsAreInside
<1>8. Empty'
  <2>1. f.page = {} => Short(f)
    BY FS_EmptySet, WebClientAssumption DEF Short
  <2> QED
    BY <1>0, <2>1 DEF ListInv, Empty, OfOps
<1> QED
  BY <1>1, <1>5, <1>6, <1>7, <1>8 DEF ListInv

LEMMA OlderKeeps ==
  ASSUME TypeOK, ListInv,
         NEW f \in Asked, Arrive(f), f.op = "older", PageArrives(f)
  PROVE  ListInv'
<1>0. /\ UNCHANGED <<posted, gone, frames, connected, gaps, owed>> /\ jumped \subseteq jumped'
      /\ f.served /\ held' = held \cup f.page /\ fetches' = fetches \ {f}
      /\ reachedStart' = Short(f)
  BY DEF Arrive, PageArrives, serverVars, socketVars, Short
<1>1. /\ held # {} /\ loaded' /\ f \in OfOps({"older"}) /\ f \in OfOps({"older", "fill"})
  BY <1>0 DEF PageArrives, ListInv, Empty, Loading, OfOps, Asked
<1>2. /\ f \in fetches /\ PageInv(f)
      /\ \A n \in Missing' : n \in Missing /\ n \in Live /\ n \notin f.page /\ n \notin held
      /\ \A n \in held' \cup Missing' \cup f.page : n \in Nat /\ 1 <= n /\ n <= posted
      /\ Anchors' \subseteq Anchors \cup f.page /\ Tops' \subseteq Tops \cup f.page
      /\ \A b \in Tops \cup Anchors : b \in Int
      /\ EdgesAreKnown' /\ Loading' /\ PagesAreWhole' /\ LostIsAbove' /\ TailComes'
  BY <1>0, <1>1, AnswerArrives
<1>3. /\ f.edge \in Anchors /\ f.edge \in Tops /\ f.edge \in Nat
      /\ \A x \in f.page : x < f.edge
      /\ \A k \in f.page, n \in Missing' : k < n => f.edge <= n
      /\ Short(f) => \A n \in Missing' : f.edge <= n
  <2>1. f.edge \in Anchors /\ f.edge \in Tops /\ f.edge \in Nat /\ \A x \in f.page : x < f.edge
    BY <1>1, <1>2, Ranges DEF Anchors, Tops, Edges, OfOps, PageInv
  <2>2. Solid(f, f.edge) /\ (Short(f) => Low(f, f.edge))
    BY <1>1, <1>2 DEF PageInv, OfOps
  <2> QED
    BY <1>2, <2>1, <2>2 DEF Solid, Low
<1>4. ASSUME NEW n \in Missing', NEW b \in Tops', n < b
      PROVE  \E c \in Tops : n < c
  <2>1. CASE b \in f.page
    <3>1. n < f.edge
      BY <1>2, <1>3, <1>4, <2>1
    <3> QED
      BY <1>3, <3>1
  <2> QED
    BY <1>2, <1>4, <2>1
<1>5. Seamed'
  <2> SUFFICES ASSUME NEW n \in Missing', NEW k \in Anchors', NEW b \in Tops', k <= n, n < b
               PROVE  \E g \in gaps : k <= g /\ g <= n
    BY <1>0 DEF Seamed
  <2>1. PICK c \in Tops : n < c
    BY <1>4
  <2>2. CASE k \in Anchors
    BY <1>2, <2>1, <2>2 DEF ListInv, Seamed
  <2>3. CASE k \in f.page
    <3>1. f.edge <= n /\ k < f.edge /\ k \in Nat
      BY <1>2, <1>3, <2>3
    <3>2. PICK g \in gaps : f.edge <= g /\ g <= n
      BY <1>2, <1>3, <2>1, <3>1 DEF ListInv, Seamed
    <3> QED
      BY <1>3, <3>1, <3>2, Ranges
  <2> QED
    BY <1>2, <2>2, <2>3
<1>6. Bottom'
  <2> SUFFICES ASSUME NEW n \in Missing', NEW b \in Tops', n < b, Short(f)
               PROVE  \E h \in held : h < n
    BY <1>0 DEF Bottom
  <2>1. f.edge <= n
    BY <1>3
  <2>2. PICK c \in Tops : n < c
    BY <1>4
  <2> QED
    BY <1>2, <1>3, <2>1, <2>2, HeldAround DEF ListInv
<1>7. SeamsAreInside' /\ Empty'
  BY <1>0, <1>1 DEF ListInv, SeamsAreInside, Empty
<1> QED
  BY <1>2, <1>5, <1>6, <1>7 DEF ListInv

(* A page is merged, and the seams are computed anew.                      *)
LEMMA MergedSeams ==
  ASSUME TypeOK, ListInv,
         NEW f \in Asked, f.served, f.op \in {"around", "fill"}, fetches' = fetches \ {f},
         held' = held \cup f.page, loaded', jumped \subseteq jumped', Crossed(f) \subseteq jumped',
         NEW anchor \in Nat, anchor = 0 \/ (f.op = "fill" /\ anchor = f.edge),
         gaps' = RecomputeGaps(held', f.page, gaps, anchor),
         UNCHANGED <<posted, gone, frames, connected, owed>>
  PROVE  Seamed' /\ SeamsAreInside'
<1>1. /\ f \in fetches /\ PageInv(f)
      /\ \A n \in Missing' : n \in Missing /\ n \in Live /\ n \notin f.page /\ n \notin held /\ n \notin jumped'
      /\ \A n \in held' \cup Missing' \cup f.page : n \in Nat /\ 1 <= n /\ n <= posted
      /\ Anchors' \subseteq Anchors \cup f.page /\ Tops' \subseteq Tops \cup f.page
      /\ \A b \in Tops \cup Anchors : b \in Int
  BY AnswerArrives
<1>2. ASSUME NEW n \in Missing', NEW k \in held', NEW c \in held', k < n, n < c,
             \A h \in held' : ~(k < h /\ h < c)
      PROVE  k \in gaps'
  <2> DEFINE p == <<k, c>>
  <2>1. p \in Neighbours(held') /\ p[1] = k /\ p[2] = c
    BY <1>1, <1>2 DEF Neighbours
  <2>2. p[2] > p[1] + 1
    BY <1>1, <1>2, <2>1
  <2>3. ~(k \in f.page /\ (c \in f.page \/ c = anchor))
    BY <1>1, <1>2 DEF PageInv, Solid
  <2>4. (k \in f.page) # (c \in f.page) \/ \E g \in gaps : Between(g, p)
    <3>1. CASE k \notin f.page /\ c \notin f.page
      <4>1. k \in Anchors /\ c \in Tops /\ n \in Missing /\ k <= n
        BY <1>1, <1>2, <3>1 DEF Anchors, Tops
      <4>2. PICK g \in gaps : k <= g /\ g <= n
        BY <1>2, <4>1 DEF ListInv, Seamed
      <4>3. g < c
        BY <1>1, <1>2, <4>2, Ranges
      <4> QED
        BY <2>1, <4>2, <4>3 DEF Between
    <3> QED
      BY <2>3, <3>1
  <2>5. p[1] \in gaps'
    <3> HIDE DEF p
    <3> QED
      BY <2>1, <2>2, <2>3, <2>4 DEF RecomputeGaps
  <2> QED
    BY <2>1, <2>5
<1>3. ASSUME NEW n \in Missing', NEW b \in Tops', n < b
      PROVE  \E i \in held' : n < i
  <2>1. CASE b \in Tops
    <3>1. \E i \in held : ~(i < n)
      BY <1>1, <1>3, <2>1, TailIsAbove
    <3> QED
      BY <1>1, <3>1, Ranges
  <2> QED
    BY <1>1, <1>3, <2>1
<1>4. ASSUME NEW n \in Missing', NEW k \in Anchors', k <= n, NEW i \in held', n < i
      PROVE  \E h \in held' : k <= h /\ h < n
  <2>1. CASE k \in held'
    BY <1>1, <1>4, <2>1
  <2>2. CASE k \notin held'
    <3>1. PICK o \in fetches \ {f} : o.op \in {"older", "fill"} /\ k = o.edge
      BY <2>2 DEF Anchors, Edges, OfOps
    <3>2. n \in 1..LastSeqOf(held')
      <4>1. posted \in Nat /\ held' \subseteq 0..posted /\ held' # {}
        BY <1>1, Ranges
      <4>2. i <= LastSeqOf(held') /\ LastSeqOf(held') \in held'
        BY <4>1, MaxIs DEF LastSeqOf
      <4> QED
        BY <1>1, <1>4, <4>2
    <3>3. PICK h \in held' : h \in k..n
      BY <1>1, <1>4, <3>1, <3>2 DEF Crossed
    <3>4. k \in Int
      BY <3>1, Ranges
    <3>5. n \in Nat /\ h \in Nat
      BY <1>1, <1>4, <3>3
    <3>6. n \notin held'
      BY <1>1, <1>4
    <3>7. k <= h /\ h <= n /\ h # n
      BY <3>3, <3>4, <3>5, <3>6
    <3> QED
      BY <3>5, <3>7
  <2> QED
    BY <2>1, <2>2
<1>5. Seamed'
  <2> SUFFICES ASSUME NEW n \in Missing', NEW k \in Anchors', NEW b \in Tops', k <= n, n < b
               PROVE  \E g \in gaps' : k <= g /\ g <= n
    BY DEF Seamed
  <2> DEFINE Below == {h \in held' : h < n}
             Above == {h \in held' : n < h}
  <2>1. PICK i \in held' : n < i
    BY <1>3
  <2>2. PICK h \in held' : k <= h /\ h < n
    BY <1>4, <2>1
  <2>3. PICK a \in Below : \A x \in Below : x <= a
    <3>1. posted \in Nat /\ Below \subseteq 0..posted /\ h \in Below
      BY <1>1, <2>2, Ranges
    <3> HIDE DEF Below
    <3> QED
      BY <3>1, Highest
  <2>4. PICK c \in Above : \A x \in Above : c <= x
    <3>1. Above \subseteq Nat /\ i \in Above
      BY <1>1, <2>1
    <3> HIDE DEF Above
    <3> QED
      BY <3>1, Lowest
  <2>5. \A x \in held' : ~(a < x /\ x < c)
    <3> SUFFICES ASSUME NEW x \in held', a < x, x < c PROVE FALSE
      OBVIOUS
    <3>1. x \in Nat /\ n \in Nat /\ a \in Nat /\ c \in Nat /\ x # n
      BY <1>1
    <3>2. ~(x < n) /\ ~(n < x)
      BY <2>3, <2>4, <3>1
    <3> QED
      BY <3>1, <3>2
  <2>6. a \in gaps'
    BY <1>2, <2>3, <2>4, <2>5
  <2>7. k <= h /\ h <= a /\ a < n
    BY <2>2, <2>3
  <2>8. k \in Int /\ h \in Nat /\ a \in Nat /\ n \in Nat
    BY <1>1, <2>3
  <2> QED
    BY <2>6, <2>7, <2>8
<1>6. SeamsAreInside'
  <2> SUFFICES ASSUME NEW g \in gaps'
               PROVE  \E h, i \in held' : h <= g /\ g < i
    BY DEF SeamsAreInside
  <2>1. PICK p \in Neighbours(held') : g = p[1]
    BY DEF RecomputeGaps
  <2>2. p[1] \in held' /\ p[2] \in held' /\ p[1] < p[2]
    BY DEF Neighbours
  <2> QED
    BY <1>1, <2>1, <2>2
<1> QED
  BY <1>5, <1>6

LEMMA WindowKeeps ==
  ASSUME TypeOK, ListInv,
         NEW f \in Asked, Arrive(f), WindowArrives(f)
  PROVE  ListInv'
<1>0. /\ UNCHANGED <<posted, gone, frames, connected, reachedStart, owed, loaded>>
      /\ f.op = "around" /\ f.served /\ held' = held \cup f.page /\ fetches' = fetches \ {f}
      /\ gaps' = RecomputeGaps(held', f.page, gaps, 0) /\ jumped' = jumped \cup Unreached(f) \cup Crossed(f)
  BY DEF Arrive, WindowArrives, serverVars, socketVars
<1>1. loaded'
  BY <1>0 DEF ListInv, Loading, OfOps, Asked
<1>2. Seamed' /\ SeamsAreInside'
  BY <1>0, <1>1, MergedSeams
<1>3. /\ f \in fetches /\ PageInv(f)
      /\ \A n \in Missing' : n \in Missing /\ n \notin f.page /\ n \notin held /\ n \notin jumped'
      /\ \A n \in held' \cup Missing' \cup f.page : n \in Nat /\ 1 <= n /\ n <= posted
      /\ Tops' \subseteq Tops \cup f.page
      /\ EdgesAreKnown' /\ Loading' /\ PagesAreWhole' /\ LostIsAbove' /\ TailComes'
  BY <1>0, <1>1, AnswerArrives
<1>4. Bottom'
  <2> SUFFICES ASSUME NEW n \in Missing', NEW b \in Tops', n < b, reachedStart
               PROVE  \E h \in held' : h < n
    BY <1>0 DEF Bottom
  <2>1. CASE held # {}
    <3>1. PICK h \in held : TRUE
      BY <2>1
    <3>2. CASE h < n
      BY <1>0, <3>2
    <3>3. CASE ~(h < n)
      <4>1. n < h /\ n \in Missing
        BY <1>3, <3>3, Ranges
      <4> QED
        BY <1>0, <4>1 DEF ListInv, Bottom, Tops
    <3> QED
      BY <3>2, <3>3
  <2>2. CASE held = {}
    <3>1. Tops = {}
      BY <2>2 DEF Tops, Edges, ListInv, Empty, OfOps
    <3>2. b \in f.page
      BY <1>3, <3>1
    <3>3. n \notin Unreached(f) /\ n \in 1..posted
      BY <1>0, <1>3, Ranges DEF Missing
    <3>4. PICK x \in f.page : ~(n < x)
      BY <2>2, <3>2, <3>3 DEF Unreached
    <3> QED
      BY <1>0, <1>3, <3>4
  <2> QED
    BY <2>1, <2>2
<1>5. Empty'
  <2>1. held' = {} => gaps' = {}
    BY <1>0 DEF RecomputeGaps, Neighbours
  <2> QED
    BY <1>0, <2>1 DEF ListInv, Empty, OfOps
<1> QED
  BY <1>2, <1>3, <1>4, <1>5 DEF ListInv

LEMMA FillKeeps ==
  ASSUME TypeOK, ListInv,
         NEW f \in Asked, Arrive(f), FillArrives(f)
  PROVE  ListInv'
<1>0. /\ UNCHANGED <<posted, gone, frames, connected, reachedStart, owed, loaded>> /\ jumped \subseteq jumped'
      /\ f.op = "fill" /\ f.served /\ held' = held \cup f.page /\ fetches' = fetches \ {f}
      /\ f.page = {} => gaps' = gaps \ {f.seam}
      /\ f.page # {} => gaps' = RecomputeGaps(held', f.page, gaps, f.edge) /\ Crossed(f) \subseteq jumped'
  BY DEF Arrive, FillArrives, serverVars, socketVars
<1>1. loaded' /\ held # {} /\ f \in OfOps({"fill"}) /\ f \in OfOps({"older", "fill"})
  BY <1>0 DEF ListInv, Loading, Empty, OfOps, Asked
<1>2. /\ f \in fetches /\ PageInv(f)
      /\ \A n \in Missing' : n \in Missing /\ n \in Live /\ n \notin f.page /\ n \notin held
      /\ \A n \in held' \cup Missing' \cup f.page : n \in Nat /\ 1 <= n /\ n <= posted
      /\ Anchors' \subseteq Anchors \cup f.page /\ Tops' \subseteq Tops \cup f.page
      /\ \A b \in Tops \cup Anchors : b \in Int
      /\ EdgesAreKnown' /\ Loading' /\ PagesAreWhole' /\ LostIsAbove' /\ TailComes'
  BY <1>0, <1>1, AnswerArrives
<1>3. Seamed' /\ SeamsAreInside'
  <2>1. CASE f.page # {}
    <3>1. f.edge \in Nat
      BY <1>2, Ranges
    <3> QED
      BY <1>0, <1>1, <2>1, <3>1, MergedSeams
  <2>2. CASE f.page = {}
    <3>1. held' = held /\ gaps' = gaps \ {f.seam} /\ Tops' \subseteq Tops /\ Anchors' \subseteq Anchors
      BY <1>0, <1>2, <2>2
    <3>2. f.edge \in Anchors /\ f.edge \in Nat /\ f.seam \in Nat /\ f.seam < f.edge
      BY <1>1, <1>2, Ranges DEF Anchors, Edges, OfOps, ListInv, EdgesAreKnown, TypeOK, Fetches
    <3>3. \A n \in Missing' : f.edge <= n
      <4>1. Short(f)
        BY <2>2, FS_EmptySet, WebClientAssumption DEF Short
      <4>2. Low(f, f.edge)
        BY <1>0, <1>2, <4>1 DEF PageInv
      <4> QED
        BY <1>2, <2>2, <3>2, <4>2 DEF Low
    <3>4. Seamed'
      <4> SUFFICES ASSUME NEW n \in Missing', NEW k \in Anchors, NEW b \in Tops, k <= n, n < b
                   PROVE  \E g \in gaps' : k <= g /\ g <= n
        BY <3>1 DEF Seamed
      <4>1. CASE f.edge <= k
        <5>1. PICK g \in gaps : k <= g /\ g <= n
          BY <1>2 DEF ListInv, Seamed
        <5>2. g # f.seam
          BY <1>2, <3>2, <4>1, <5>1, Ranges
        <5> QED
          BY <3>1, <5>1, <5>2
      <4>2. CASE ~(f.edge <= k)
        <5>1. PICK g \in gaps : f.edge <= g /\ g <= n
          BY <1>2, <3>2, <3>3 DEF ListInv, Seamed
        <5>2. g # f.seam /\ k <= g
          BY <1>2, <3>2, <4>2, <5>1, Ranges
        <5> QED
          BY <3>1, <5>1, <5>2
      <4> QED
        BY <4>1, <4>2
    <3>5. SeamsAreInside'
      BY <3>1 DEF ListInv, SeamsAreInside
    <3> QED
      BY <3>4, <3>5
  <2> QED
    BY <2>1, <2>2
<1>4. Bottom'
  <2> SUFFICES ASSUME NEW n \in Missing', NEW b \in Tops', n < b, reachedStart
               PROVE  \E h \in held' : h < n
    BY <1>0 DEF Bottom
  <2>1. PICK h \in held : TRUE
    BY <1>1
  <2>2. CASE h < n
    BY <1>0, <2>2
  <2>3. CASE ~(h < n)
    <3>1. n < h /\ n \in Missing
      BY <1>2, <2>3, Ranges
    <3> QED
      BY <1>0, <3>1 DEF ListInv, Bottom, Tops
  <2> QED
    BY <2>2, <2>3
<1>5. Empty'
  BY <1>0, <1>1 DEF Empty
<1> QED
  BY <1>2, <1>3, <1>4, <1>5 DEF ListInv

-----------------------------------------------------------------------------
(* Types                                                                   *)

(* A page that was of its type is so when the channel has grown.           *)
LEMMA FetchTypes ==
  ASSUME TypeOK, posted' \in Nat, posted <= posted', gone \subseteq gone'
  PROVE  \A f \in fetches : f \in Fetches' /\ (f.page # {} => f.served)
<1> SUFFICES ASSUME NEW f \in fetches PROVE f \in Fetches' /\ (f.page # {} => f.served)
  OBVIOUS
<1>1. f \in Fetches /\ (f.page # {} => f.served)
  BY DEF TypeOK
<1>2. posted \in Nat /\ 1..posted \subseteq 1..posted'
  BY Ranges
<1>3. f.page \in SUBSET (1..posted') /\ f.dead \in SUBSET gone'
  BY <1>1, <1>2 DEF Fetches
<1> QED
  BY <1>1, <1>3 DEF Fetches

LEMMA FetchType ==
  ASSUME NEW op \in Ops, NEW edge \in Nat, NEW seam \in Nat
  PROVE  Fetch(op, edge, seam) \in Fetches /\ Fetch(op, edge, seam) \in Fetches'
BY DEF Fetch, Fetches

LEMMA RefreshType ==
  ASSUME TypeOK
  PROVE  Refresh \in Fetches' /\ Refresh.page = {}
<1>1. losses \in Nat
  BY WebClientAssumption DEF TypeOK
<1> QED
  BY <1>1 DEF Refresh, Fetch, Fetches, Ops

LEMMA AskTypes ==
  ASSUME TypeOK, Reader
  PROVE  TypeOK'
<1>0. SUFFICES ASSUME NEW op \in Ops, NEW edge \in Nat, NEW seam \in Nat, Ask(Fetch(op, edge, seam))
               PROVE  TypeOK'
  <2>1. CASE EnsureLoaded
    BY <1>0, <2>1, WebClientAssumption DEF EnsureLoaded, Newest, Ops
  <2>2. CASE FetchOlder
    <3>1. held # {} => Min(held) \in Nat
      BY Ranges, MinIs
    <3> QED
      BY <1>0, <2>2, <3>1, WebClientAssumption DEF FetchOlder, Newest, Ops
  <2>3. CASE \E s \in 1..MaxPosts : EnsureAround(s)
    BY <1>0, <2>3, WebClientAssumption DEF EnsureAround, Ops
  <2>4. CASE \E p \in (1..MaxPosts) \X (1..MaxPosts) : FillGap(p)
    BY <1>0, <2>4, WebClientAssumption DEF FillGap, Ops
  <2> QED
    BY <2>1, <2>2, <2>3, <2>4 DEF Reader
<1>1. Fetch(op, edge, seam) \in Fetches' /\ Fetch(op, edge, seam).page = {}
  BY FetchType DEF Fetch
<1>2. \A f \in fetches : f \in Fetches' /\ (f.page # {} => f.served)
  <2>1. posted' = posted /\ gone' = gone /\ posted \in Nat
    BY <1>0, Ranges DEF Ask, serverVars
  <2> QED
    BY <2>1, FetchTypes
<1> QED
  BY <1>0, <1>1, <1>2 DEF Ask, TypeOK, serverVars, socketVars, listVars, history

LEMMA ServeTypes ==
  ASSUME TypeOK, NEW f, Serve(f)
  PROVE  TypeOK'
<1> DEFINE page == IF f.op = "backfill" THEN PageFrom(f.edge) ELSE PageBelow(f.edge)
           new == [f EXCEPT !.served = TRUE, !.page = page, !.dead = page \cap gone]
<1>1. /\ UNCHANGED <<serverVars, socketVars, listVars, losses, history>>
      /\ fetches' = (fetches \ {f}) \cup {new} /\ f \in Fetches
  BY DEF Serve, TypeOK
<1>2. page \subseteq 1..posted
  BY Ranges DEF PageFrom, PageBelow
<1> HIDE DEF page
<1>3. new \in Fetches' /\ new.served
  BY <1>1, <1>2 DEF Fetches, serverVars
<1>4. \A g \in fetches : g \in Fetches' /\ (g.page # {} => g.served)
  BY <1>1, FetchTypes, Ranges DEF serverVars
<1> HIDE DEF new
<1> QED
  BY <1>1, <1>3, <1>4 DEF TypeOK, serverVars, socketVars, listVars, history

LEMMA ArriveTypes ==
  ASSUME TypeOK, NEW f, Arrive(f)
  PROVE  TypeOK'
<1>1. /\ UNCHANGED <<posted, gone, frames, connected, hadReady, losses, owed>>
      /\ f \in fetches /\ f \in Fetches
  BY DEF Arrive, TypeOK, serverVars, socketVars
<1>2. \A g \in fetches : g \in Fetches' /\ (g.page # {} => g.served)
  BY <1>1, FetchTypes, Ranges
<1>3. f.page \subseteq 1..posted /\ f.edge \in Nat /\ f.seam \in Nat
  BY <1>1 DEF Fetches
<1>4. held' \subseteq 1..posted /\ loaded' \in BOOLEAN /\ reachedStart' \in BOOLEAN
  <2>1. CASE PageArrives(f)
    <3>1. held' \subseteq 1..posted
      BY <1>3, <2>1 DEF PageArrives, TypeOK
    <3>2. loaded' \in BOOLEAN
      BY <2>1 DEF PageArrives
    <3>3. reachedStart' \in BOOLEAN
      BY <2>1 DEF PageArrives
    <3> QED
      BY <3>1, <3>2, <3>3
  <2>2. CASE WindowArrives(f)
    BY <1>3, <2>2 DEF WindowArrives, TypeOK
  <2>3. CASE FillArrives(f)
    BY <1>3, <2>3 DEF FillArrives, TypeOK
  <2>4. CASE ChannelsRefreshed(f)
    BY <2>4 DEF ChannelsRefreshed, TypeOK, listVars
  <2>5. CASE BackfillArrives(f)
    BY <1>3, <2>5 DEF BackfillArrives, TypeOK
  <2> QED
    BY <2>1, <2>2, <2>3, <2>4, <2>5 DEF Arrive
<1>5. gaps' \subseteq 1..posted
  <2>1. \A prev, anchor : RecomputeGaps(held', f.page, prev, anchor) \subseteq held'
    BY DEF RecomputeGaps, Neighbours
  <2>2. gaps' \subseteq gaps \/ gaps' \subseteq held'
    BY <2>1 DEF Arrive, PageArrives, WindowArrives, FillArrives, ChannelsRefreshed, BackfillArrives, listVars
  <2> QED
    BY <1>4, <2>2, Ranges
<1>6. \A g \in fetches' : g \in Fetches' /\ (g.page # {} => g.served)
  <2>1. CASE ChannelsRefreshed(f)
    <3>1. held # {} => LastSeq + 1 \in Nat
      BY LastIs, Ranges
    <3>2. held # {} => Fetch("backfill", LastSeq + 1, f.edge) \in Fetches'
      BY <1>3, <3>1, FetchType DEF Ops
    <3>3. Fetch("backfill", LastSeq + 1, f.edge).page = {}
      BY DEF Fetch
    <3> QED
      BY <1>2, <2>1, <3>2, <3>3 DEF ChannelsRefreshed
  <2>2. CASE BackfillArrives(f)
    <3>1. LastSeqOf(held') \in Nat
      <4>1. posted \in Nat /\ held' \subseteq 0..posted
        BY <1>4, Ranges
      <4>2. held' # {} => Max(held') \in 0..posted
        BY <4>1, MaxIs
      <4> QED
        BY <4>1, <4>2 DEF LastSeqOf
    <3>2. Fetch("backfill", LastSeqOf(held') + 1, f.seam) \in Fetches'
      BY <1>3, <3>1, FetchType DEF Ops
    <3>3. Fetch("backfill", LastSeqOf(held') + 1, f.seam).page = {}
      BY DEF Fetch
    <3> QED
      BY <1>2, <2>2, <3>2, <3>3 DEF BackfillArrives
  <2>3. CASE PageArrives(f) \/ WindowArrives(f) \/ FillArrives(f)
    BY <1>2, <2>3 DEF PageArrives, WindowArrives, FillArrives
  <2> QED
    BY <2>1, <2>2, <2>3 DEF Arrive
<1>7. jumped' \subseteq 1..posted
  <2>1. LastSeq \in 0..posted
    <3>1. held # {} => LastSeq \in 0..posted
      BY LastIs, Ranges
    <3> QED
      BY <3>1, Ranges DEF LastSeq, LastSeqOf
  <2>2. Overtaken(f) \subseteq 1..posted /\ Unreached(f) \subseteq 1..posted
    BY <2>1, Ranges DEF Overtaken, Unreached
  <2>3. Crossed(f) \subseteq 1..posted
    <3>1. posted \in Nat /\ held' \subseteq 0..posted
      BY <1>4, Ranges
    <3>2. held' # {} => Max(held') \in 0..posted
      BY <3>1, MaxIs
    <3>3. LastSeqOf(held') \in 0..posted
      BY <3>1, <3>2 DEF LastSeqOf
    <3> QED
      BY <3>1, <3>3 DEF Crossed
  <2>4. \A x \in 0..posted : Hole(x) \subseteq 1..posted
    <3> SUFFICES ASSUME NEW x \in 0..posted PROVE Hole(x) \subseteq 1..posted
      OBVIOUS
    <3>1. posted \in Nat /\ held \cup {x} \subseteq 0..posted
      BY Ranges
    <3>2. Max(held \cup {x}) \in 0..posted
      BY <3>1, MaxIs
    <3> QED
      BY <3>1, <3>2 DEF Hole
  <2>5. Doubled(f) \subseteq 1..posted
    <3>1. f.page \cup {0} \subseteq 0..posted
      BY <1>3, Ranges
    <3> QED
      BY <2>4, <3>1 DEF Doubled
  <2> QED
    BY <2>2, <2>3, <2>5 DEF Arrive, PageArrives, WindowArrives, FillArrives, ChannelsRefreshed, BackfillArrives, TypeOK
<1>8. severed' \in BOOLEAN
  BY DEF Arrive, TypeOK
<1> QED
  BY <1>1, <1>4, <1>5, <1>6, <1>7, <1>8 DEF TypeOK

LEMMA DispatchTypes ==
  ASSUME TypeOK, NEW frame \in frames, Dispatch(frame)
  PROVE  TypeOK'
<1>1. /\ UNCHANGED <<posted, gone, connected, hadReady, losses, owed, loaded, reachedStart, gaps, fetches>>
      /\ frame.seq \in 1..posted /\ frames' \subseteq frames
  BY DEF Dispatch, ApplyCreate, ApplyDelete, TypeOK, socketVars
<1>2. held' \subseteq 1..posted
  BY <1>1 DEF Dispatch, ApplyCreate, ApplyDelete, TypeOK
<1>3. Hole(frame.seq) \subseteq 1..posted
  <2>1. posted \in Nat /\ held \cup {frame.seq} \subseteq 0..posted
    BY <1>1, Ranges
  <2>2. Max(held \cup {frame.seq}) \in 0..posted
    BY <2>1, MaxIs
  <2> QED
    BY <2>1, <2>2 DEF Hole
<1>4. jumped' \subseteq 1..posted
  BY <1>3 DEF Dispatch, ApplyCreate, ApplyDelete, TypeOK
<1>5. \A f \in fetches : f \in Fetches' /\ (f.page # {} => f.served)
  BY <1>1, FetchTypes, Ranges
<1>6. severed' \in BOOLEAN
  BY DEF Dispatch, TypeOK
<1> QED
  BY <1>1, <1>2, <1>4, <1>5, <1>6 DEF TypeOK

LEMMA TypeStep == TypeOK /\ [Next]_vars => TypeOK'
<1> SUFFICES ASSUME TypeOK, [Next]_vars PROVE TypeOK'
  OBVIOUS
<1>0. posted \in Nat /\ losses \in Nat
  BY Ranges, WebClientAssumption DEF TypeOK
<1>1. CASE Post
  <2>1. posted' = posted + 1 /\ gone' = gone /\ fetches' = fetches
    BY <1>1 DEF Post
  <2>2. \A f \in fetches : f \in Fetches' /\ (f.page # {} => f.served)
    BY <1>0, <2>1, FetchTypes
  <2> QED
    BY <1>0, <1>1, <2>1, <2>2, WebClientAssumption DEF Post, TypeOK, socketVars, listVars
<1>2. CASE \E s \in 1..MaxPosts : Delete(s)
  <2>1. PICK s \in 1..MaxPosts : Delete(s)
    BY <1>2
  <2>2. posted' = posted /\ gone' = gone \cup {s} /\ fetches' = fetches /\ s \in 1..posted
    BY <2>1, Ranges DEF Delete
  <2>3. \A f \in fetches : f \in Fetches' /\ (f.page # {} => f.served)
    BY <1>0, <2>2, FetchTypes
  <2>4. frames' \subseteq [type: {"message_create", "message_delete"}, seq: 1..posted]
    BY <2>1, <2>2 DEF Delete, TypeOK
  <2>5. UNCHANGED <<connected, hadReady, held, loaded, reachedStart, gaps, losses, jumped, severed, owed>>
    BY <2>1 DEF Delete, socketVars, listVars, history
  <2> QED
    BY <2>2, <2>3, <2>4, <2>5 DEF TypeOK
<1>3. CASE FrameComes
  <2>1. CASE \E frame \in frames : Dispatch(frame)
    BY <2>1, DispatchTypes
  <2>2. CASE \E frame \in frames : Miss(frame)
    BY <2>2, <1>0, FetchTypes DEF Miss, TypeOK, socketVars, listVars, history
  <2> QED
    BY <1>3, <2>1, <2>2 DEF FrameComes
<1>4. CASE Connect
  <2>1. \A f \in fetches : f \in Fetches' /\ (f.page # {} => f.served)
    BY <1>4, <1>0, FetchTypes DEF Connect, serverVars
  <2> QED
    BY <1>4, <2>1, RefreshType DEF Connect, TypeOK, serverVars, listVars, history
<1>5. CASE LinkLost
  <2>1. \A f \in fetches : f \in Fetches' /\ (f.page # {} => f.served)
    BY <1>5, <1>0, FetchTypes DEF LinkLost, serverVars
  <2>2. losses' \in 0..MaxLosses /\ connected' = FALSE
    BY <1>5, <1>0, WebClientAssumption DEF LinkLost, LoseSocket
  <2>3. UNCHANGED <<posted, gone, frames, hadReady, held, loaded, reachedStart, gaps, fetches, jumped, severed, owed>>
    BY <1>5 DEF LinkLost, serverVars, listVars, history
  <2> QED
    BY <2>1, <2>2, <2>3 DEF TypeOK
<1>6. CASE ServerBounces
  <2>1. losses' \in 0..MaxLosses /\ connected' = FALSE
    BY <1>6, <1>0, WebClientAssumption DEF ServerBounces, LoseSocket
  <2>2. /\ UNCHANGED <<posted, gone, hadReady, held, loaded, reachedStart, gaps, jumped, severed, owed>>
        /\ fetches' = {} /\ frames' = {}
    BY <1>6 DEF ServerBounces, listVars, history
  <2> QED
    BY <2>1, <2>2 DEF TypeOK
<1>7. CASE Reader
  BY <1>7, AskTypes
<1>8. CASE \E op \in Ops : Answer(op)
  BY <1>8, ServeTypes, ArriveTypes DEF Answer
<1>9. CASE UNCHANGED vars
  BY <1>9 DEF vars, serverVars, socketVars, listVars, history, TypeOK, Fetches
<1> QED
  BY <1>1, <1>2, <1>3, <1>4, <1>5, <1>6, <1>7, <1>8, <1>9 DEF Next

-----------------------------------------------------------------------------
(* Every step                                                              *)

(* A frame of a delete is of a message that is gone.                       *)
LEMMA DeadAreGone ==
  ASSUME TypeOK, \A frame \in frames : frame.type = "message_delete" => frame.seq \in gone, [Next]_vars
  PROVE  (\A frame \in frames : frame.type = "message_delete" => frame.seq \in gone)'
<1>1. CASE Post
  BY <1>1 DEF Post
<1>2. CASE \E s \in 1..MaxPosts : Delete(s)
  BY <1>2 DEF Delete
<1>3. CASE UNCHANGED gone /\ frames' \subseteq frames
  BY <1>3
<1> QED
  BY <1>1, <1>2, <1>3
  DEF Next, FrameComes, Dispatch, Miss, Connect, LinkLost, ServerBounces, Reader, EnsureLoaded, FetchOlder,
      EnsureAround, FillGap, Ask, Answer, Serve, Arrive, vars, serverVars

(* A tab that was never ready is owed nothing.                             *)
LEMMA OwedWhileFollowed ==
  ASSUME TypeOK, owed # {} => hadReady, [Next]_vars
  PROVE  (owed # {} => hadReady)'
<1>1. CASE Post
  BY <1>1 DEF Post, socketVars
<1>2. CASE Connect
  BY <1>2 DEF Connect
<1>3. CASE UNCHANGED <<hadReady, owed>>
  BY <1>3
<1> QED
  BY <1>1, <1>2, <1>3
  DEF Next, Delete, FrameComes, Dispatch, Miss, LinkLost, ServerBounces, Reader, EnsureLoaded, FetchOlder,
      EnsureAround, FillGap, Ask, Answer, Serve, Arrive, vars, socketVars, history

(* No step breaks what holds of the list, unless it is the one that takes  *)
(* a whole piece of it.                                                    *)
LEMMA ListStep ==
  ASSUME IInv, [Next]_vars, ~severed'
  PROVE  ListInv'
<1>0. ~severed
  BY DEF Next, Post, Delete, FrameComes, Dispatch, Miss, Connect, LinkLost, ServerBounces, Reader, EnsureLoaded,
         FetchOlder, EnsureAround, FillGap, Ask, Answer, Serve, Arrive, vars, history
<1>1. TypeOK /\ ListInv
  BY <1>0 DEF IInv
<1>2. CASE Post
  BY <1>1, <1>2, PostKeeps
<1>3. CASE \E s \in 1..MaxPosts : Delete(s)
  BY <1>1, <1>3, DeleteKeeps
<1>4. CASE FrameComes
  <2>1. CASE \E frame \in frames : Miss(frame)
    BY <1>1, <2>1, MissKeeps
  <2>2. ASSUME NEW frame \in frames, Dispatch(frame), frame.type = "message_create", ApplyCreate(frame.seq)
        PROVE  ListInv'
    BY <1>1, <2>2, CreateKeeps DEF Dispatch
  <2>3. ASSUME NEW frame \in frames, Dispatch(frame), frame.type = "message_delete", ApplyDelete(frame.seq)
        PROVE  ListInv'
    BY <1>1, <2>3, DeleteFrameKeeps DEF Dispatch, IInv
  <2> QED
    BY <1>4, <2>1, <2>2, <2>3 DEF FrameComes, Dispatch
<1>5. CASE Connect
  BY <1>1, <1>5, ConnectKeeps DEF IInv
<1>6. CASE LinkLost \/ ServerBounces
  BY <1>1, <1>6, LossKeeps
<1>7. CASE Reader
  BY <1>1, <1>7, AskKeeps
<1>8. CASE \E op \in Ops : Answer(op)
  <2>1. PICK f \in fetches : Serve(f) \/ Arrive(f)
    BY <1>8 DEF Answer
  <2>2. CASE Serve(f)
    BY <1>1, <2>2, ServeKeeps
  <2>3. CASE Arrive(f)
    <3>2. CASE ChannelsRefreshed(f)
      BY <1>1, <2>3, <3>2, RefreshKeeps
    <3>3. CASE BackfillArrives(f)
      BY <1>1, <2>3, <3>3, BackfillKeeps DEF Arrive
    <3>4. CASE PageArrives(f)
      BY <1>1, <2>3, <3>4, LoadKeeps, LoadAgainKeeps, OlderKeeps DEF PageArrives, Asked
    <3>5. CASE WindowArrives(f)
      BY <1>1, <2>3, <3>5, WindowKeeps DEF WindowArrives, Asked
    <3>6. CASE FillArrives(f)
      BY <1>1, <2>3, <3>6, FillKeeps DEF FillArrives, Asked
    <3> QED
      BY <2>3, <3>2, <3>3, <3>4, <3>5, <3>6 DEF Arrive
  <2> QED
    BY <2>1, <2>2, <2>3
<1>9. CASE UNCHANGED vars
  <2>1. Rests
    BY <1>1, <1>9, Ranges DEF vars, serverVars, listVars, history, Rests, Live, TypeOK, Fetches
  <2>2. PagesAreWhole'
    BY <1>1, <1>9, PagesRest, Ranges DEF vars, serverVars, Live
  <2>3. TailComes'
    BY <1>1, <1>9 DEF vars, serverVars, socketVars, listVars, history, ListInv, TailComes, Lost, Missing, Live, Coming, Brings
  <2> QED
    BY <1>1, <2>1, <2>2, <2>3, RestingList DEF ListInv
<1> QED
  BY <1>2, <1>3, <1>4, <1>5, <1>6, <1>7, <1>8, <1>9 DEF Next

-----------------------------------------------------------------------------
(* The theorems                                                            *)

(* The tab opens with the invariant.                                       *)
LEMMA InitTypes == Init => TypeOK
<1> SUFFICES ASSUME Init PROVE TypeOK
  OBVIOUS
<1>1. posted \in History..MaxPosts /\ losses \in 0..MaxLosses
  BY WebClientAssumption DEF Init
<1> QED
  BY <1>1 DEF Init, TypeOK

LEMMA InitIInv == Init => IInv
<1> SUFFICES ASSUME Init PROVE IInv
  OBVIOUS
<1>1. TypeOK
  BY InitTypes
<1>3. ListInv
  BY DEF Init, ListInv, Seamed, Bottom, SeamsAreInside, EdgesAreKnown, Empty, Loading, PagesAreWhole,
         LostIsAbove, TailComes, Lost, OfOps, Tops, Anchors, Edges
<1> QED
  BY <1>1, <1>3 DEF Init, IInv

(* Every step keeps it.                                                    *)
LEMMA IInvStep == IInv /\ [Next]_vars => IInv'
<1> SUFFICES ASSUME IInv, [Next]_vars PROVE IInv'
  OBVIOUS
<1>1. TypeOK'
  BY TypeStep DEF IInv
<1>4. (\A frame \in frames : frame.type = "message_delete" => frame.seq \in gone)'
  BY DeadAreGone DEF IInv
<1>5. (owed # {} => hadReady)'
  BY OwedWhileFollowed DEF IInv
<1>6. ~severed' => ListInv'
  BY ListStep
<1> QED
  BY <1>1, <1>4, <1>5, <1>6 DEF IInv

(* Neighbours with something missing between them have a seam.             *)
LEMMA NeighboursAreSeamed ==
  ASSUME TypeOK, ListInv, NEW p \in Neighbours(held), NEW n \in Missing, p[1] < n, n < p[2]
  PROVE  Seam(p)
<1>1. p[1] \in held /\ p[2] \in held /\ ~\E h \in held : p[1] < h /\ h < p[2]
  BY DEF Neighbours
<1>2. p[1] <= n
  BY <1>1, Ranges
<1> QED
  BY <1>1, <1>2, Ranges DEF ListInv, Seamed, Anchors, Tops, Seam, Between

LEMMA HolesFollow == IInv => HolesAreMarked
<1> SUFFICES ASSUME IInv, ~severed, NEW n \in Silent, n \notin jumped
             PROVE  FALSE
  BY DEF HolesAreMarked
<1>1. TypeOK /\ ListInv
  BY DEF IInv
<1>2. n \in Missing
  BY DEF Silent, Missing
<1>3. PICK p \in Pieces : p[1] < n /\ n < p[2]
  BY DEF Silent
<1>4. CASE p \in Neighbours(held) /\ ~Seam(p)
  BY <1>1, <1>2, <1>3, <1>4, NeighboursAreSeamed
<1>5. CASE StartReached /\ p = <<0, Min(held)>>
  <2>1. Min(held) \in held /\ \A h \in held : Min(held) <= h
    BY <1>1, <1>5, Ranges, MinIs DEF StartReached
  <2>2. PICK h \in held : h < n
    BY <1>1, <1>2, <1>3, <1>5, <2>1 DEF ListInv, Bottom, StartReached, Tops
  <2> QED
    BY <1>1, <1>2, <1>3, <1>5, <2>1, <2>2, Ranges
<1> QED
  BY <1>3, <1>4, <1>5 DEF Pieces

LEMMA CaughtUpFollows == IInv => CaughtUpWhenQuiet
<1> SUFFICES ASSUME IInv, connected, frames = {}, fetches = {}, ~severed,
                    NEW n \in owed, n \notin gone \cup held \cup jumped
             PROVE  n \in BehindSeams
  BY DEF CaughtUpWhenQuiet
<1>1. TypeOK /\ ListInv
  BY DEF IInv
<1>2. n \in Lost /\ n \in Missing
  BY <1>1 DEF Lost, Missing, Live, TypeOK
<1>3. ~Coming(n)
  BY DEF Coming
<1>4. PICK k \in held, b \in held : k < n /\ n < b
  BY <1>1, <1>2, <1>3, Ranges DEF ListInv, LostIsAbove, TailComes
<1>5. PICK a \in held, c \in held, g \in gaps :
            /\ a <= n /\ n < c /\ a <= g /\ g <= n
            /\ \A h \in held : h <= a \/ c <= h
  <2>1. k \in Anchors /\ b \in Tops /\ k <= n /\ n < b
    BY <1>1, <1>2, <1>4, Ranges DEF Anchors, Tops
  <2> QED
    BY <1>1, <1>2, <2>1, SeamAround DEF ListInv
<1> DEFINE p == <<a, c>>
<1>6. p \in held \X held /\ p[1] = a /\ p[2] = c
  OBVIOUS
<1> HIDE DEF p
<1>7. a < n /\ a < c /\ n \in 1..posted
  BY <1>1, <1>2, <1>5, Ranges
<1>8. ~\E h \in held : a < h /\ h < c
  BY <1>1, <1>5, Ranges
<1>9. p \in Neighbours(held) /\ Seam(p)
  BY <1>1, <1>2, <1>5, <1>6, <1>7, <1>8, Ranges DEF Neighbours, Seam, Between
<1> QED
  BY <1>5, <1>6, <1>7, <1>9 DEF BehindSeams

(* Every variable has its type in every state a tab reaches: seqs are      *)
(* those of posts, the seams among them, and only a page that the server   *)
(* answered carries messages (messages.ts, ws.ts).                         *)
THEOREM WebClientTypeCorrect == Spec => []TypeOK
<1>1. Init => TypeOK
  BY InitTypes
<1>2. TypeOK /\ [Next]_vars => TypeOK'
  BY TypeStep
<1> QED
  BY <1>1, <1>2, PTL DEF Spec

(* The inductive invariant holds throughout.                               *)
THEOREM WebClientInvariance == Spec => []IInv
<1>1. Init => IInv
  BY InitIInv
<1>2. IInv /\ [Next]_vars => IInv'
  BY IInvStep
<1> QED
  BY <1>1, <1>2, PTL DEF Spec

(* No message is missing where the list looks whole, but one that a live   *)
(* frame, an overtaken backfill, a second first page, a window into an     *)
(* empty list or one that crosses a page in flight jumped over: however    *)
(* many pages, windows, fills, deletes and resyncs overlap, recomputeGaps  *)
(* leaves a seam at every other hole.                                      *)
THEOREM NoHoleIsUnmarked == Spec => []HolesAreMarked
<1>1. IInv => HolesAreMarked
  BY HolesFollow
<1> QED
  BY <1>1, WebClientInvariance, PTL

(* When nothing is on its way, a tab that follows a channel holds what was *)
(* posted there, or shows a seam where it is: the resync after every       *)
(* reconnect leaves out nothing, however often the socket or the server    *)
(* was lost.                                                               *)
THEOREM ResyncCatchesUp == Spec => []CaughtUpWhenQuiet
<1>1. IInv => CaughtUpWhenQuiet
  BY CaughtUpFollows
<1> QED
  BY <1>1, WebClientInvariance, PTL
=============================================================================
