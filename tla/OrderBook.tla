----------------------------- MODULE OrderBook ------------------------------
(***************************************************************************)
(* The incremental order book of a Bybit symbol                            *)
(* (k4-md/src/bybit/order_book.rs) as the orderbook.50 stream drives it    *)
(* (parse_depth_to_md, k4-md/src/bybit/mod.rs): a snapshot after every     *)
(* subscription, deltas after it, and a Depth5 out of the book after every *)
(* message.  The venue's own book and what it sends are external.  The     *)
(* levels of a message are applied one per step, in the code's order.      *)
(***************************************************************************)
EXTENDS Integers, FiniteSets, SequencesExt

CONSTANTS Prices,     \* prices in ticks
          Vols,       \* bound: the volumes a price may have; 0 removes a level
          N,          \* levels the book keeps per side (50 in the code)
          K,          \* levels of a Depth5 (5 in the code)
          Eps,        \* PRICE_EPS in ticks, rounded up
          WireCap     \* bound: messages on their way

ASSUME PriceAssumption == Prices \subseteq Nat /\ IsFiniteSet(Prices)
ASSUME VolsAssumption == Vols \in [Prices -> SUBSET (Nat \ {0})]
ASSUME SizesAssumption == N \in Nat \ {0} /\ K \in Nat \ {0} /\ WireCap \in Nat
ASSUME EpsAssumption == Eps \in Nat \ {0}

Sides == {"bids", "asks"}
Volumes == UNION {Vols[p] : p \in Prices}
Level == [price : Prices, vol : Volumes]
Change == [side : Sides, price : Prices, vol : {0} \cup Volumes]

VARIABLES venue,     \* per side and price, the volume the venue has; 0 is none
          wire,      \* messages the venue has sent on this connection
          open,      \* a connection is up and subscribed
          book,      \* the OrderBook: per side, its levels
          replacing, \* the message being applied is a snapshot
          todo,      \* changes of that message still to be applied
          depth,     \* the last Depth5 sent on: per side, its levels
          synced,    \* history: a snapshot of this connection was applied
          trimmed    \* history: levels trimmed since that snapshot, not set or removed after

bookvars == <<book, replacing, todo, depth, synced, trimmed>>
vars == <<venue, wire, open, bookvars>>

BookTypeOK ==
  /\ venue \in [Sides -> [Prices -> {0} \cup Volumes]]
  /\ wire \in Seq([snapshot : BOOLEAN, bids : Seq(Change), asks : Seq(Change)])
  /\ open \in BOOLEAN /\ synced \in BOOLEAN /\ replacing \in BOOLEAN
  /\ book \in [Sides -> Seq(Level)] /\ depth \in [Sides -> Seq(Level)]
  /\ \A side \in Sides : Len(book[side]) <= N /\ Len(depth[side]) <= K
  /\ todo \in Seq(Change)
  /\ trimmed \subseteq Sides \X Prices

\* No connection yet, an empty book (or_default).
Init ==
  /\ venue = [side \in Sides |-> [p \in Prices |-> 0]]
  /\ wire = <<>> /\ open = FALSE /\ synced = FALSE /\ trimmed = {}
  /\ book = [side \in Sides |-> <<>>] /\ depth = [side \in Sides |-> <<>>]
  /\ todo = <<>> /\ replacing = FALSE

Better(side, p, q) == IF side = "bids" THEN p > q ELSE p < q

-----------------------------------------------------------------------------
(* The venue.  It shows the N best levels of a side and sends, in whatever *)
(* order, the levels of that window that have changed.                     *)

Uncrossed(b) ==
  \A p, q \in Prices : b["bids"][p] > 0 /\ b["asks"][q] > 0 => p < q

InWindow(b, side, p) ==
  /\ b[side][p] > 0
  /\ Cardinality({q \in Prices : b[side][q] > 0 /\ Better(side, q, p)}) < N

Shown(b, side) == [p \in Prices |-> IF InWindow(b, side, p) THEN b[side][p] ELSE 0]

Changes(old, new, side) ==
  {[side |-> side, price |-> p, vol |-> Shown(new, side)[p]] :
     p \in {q \in Prices : Shown(new, side)[q] # Shown(old, side)[q]}}

Nothing == [side \in Sides |-> [p \in Prices |-> 0]]

Subscribe ==
  /\ ~open
  /\ open' = TRUE
  /\ \E b \in SetToSeqs(Changes(Nothing, venue, "bids")),
        a \in SetToSeqs(Changes(Nothing, venue, "asks")) :
        wire' = <<[snapshot |-> TRUE, bids |-> b, asks |-> a]>>
  /\ UNCHANGED <<venue, bookvars>>

Send(new, b, a) ==
  wire' = IF open /\ b \o a # <<>>
          THEN Append(wire, [snapshot |-> FALSE, bids |-> b, asks |-> a])
          ELSE wire

VenueMoves(new) ==
  /\ new # venue /\ Uncrossed(new)
  /\ Len(wire) < WireCap
  /\ venue' = new
  /\ \E b \in SetToSeqs(Changes(venue, new, "bids")),
        a \in SetToSeqs(Changes(venue, new, "asks")) : Send(new, b, a)
  /\ UNCHANGED <<open, bookvars>>

\* What was on its way is lost; the book stays, until the next snapshot.
Disconnect ==
  /\ open
  /\ open' = FALSE /\ wire' = <<>> /\ synced' = FALSE
  /\ UNCHANGED <<venue, book, replacing, todo, depth, trimmed>>

-----------------------------------------------------------------------------
(* The book.  A level is found by its price, up to Eps.                    *)

SamePrice(p, q) == p - q < Eps /\ q - p < Eps

\* Variant: a new level goes to the end.
Position_End(side, levels, price) == Len(levels) + 1

\* Where a level goes: before the first one that is worse, or at the end.
Position(side, levels, price) ==
  CHOOSE i \in 1 .. Len(levels) + 1 :
    /\ i <= Len(levels) => Better(side, price, levels[i].price)
    /\ \A j \in 1 .. i - 1 : ~Better(side, price, levels[j].price)

Inserted(levels, c) ==
  InsertAt(levels, Position(c.side, levels, c.price), [price |-> c.price, vol |-> c.vol])

Held(levels, price) == {i \in 1 .. Len(levels) : SamePrice(levels[i].price, price)}

Overflows(levels, c) == c.vol > 0 /\ Held(levels, c.price) = {} /\ Len(levels) = N

\* Variant: the book is trimmed one level too early.
Added_TrimEarly(levels, c) ==
  IF Len(levels) = N - 1 THEN Front(Inserted(levels, c)) ELSE Inserted(levels, c)

\* A new level; the worst one goes if there are more than N.
Added(levels, c) ==
  IF Len(levels) = N THEN Front(Inserted(levels, c)) ELSE Inserted(levels, c)

\* Variant: a volume of 0 leaves the level in the book with its old volume.
Changed_KeepEmpty(levels, i, vol) ==
  IF vol = 0 THEN levels ELSE [levels EXCEPT ![i] = [@ EXCEPT !.vol = vol]]

\* A level the book holds: 0 removes it.
Changed(levels, i, vol) ==
  IF vol = 0 THEN RemoveAt(levels, i) ELSE [levels EXCEPT ![i] = [@ EXCEPT !.vol = vol]]

\* update_side_desc and update_side_asc.
UpdateSide(levels, c) ==
  LET held == Held(levels, c.price)
  IN IF held # {} THEN Changed(levels, CHOOSE i \in held : \A j \in held : i <= j, c.vol)
     ELSE IF c.vol > 0 THEN Added(levels, c)
     ELSE levels

FirstN(s) == SubSeq(s, 1, IF Len(s) < N THEN Len(s) ELSE N)

\* get_depth5.
Depth5(b) == [side \in Sides |-> SubSeq(b[side], 1, IF Len(b[side]) < K THEN Len(b[side]) ELSE K)]

\* Variant: a snapshot is merged into the book.
Receive_Merge ==
  /\ wire # <<>> /\ todo = <<>>
  /\ LET m == Head(wire) IN
       /\ wire' = Tail(wire)
       /\ replacing' = m.snapshot
       /\ todo' = IF m.snapshot THEN FirstN(m.bids) \o FirstN(m.asks) ELSE m.bids \o m.asks
       /\ synced' = (synced \/ m.snapshot)
       /\ trimmed' = IF m.snapshot THEN {} ELSE trimmed
  /\ UNCHANGED <<venue, open, book, depth>>

\* A message is parsed.  set_snapshot clears both sides and keeps the first N
\* levels it is given for each; update takes the bids first.  A message
\* without levels, too, is followed by a Depth5.
Receive ==
  /\ wire # <<>> /\ todo = <<>>
  /\ LET m == Head(wire) IN
       /\ wire' = Tail(wire)
       /\ replacing' = m.snapshot
       /\ todo' = IF m.snapshot THEN FirstN(m.bids) \o FirstN(m.asks) ELSE m.bids \o m.asks
       /\ book' = IF m.snapshot THEN [side \in Sides |-> <<>>] ELSE book
       /\ synced' = (synced \/ m.snapshot)
       /\ trimmed' = IF m.snapshot THEN {} ELSE trimmed
  /\ depth' = IF todo' = <<>> THEN Depth5(book') ELSE depth
  /\ UNCHANGED <<venue, open>>

\* One level; sorting a snapshot is inserting its levels one after the other.
\* After the last level the Depth5 is sent on.
Apply ==
  /\ todo # <<>>
  /\ LET c == Head(todo) IN
       /\ book' = [book EXCEPT ![c.side] =
                     IF replacing THEN Inserted(@, c) ELSE UpdateSide(@, c)]
       /\ trimmed' = (trimmed \ {<<c.side, c.price>>}) \cup
                     (IF ~replacing /\ Overflows(book[c.side], c)
                      THEN {<<c.side, Last(Inserted(book[c.side], c)).price>>} ELSE {})
  /\ todo' = Tail(todo)
  /\ depth' = IF Len(todo) = 1 THEN Depth5(book') ELSE depth
  /\ UNCHANGED <<venue, wire, open, replacing, synced>>

-----------------------------------------------------------------------------
\* One side changes at one price or two at once.
Moves ==
  UNION {{[venue EXCEPT ![side] = [@ EXCEPT ![p] = v, ![q] = w]] :
            side \in Sides, v \in {0} \cup Vols[p], w \in {0} \cup Vols[q]} :
         p \in Prices, q \in Prices}

Next == \/ \E new \in Moves : VenueMoves(new)
        \/ Subscribe \/ Disconnect \/ Receive \/ Apply

Spec == Init /\ [][Next]_vars

-----------------------------------------------------------------------------
(* Both sides are strictly sorted, best first, at every step: a level is   *)
(* in the book once, and only Depth5's first entry can be the best price.  *)
SidesSorted ==
  \A side \in Sides : \A i, j \in 1 .. Len(book[side]) :
    i < j => Better(side, book[side][i].price, book[side][j].price)

CaughtUp == open /\ synced /\ wire = <<>> /\ todo = <<>>

BookLevels(side) == {<<book[side][i].price, book[side][i].vol>> : i \in 1 .. Len(book[side])}
Window(side) == {<<p, venue[side][p]>> : p \in {q \in Prices : InWindow(venue, side, q)}}

(* A book that has applied everything the venue sent holds only levels the *)
(* venue shows, with the venue's volumes; what a lost connection left in   *)
(* the book is gone with the first snapshot.                               *)
OnlyVenueLevels == CaughtUp => \A side \in Sides : BookLevels(side) \subseteq Window(side)

(* A level the venue shows is missing only if an insertion trimmed it and  *)
(* the venue has sent nothing about it since.                              *)
MissingOnlyTrimmed ==
  CaughtUp => \A side \in Sides : \A l \in Window(side) \ BookLevels(side) :
    <<side, l[1]>> \in trimmed

(* No Depth5 is crossed, whatever was trimmed, and whatever a lost         *)
(* connection left in the book.                                            *)
NeverCrossed ==
  depth["bids"] # <<>> /\ depth["asks"] # <<>> =>
    depth["bids"][1].price < depth["asks"][1].price

=============================================================================
