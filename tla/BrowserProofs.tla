---------------------------- MODULE BrowserProofs ----------------------------
(***************************************************************************)
(* Proofs about Browser, for every set of pages, whatever their heights    *)
(* and links, every disk, panel height, timeout and bound.                 *)
(*                                                                         *)
(* recompose draws at the offset it is given and leaves that frame when    *)
(* the offset, past the page's end, clamps to the one drawn last.          *)
(* ScreenInv says why that does not happen: an offset that is held, in the *)
(* page shown or in the stack, is within its own page.  NetInv says why no *)
(* late answer is committed: a link that can still call back is the        *)
(* current fetch's.                                                        *)
(***************************************************************************)
EXTENDS Browser, TLAPS

\* An offset that clamp_scroll leaves alone.
Within(c) == c.scroll \in Nat /\ clamp_scroll(c.scroll, Height[c.page]) = c.scroll

Dirs == {<<>>} \cup {Front(p) : p \in DOMAIN Disk}
Addresses == Targets \cup {[hash |-> None, rel |-> p] : p \in DOMAIN Disk}

\* The page shown: it is the one its address names, and its offset is within it.
Shown(c) ==
  /\ c = [page |-> c.page, address |-> c.address, dir |-> c.dir, from |-> c.from,
          scroll |-> c.scroll, focus |-> c.focus]
  /\ c.page \in Pages /\ c.address \in Addresses /\ c.dir \in Dirs
  /\ c.from \in Dirs \cup {None} /\ Named(c) /\ Within(c)

ScreenInv == Shown(cur) /\ frame = compose(cur.page, cur.scroll)

\* The stack holds what the reader went through, in step with the trail.
Left == [page : Pages, address : Addresses, dir : Dirs, from : Dirs \cup {None},
         scroll : Nat, focus : {0}]
TrailInv ==
  /\ stack \in Seq(Left) /\ trail \in Seq([page : Pages, scroll : Nat])
  /\ Len(stack) = Len(trail)
  /\ \A i \in 1..Len(stack) :
       Shown(stack[i]) /\ trail[i] = [page |-> stack[i].page, scroll |-> stack[i].scroll]

Phases == {"idle", "discover", "link", "drain"}
LinkStates == {"none", "pending", "asked", "answered", "closed"}
Nodes == {t.hash : t \in Mesh}
Fetch == [phase : Phases, target : Mesh \cup {None}, clock : Nat, until : Nat,
          n : 0..MaxFetches, known : SUBSET Nodes, g_path : Mesh \cup {None},
          done : BOOLEAN, response : BOOLEAN, g_page : Pages \cup {None}]

\* A link that can still call back is the current fetch's, while it waits for it;
\* what was asked for over it, and what the statics hold, is its target.
NetInv ==
  /\ fetch \in Fetch
  /\ net \in [1..MaxFetches -> [link : LinkStates, path : Mesh \cup {None}]]
  /\ fetch.g_page \in {None, Serves[fetch.target]}
  /\ fetch.phase # "idle" => fetch.g_path = fetch.target /\ fetch.target \in Mesh
                             /\ fetch.n \in 1..MaxFetches
  /\ \A i \in 1..MaxFetches : net[i].link \in {"pending", "asked", "answered"}
       => i = fetch.n /\ fetch.phase = "link"
  /\ \A i \in 1..MaxFetches : net[i].link = "asked" => net[i].path = fetch.target

\* What is fetched is not held, and the reader stays where they asked for it.
AskedInv == fetch.phase # "idle" => ~Held(fetch.target, cur.dir)

BrowserInv == ScreenInv /\ TrailInv /\ NetInv /\ AskedInv

-----------------------------------------------------------------------------
(* The screen and the stack.                                               *)

\* An offset once clamped stays.
LEMMA Clamped ==
  ASSUME NEW s \in Int, NEW h \in Nat
  PROVE  /\ clamp_scroll(s, h) \in Nat
         /\ clamp_scroll(clamp_scroll(s, h), h) = clamp_scroll(s, h)
         /\ clamp_scroll(0, h) = 0
BY BrowserAssumption DEF clamp_scroll

LEMMA HeightOf == ASSUME NEW p \in Pages PROVE Height[p] \in Nat
BY BrowserAssumption

\* What a frame says of itself.
LEMMA FrameFields ==
  ASSUME NEW p, NEW s
  PROVE  /\ compose(p, s).page = p /\ compose(p, s).scroll = s
         /\ compose(p, s).height = Height[p]
<1> DEFINE l == SelectSeq(Links[p], LAMBDA x : x.y >= s /\ x.y < s + LCD_HEIGHT)
<1>1. compose(p, s) = [page |-> p, scroll |-> s, height |-> Height[p], links |-> l]
  BY DEF compose
<1> HIDE DEF l
<1> QED BY <1>1

\* A page as it is first shown.
LEMMA Fresh ==
  ASSUME NEW p \in Pages, NEW a \in Addresses, NEW d \in Dirs, NEW f \in Dirs \cup {None},
         Named(PageState(p, a, d, f))
  PROVE  Shown(PageState(p, a, d, f))
<1>1. clamp_scroll(0, Height[p]) = 0
  BY HeightOf, Clamped
<1>2. PageState(p, a, d, f) = [page |-> p, address |-> a, dir |-> d, from |-> f,
                               scroll |-> 0, focus |-> 0]
  BY DEF PageState
<1> QED BY <1>1, <1>2 DEF Shown, Within

LEMMA Opened == ASSUME NEW path \in DOMAIN Disk PROVE Shown(Opening(path))
<1> DEFINE a == [hash |-> None, rel |-> path]
<1>1. Disk[path] \in Pages /\ a \in Addresses /\ Front(path) \in Dirs
  BY BrowserAssumption DEF Addresses, Dirs
<1>2. Named(PageState(Disk[path], a, Front(path), None))
  BY DEF Named, PageState
<1> QED BY <1>1, <1>2, Fresh DEF Opening

\* What names a page is its page, its address and where it was followed.
LEMMA NamedBy ==
  ASSUME NEW c, NEW e, Named(c), e.page = c.page, e.address = c.address, e.from = c.from
  PROVE  Named(e)
BY DEF Named

\* A focus does not move the page.
LEMMA Focused ==
  ASSUME NEW c, NEW i, Shown(c)
  PROVE  /\ Shown([c EXCEPT !.focus = i])
         /\ [c EXCEPT !.focus = i].page = c.page /\ [c EXCEPT !.focus = i].scroll = c.scroll
         /\ [c EXCEPT !.focus = i].dir = c.dir /\ [c EXCEPT !.focus = i].focus = i
<1> DEFINE d == [page |-> c.page, address |-> c.address, dir |-> c.dir, from |-> c.from,
                 scroll |-> c.scroll, focus |-> i]
<1>1. [c EXCEPT !.focus = i] = d
  BY DEF Shown
<1>2. Named(d)
  BY NamedBy DEF Shown
<1>3. Shown(d)
  BY <1>2 DEF Shown, Within
<1> QED BY <1>1, <1>3

\* recompose, from an offset that is within the page.
LEMMA Recomposed ==
  ASSUME NEW c, NEW last, Shown(c), recompose(c, last)
  PROVE  ScreenInv' /\ frame' = compose(c.page, c.scroll) /\ cur'.dir = c.dir
<1>1. clamp_scroll(c.scroll, Height[c.page]) = c.scroll
  BY DEF Shown, Within
<1> DEFINE shown == compose(c.page, c.scroll)
           f == IF c.focus > Len(shown.links) THEN 0 ELSE c.focus
<1>2. frame' = shown
  BY <1>1 DEF recompose
<1>3. cur' = [c EXCEPT !.scroll = c.scroll, !.focus = f]
  BY <1>1 DEF recompose
<1> HIDE DEF f
<1>4. cur' = [c EXCEPT !.focus = f]
  BY <1>3 DEF Shown
<1>5. Shown(cur') /\ cur'.page = c.page /\ cur'.scroll = c.scroll /\ cur'.dir = c.dir
  BY <1>4, Focused
<1>6. Shown(cur)' /\ frame' = compose(cur'.page, cur'.scroll)
  BY <1>2, <1>5 DEF Shown
<1> QED BY <1>2, <1>5, <1>6 DEF ScreenInv

\* The handlers leave the stack and show something again, put a page on top of it, or
\* take one from it; a fetch leaves the reader where they are.
Redrawn == \E c, last : Shown(c) /\ recompose(c, last) /\ UNCHANGED <<stack, trail>>
Committed == \E p, a, d : Shown(PageState(p, a, d, cur.dir)) /\ commit_page(p, a, d)
Refocused == (\E i : cur' = [cur EXCEPT !.focus = i]) /\ UNCHANGED <<frame, stack, trail>>

LEMMA CommittedKeeps ==
  ASSUME ScreenInv, TrailInv, Committed
  PROVE  ScreenInv' /\ TrailInv' /\ Len(trail') > Len(trail)
<1>1. PICK p, a, d : Shown(PageState(p, a, d, cur.dir)) /\ commit_page(p, a, d)
  BY DEF Committed
<1> DEFINE c == [cur EXCEPT !.focus = 0]
           e == [page |-> frame.page, scroll |-> frame.scroll]
<1>2. /\ stack' = Append(stack, c) /\ trail' = Append(trail, e)
      /\ recompose(PageState(p, a, d, cur.dir), 0)
  BY <1>1 DEF commit_page
<1>4. ScreenInv'
  BY <1>1, <1>2, Recomposed
<1>5. Shown(c) /\ c.page = cur.page /\ c.scroll = cur.scroll /\ c.focus = 0
  BY Focused DEF ScreenInv
<1>6. e = [page |-> c.page, scroll |-> c.scroll]
  BY <1>5, FrameFields DEF ScreenInv
<1>7. c \in Left /\ e \in [page : Pages, scroll : Nat]
  <2>1. /\ c = [page |-> c.page, address |-> c.address, dir |-> c.dir, from |-> c.from,
                scroll |-> c.scroll, focus |-> c.focus]
        /\ c.page \in Pages /\ c.address \in Addresses /\ c.dir \in Dirs
        /\ c.from \in Dirs \cup {None} /\ c.scroll \in Nat
    BY <1>5 DEF Shown, Within
  <2> HIDE DEF c, e
  <2> QED BY <1>5, <1>6, <2>1 DEF Left
<1> HIDE DEF c, e
<1>8. ASSUME NEW S, NEW q \in Seq(S), NEW x \in S
      PROVE  /\ Append(q, x) \in Seq(S) /\ Len(Append(q, x)) = Len(q) + 1 /\ Len(q) \in Nat
             /\ \A i \in 1..Len(q) : Append(q, x)[i] = q[i]
             /\ Append(q, x)[Len(q) + 1] = x
  OBVIOUS
<1>9. /\ stack' \in Seq(Left) /\ Len(stack') = Len(stack) + 1 /\ Len(stack) \in Nat
      /\ \A i \in 1..Len(stack) : stack'[i] = stack[i]
      /\ stack'[Len(stack) + 1] = c
  BY <1>2, <1>7, <1>8 DEF TrailInv
<1>10. /\ trail' \in Seq([page : Pages, scroll : Nat]) /\ Len(trail') = Len(trail) + 1
       /\ \A i \in 1..Len(trail) : trail'[i] = trail[i]
       /\ trail'[Len(trail) + 1] = e
  BY <1>2, <1>7, <1>8 DEF TrailInv
<1>11. Len(stack) = Len(trail)
  BY DEF TrailInv
<1>12. ASSUME NEW i \in 1..Len(stack')
       PROVE  /\ Shown(stack'[i])
              /\ trail'[i] = [page |-> stack'[i].page, scroll |-> stack'[i].scroll]
  <2>1. CASE i \in 1..Len(stack)
    BY <1>9, <1>10, <1>11, <2>1 DEF TrailInv
  <2>2. CASE i = Len(stack) + 1
    BY <1>5, <1>6, <1>9, <1>10, <1>11, <2>2
  <2> QED BY <1>9, <2>1, <2>2
<1>13. TrailInv'
  <2>1. \A i \in 1..Len(stack') : Shown(stack[i])' <=> Shown(stack'[i])
    BY DEF Shown, Within
  <2> QED BY <1>9, <1>10, <1>11, <1>12, <2>1 DEF TrailInv
<1> QED BY <1>4, <1>9, <1>10, <1>11, <1>13

LEMMA BackKeeps ==
  ASSUME ScreenInv, TrailInv, back
  PROVE  /\ ScreenInv' /\ TrailInv'
         /\ frame'.page = Last(trail).page /\ frame'.scroll = Last(trail).scroll
<1> DEFINE c == Last(stack)
           n == Len(stack)
<1>1. ASSUME NEW S, NEW q \in Seq(S), q # <<>>
      PROVE  /\ Front(q) \in Seq(S) /\ Len(Front(q)) = Len(q) - 1
             /\ Len(q) \in Nat /\ Len(q) > 0
             /\ \A i \in 1..Len(q) - 1 : Front(q)[i] = q[i]
             /\ Last(q) = q[Len(q)]
  <2>1. Len(q) \in Nat /\ Len(q) > 0
    BY <1>1
  <2>2. \A i \in 1..Len(q) - 1 : q[i] \in S
    BY <2>1
  <2>3. SubSeq(q, 1, Len(q) - 1) = [i \in 1..Len(q) - 1 |-> q[i]]
    BY <2>1
  <2>4. /\ [i \in 1..Len(q) - 1 |-> q[i]] \in Seq(S)
        /\ Len([i \in 1..Len(q) - 1 |-> q[i]]) = Len(q) - 1
    BY <2>1, <2>2
  <2> QED BY <2>1, <2>3, <2>4 DEF Front, Last
<1>2. /\ stack # <<>> /\ recompose(c, c.scroll)
      /\ stack' = Front(stack) /\ trail' = Front(trail)
  BY DEF back
<1>3. /\ stack \in Seq(Left) /\ trail \in Seq([page : Pages, scroll : Nat]) /\ Len(trail) = n
  BY DEF TrailInv
<1>4. /\ stack' \in Seq(Left) /\ Len(stack') = n - 1 /\ n \in Nat /\ n > 0
      /\ \A i \in 1..n - 1 : stack'[i] = stack[i]
      /\ c = stack[n]
  BY <1>1, <1>2, <1>3
<1>5. trail # <<>>
  BY <1>3, <1>4
<1>6. /\ trail' \in Seq([page : Pages, scroll : Nat]) /\ Len(trail') = n - 1
      /\ \A i \in 1..n - 1 : trail'[i] = trail[i]
      /\ Last(trail) = trail[n]
  BY <1>1, <1>2, <1>3, <1>5
<1>7. Shown(c) /\ Last(trail) = [page |-> c.page, scroll |-> c.scroll]
  <2>1. n \in 1..n
    BY <1>4
  <2> QED BY <1>4, <1>6, <2>1 DEF TrailInv
<1>8. ScreenInv' /\ frame' = compose(c.page, c.scroll)
  BY <1>2, <1>7, Recomposed
<1>9. frame'.page = Last(trail).page /\ frame'.scroll = Last(trail).scroll
  <2> HIDE DEF c
  <2> QED BY <1>7, <1>8, FrameFields
<1>10. TrailInv'
  <2>1. ASSUME NEW i \in 1..Len(stack')
        PROVE  /\ Shown(stack'[i])
               /\ trail'[i] = [page |-> stack'[i].page, scroll |-> stack'[i].scroll]
    <3>1. i \in 1..n - 1 /\ i \in 1..n
      BY <1>4
    <3> QED BY <1>4, <1>6, <3>1 DEF TrailInv
  <2>2. \A i \in 1..Len(stack') : Shown(stack[i])' <=> Shown(stack'[i])
    BY DEF Shown, Within
  <2>3. Len(stack') = Len(trail')
    BY <1>4, <1>6
  <2> QED BY <1>4, <1>6, <2>1, <2>2, <2>3 DEF TrailInv
<1> QED BY <1>8, <1>9, <1>10

LEMMA ReaderKeeps ==
  ASSUME ScreenInv, TrailInv, Redrawn \/ Committed \/ back \/ Refocused \/ UNCHANGED Reader
  PROVE  ScreenInv' /\ TrailInv'
<1>1. UNCHANGED <<stack, trail>> => TrailInv'
  BY DEF TrailInv, Shown, Within
<1>2. CASE Redrawn
  BY <1>1, <1>2, Recomposed DEF Redrawn
<1>3. CASE Refocused
  <2>1. PICK i : cur' = [cur EXCEPT !.focus = i]
    BY <1>3 DEF Refocused
  <2>2. Shown(cur') /\ cur'.page = cur.page /\ cur'.scroll = cur.scroll /\ frame' = frame
    BY <1>3, <2>1, Focused DEF ScreenInv, Refocused
  <2>3. Shown(cur)' /\ frame' = compose(cur'.page, cur'.scroll)
    BY <2>2 DEF Shown, Within, ScreenInv
  <2> QED BY <1>1, <1>3, <2>3 DEF ScreenInv, Refocused
<1>4. CASE UNCHANGED Reader
  BY <1>1, <1>4 DEF Reader, ScreenInv, Shown, Within
<1> QED BY <1>2, <1>3, <1>4, CommittedKeeps, BackKeeps

\* An offset within the page can be scrolled to.
LEMMA Scrolled ==
  ASSUME NEW c, NEW s \in Nat, Shown(c), clamp_scroll(s, Height[c.page]) = s
  PROVE  Shown([c EXCEPT !.scroll = s, !.focus = 0])
<1> DEFINE d == [page |-> c.page, address |-> c.address, dir |-> c.dir, from |-> c.from,
                 scroll |-> s, focus |-> 0]
<1>1. [c EXCEPT !.scroll = s, !.focus = 0] = d
  <2> DEFINE e == [c EXCEPT !.scroll = s]
  <2>1. e = [page |-> c.page, address |-> c.address, dir |-> c.dir, from |-> c.from,
             scroll |-> s, focus |-> c.focus]
    BY DEF Shown
  <2>2. [c EXCEPT !.scroll = s, !.focus = 0] = [e EXCEPT !.focus = 0]
    OBVIOUS
  <2> HIDE DEF e
  <2>3. [e EXCEPT !.focus = 0] = d
    BY <2>1
  <2> QED BY <2>2, <2>3
<1>2. Named(d)
  BY NamedBy DEF Shown
<1>3. Shown(d)
  BY <1>2 DEF Shown, Within
<1> QED BY <1>1, <1>3

LEMMA FollowSteps ==
  ASSUME BrowserInv, NEW i, follow_target(i)
  PROVE  Redrawn \/ Committed \/ Refocused
<1> DEFINE c == [cur EXCEPT !.focus = i]
<1>0. PICK t \in Targets : FollowHeld(t, i) \/ FollowMesh(t, i) \/ FollowNothing(t, i)
  BY DEF follow_target
<1>1. Shown(c)
  BY Focused DEF BrowserInv, ScreenInv
<1>2. CASE FollowHeld(t, i)
  <2>1. PICK path \in DOMAIN Disk :
          /\ Resolves(t, cur.dir, path)
          /\ \/ commit_page(Disk[path], t, Front(path))
             \/ recompose(c, last_scroll) /\ UNCHANGED <<stack, trail>>
    BY <1>2 DEF FollowHeld
  <2> HIDE DEF c
  <2>3. /\ Disk[path] \in Pages /\ Front(path) \in Dirs /\ t \in Addresses
        /\ cur.dir \in Dirs /\ cur.dir # None
    BY BrowserAssumption DEF BrowserInv, ScreenInv, Shown, Dirs, Addresses
  <2>4. Named(PageState(Disk[path], t, Front(path), cur.dir))
    BY <2>1, <2>3 DEF Named, PageState
  <2>5. Shown(PageState(Disk[path], t, Front(path), cur.dir))
    BY <2>3, <2>4, Fresh
  <2> QED BY <1>1, <2>1, <2>5 DEF Committed, Redrawn
<1>3. CASE FollowMesh(t, i)
  BY <1>3 DEF FollowMesh, Refocused
<1>4. CASE FollowNothing(t, i)
  <2>1. recompose(c, last_scroll) /\ UNCHANGED <<stack, trail>>
    BY <1>4 DEF FollowNothing
  <2> HIDE DEF c
  <2> QED BY <1>1, <2>1 DEF Redrawn
<1> QED BY <1>0, <1>2, <1>3, <1>4

LEMMA ReaderSteps ==
  ASSUME BrowserInv, Next
  PROVE  Redrawn \/ Committed \/ back \/ Refocused \/ UNCHANGED Reader
<1>1. Shown(cur) /\ cur.page \in Pages /\ cur.scroll \in Nat /\ Height[cur.page] \in Nat
      /\ frame.height = Height[cur.page]
  BY HeightOf, FrameFields DEF BrowserInv, ScreenInv, Shown, Within
<1>2. CASE Scroll
  <2>1. PICK d \in Deltas \cup {frame.height} : scroll_by(d) /\ UNCHANGED <<stack, trail>>
    BY <1>2 DEF Scroll
  <2>2. d \in Int
    <3>1. Deltas \subseteq Int /\ frame.height \in Int
      BY <1>1, BrowserAssumption
    <3> QED BY <3>1
  <2> DEFINE s == clamp_scroll(cur.scroll + d, frame.height)
  <2>3. s \in Nat /\ clamp_scroll(s, Height[cur.page]) = s
    <3>1. cur.scroll + d \in Int
      BY <1>1, <2>2
    <3> QED BY <1>1, <3>1, Clamped
  <2>4. recompose([cur EXCEPT !.scroll = s, !.focus = 0], s)
    BY <2>1 DEF scroll_by
  <2> HIDE DEF s
  <2>5. Shown([cur EXCEPT !.scroll = s, !.focus = 0])
    BY <1>1, <2>3, Scrolled
  <2> QED BY <2>1, <2>4, <2>5 DEF Redrawn
<1>3. CASE scroll_top
  <2>1. Shown([cur EXCEPT !.scroll = 0, !.focus = 0])
    <3>1. 0 \in Nat /\ clamp_scroll(0, Height[cur.page]) = 0
      <4>1. 0 \in Int
        OBVIOUS
      <4> QED BY <1>1, <4>1, Clamped
    <3> QED BY <1>1, <3>1, Scrolled
  <2> QED BY <1>3, <2>1 DEF scroll_top, Redrawn
<1>4. CASE focus_cycle \/ set_focus
  <2>1. PICK i : recompose([cur EXCEPT !.focus = i], last_scroll) /\ UNCHANGED <<stack, trail>>
    BY <1>4 DEF focus_cycle, set_focus
  <2>2. Shown([cur EXCEPT !.focus = i])
    BY <1>1, Focused
  <2> QED BY <2>1, <2>2 DEF Redrawn
<1>5. CASE follow_focus \/ click_at
  <2>1. \E i : follow_target(i)
    BY <1>5 DEF follow_focus, click_at
  <2> QED BY <2>1, FollowSteps
<1>6. CASE open_path
  <2>1. PICK path \in DOMAIN Disk :
          recompose(Opening(path), last_scroll) /\ UNCHANGED <<stack, trail>>
    BY <1>6 DEF open_path
  <2>2. Shown(Opening(path))
    BY Opened
  <2> QED BY <2>1, <2>2 DEF Redrawn
<1>7. ASSUME Return PROVE Redrawn
  BY <1>1, <1>7 DEF Return, Redrawn
<1>8. CASE EndDrain
  <2>1. CASE fetch.response /\ fetch.g_page # None
    <3> DEFINE p == fetch.g_page
               t == fetch.target
    <3>1. commit_page(p, t, <<>>)
      BY <1>8, <2>1 DEF EndDrain
    <3>2. p = Serves[t] /\ t \in Mesh /\ ~Held(t, cur.dir)
      BY <1>8, <2>1 DEF EndDrain, BrowserInv, NetInv, AskedInv
    <3> HIDE DEF p, t
    <3>3. /\ p \in Pages /\ t \in Addresses /\ <<>> \in Dirs
          /\ cur.dir \in Dirs /\ cur.dir # None
      BY <3>2, BrowserAssumption DEF BrowserInv, ScreenInv, Shown, Dirs, Addresses
    <3>4. Named(PageState(p, t, <<>>, cur.dir))
      BY <3>2, <3>3 DEF Named, PageState
    <3>5. Shown(PageState(p, t, <<>>, cur.dir))
      BY <3>3, <3>4, Fresh
    <3> QED BY <3>1, <3>5 DEF Committed
  <2> QED BY <1>7, <1>8, <2>1 DEF EndDrain
<1>9. CASE NoRoute
  BY <1>7, <1>9 DEF NoRoute
<1>10. CASE Discovered \/ EndWait \/ Tick \/ received_announce \/ on_link_established
            \/ on_response \/ on_failed \/ on_link_closed
  BY <1>10 DEF Discovered, EndWait, Tick, received_announce, on_link_established,
               on_response, on_failed, on_link_closed
<1> QED BY <1>2, <1>3, <1>4, <1>5, <1>6, <1>8, <1>9, <1>10 DEF Next, Loop

-----------------------------------------------------------------------------
(* The fetch.                                                              *)

LEMMA FollowFetches ==
  ASSUME NetInv, Idle, NEW i, follow_target(i)
  PROVE  NetInv'
<1>0. PICK t \in Targets : FollowHeld(t, i) \/ FollowMesh(t, i) \/ FollowNothing(t, i)
  BY DEF follow_target
<1>1. CASE UNCHANGED <<fetch, net>>
  BY <1>1 DEF NetInv
<1>2. CASE FollowMesh(t, i)
  <2>1. /\ t \in Mesh /\ fetch.n < MaxFetches /\ net' = net
        /\ fetch' = [fetch EXCEPT !.phase = "discover", !.target = t, !.clock = 0, !.n = @ + 1,
                                  !.g_path = t, !.done = FALSE, !.response = FALSE,
                                  !.g_page = None]
    BY <1>2, BrowserAssumption DEF FollowMesh
  <2>2. fetch \in Fetch /\ fetch.n \in 0..MaxFetches /\ MaxFetches \in Nat
    BY BrowserAssumption DEF NetInv, Fetch
  <2>3. /\ fetch'.phase = "discover" /\ fetch'.target = t /\ fetch'.g_path = t
        /\ fetch'.g_page = None /\ fetch'.n = fetch.n + 1
    BY <2>1, <2>2 DEF Fetch
  <2>4. fetch' \in Fetch
    <3> DEFINE m == fetch.n + 1
               e == [fetch EXCEPT !.phase = "discover", !.target = t, !.clock = 0, !.n = m,
                                  !.g_path = t]
    <3>0. m \in 0..MaxFetches
      BY <2>1, <2>2
    <3> HIDE DEF m
    <3>1. e \in Fetch
      BY <2>1, <2>2, <3>0 DEF Fetch, Phases
    <3>2. fetch' = [e EXCEPT !.done = FALSE, !.response = FALSE, !.g_page = None]
      BY <2>1 DEF m
    <3> HIDE DEF e
    <3> QED BY <3>1, <3>2 DEF Fetch
  <2>5. \A j \in 1..MaxFetches : net[j].link \notin {"pending", "asked", "answered"}
    BY DEF NetInv, Idle
  <2>6. fetch'.n \in 1..MaxFetches
    BY <2>1, <2>2, <2>3
  <2> QED BY <2>1, <2>3, <2>4, <2>5, <2>6 DEF NetInv
<1> QED BY <1>0, <1>1, <1>2 DEF FollowHeld, FollowNothing

\* A link that is live is the current fetch's.
LEMMA LiveLink ==
  ASSUME NetInv, NEW i \in DOMAIN net, net[i].link \in {"pending", "asked", "answered"}
  PROVE  /\ i \in 1..MaxFetches /\ i = fetch.n /\ fetch.phase = "link"
         /\ fetch.g_path = fetch.target /\ fetch.target \in Mesh
         /\ net[i] \in [link : LinkStates, path : Mesh \cup {None}]
         /\ net[i].link = "asked" => net[i].path = fetch.target
<1>1. i \in 1..MaxFetches
  BY DEF NetInv
<1>2. i = fetch.n /\ fetch.phase = "link"
  BY <1>1 DEF NetInv
<1> QED BY <1>1, <1>2 DEF NetInv

\* A callback of the current fetch's link moves the link on and fills the statics.
LEMMA CallbackKeeps ==
  ASSUME NetInv, NEW i \in 1..MaxFetches, i = fetch.n, fetch.phase = "link",
         NEW l \in [link : LinkStates, path : Mesh \cup {None}],
         l.link = "asked" => l.path = fetch.target,
         net' = [net EXCEPT ![i] = l],
         NEW g \in {None, Serves[fetch.target]}, NEW r \in BOOLEAN, NEW d \in BOOLEAN,
         fetch' = [fetch EXCEPT !.g_page = g, !.response = r, !.done = d]
  PROVE  NetInv'
<1>1. /\ fetch \in Fetch /\ fetch.target \in Mesh /\ g \in Pages \cup {None}
      /\ net \in [1..MaxFetches -> [link : LinkStates, path : Mesh \cup {None}]]
  BY BrowserAssumption DEF NetInv
<1>2. /\ fetch'.phase = "link" /\ fetch'.target = fetch.target /\ fetch'.g_path = fetch.g_path
      /\ fetch'.g_page = g /\ fetch'.n = fetch.n
  BY <1>1 DEF Fetch
<1>3. fetch' \in Fetch
  BY <1>1 DEF Fetch
<1>4. /\ net' \in [1..MaxFetches -> [link : LinkStates, path : Mesh \cup {None}]]
      /\ net'[i] = l /\ \A j \in 1..MaxFetches : j # i => net'[j] = net[j]
  BY <1>1
<1> QED BY <1>2, <1>3, <1>4 DEF NetInv

LEMMA CallbackSteps ==
  ASSUME NetInv, on_link_established \/ on_response \/ on_failed \/ on_link_closed
  PROVE  NetInv'
<1>1. /\ fetch \in Fetch /\ fetch.g_page \in {None, Serves[fetch.target]}
      /\ fetch.response \in BOOLEAN /\ fetch.done \in BOOLEAN
      /\ net \in [1..MaxFetches -> [link : LinkStates, path : Mesh \cup {None}]]
  BY DEF NetInv, Fetch
<1>2. ASSUME NEW g, NEW r, NEW d
      PROVE  [fetch EXCEPT !.g_page = g, !.response = r, !.done = d].phase = fetch.phase
  BY <1>1 DEF Fetch
<1>3. CASE on_link_established
  <2>1. PICK i \in DOMAIN net :
          /\ net[i].link = "pending" /\ fetch' = fetch
          /\ net' = [net EXCEPT ![i] = [link |-> "asked", path |-> fetch.g_path]]
    BY <1>3 DEF on_link_established
  <2>2. i \in 1..MaxFetches /\ i = fetch.n /\ fetch.phase = "link"
        /\ fetch.g_path = fetch.target /\ fetch.target \in Mesh
    BY <2>1, LiveLink
  <2> DEFINE l == [link |-> "asked", path |-> fetch.g_path]
  <2>3. l \in [link : LinkStates, path : Mesh \cup {None}] /\ l.path = fetch.target
    BY <2>2 DEF LinkStates
  <2>4. fetch' = [fetch EXCEPT !.g_page = fetch.g_page, !.response = fetch.response,
                               !.done = fetch.done]
    BY <1>1, <2>1 DEF Fetch
  <2> HIDE DEF l
  <2> QED BY <1>1, <2>1, <2>2, <2>3, <2>4, CallbackKeeps DEF l
<1>4. CASE on_response
  <2>1. PICK i \in DOMAIN net : \E page :
          /\ net[i].link = "asked" /\ page \in {Serves[net[i].path], None}
          /\ net' = [net EXCEPT ![i].link = "answered"]
          /\ fetch' = [fetch EXCEPT !.g_page = page, !.response = TRUE, !.done = TRUE]
    BY <1>4 DEF on_response
  <2>0. PICK page :
          /\ net[i].link = "asked" /\ page \in {Serves[net[i].path], None}
          /\ net' = [net EXCEPT ![i].link = "answered"]
          /\ fetch' = [fetch EXCEPT !.g_page = page, !.response = TRUE, !.done = TRUE]
    BY <2>1
  <2>2. /\ i \in 1..MaxFetches /\ i = fetch.n /\ fetch.phase = "link"
        /\ net[i] \in [link : LinkStates, path : Mesh \cup {None}]
        /\ net[i].path = fetch.target
    BY <2>1, LiveLink
  <2> DEFINE l == [net[i] EXCEPT !.link = "answered"]
  <2>3. l \in [link : LinkStates, path : Mesh \cup {None}] /\ l.link = "answered"
        /\ net' = [net EXCEPT ![i] = l]
    BY <2>1, <2>2 DEF LinkStates
  <2>4. page \in {None, Serves[fetch.target]}
    BY <2>0, <2>2
  <2> HIDE DEF l
  <2> QED BY <2>0, <2>2, <2>3, <2>4, CallbackKeeps
<1>5. CASE on_failed \/ on_link_closed
  <2>1. PICK i \in DOMAIN net, s \in {"answered", "closed"}, r \in BOOLEAN, d \in BOOLEAN :
          /\ net[i].link \in {"pending", "asked", "answered"}
          /\ net' = [net EXCEPT ![i].link = s]
          /\ fetch' = [fetch EXCEPT !.g_page = fetch.g_page, !.response = r, !.done = d]
    <3>1. CASE on_failed
      <4>1. PICK i \in DOMAIN net : /\ net[i].link = "asked"
                                    /\ net' = [net EXCEPT ![i].link = "answered"]
                                    /\ fetch' = [fetch EXCEPT !.response = FALSE, !.done = TRUE]
        BY <3>1 DEF on_failed
      <4>2. fetch' = [fetch EXCEPT !.g_page = fetch.g_page, !.response = FALSE, !.done = TRUE]
        BY <1>1, <4>1 DEF Fetch
      <4> QED BY <4>1, <4>2
    <3>2. CASE on_link_closed
      <4> DEFINE d == fetch.done \/ ~fetch.response
      <4>1. PICK i \in DOMAIN net : /\ net[i].link \in {"pending", "asked", "answered"}
                                    /\ net' = [net EXCEPT ![i].link = "closed"]
                                    /\ fetch' = [fetch EXCEPT !.done = d]
        BY <3>2 DEF on_link_closed
      <4>2. d \in BOOLEAN
        OBVIOUS
      <4> HIDE DEF d
      <4>3. fetch' = [fetch EXCEPT !.g_page = fetch.g_page, !.response = fetch.response,
                                   !.done = d]
        BY <1>1, <4>1 DEF Fetch
      <4> QED BY <1>1, <4>1, <4>2, <4>3
    <3> QED BY <1>5, <3>1, <3>2
  <2>2. /\ i \in 1..MaxFetches /\ i = fetch.n /\ fetch.phase = "link"
        /\ net[i] \in [link : LinkStates, path : Mesh \cup {None}]
    BY <2>1, LiveLink
  <2> DEFINE l == [net[i] EXCEPT !.link = s]
  <2>3. l \in [link : LinkStates, path : Mesh \cup {None}] /\ l.link # "asked"
        /\ net' = [net EXCEPT ![i] = l]
    BY <2>1, <2>2 DEF LinkStates
  <2> HIDE DEF l
  <2> QED BY <1>1, <2>1, <2>2, <2>3, CallbackKeeps
<1> QED BY <1>3, <1>4, <1>5

\* Where the fetch stands changes, and no link is live that was not.
LEMMA PhaseKeeps ==
  ASSUME NetInv, fetch' \in Fetch,
         fetch'.g_page = fetch.g_page, fetch'.target = fetch.target,
         fetch'.g_path = fetch.g_path, fetch'.n = fetch.n,
         fetch'.phase = "idle" \/ fetch.phase # "idle",
         fetch'.phase = fetch.phase \/ \A i \in 1..MaxFetches :
            net'[i].link \in {"pending", "asked", "answered"}
              => i = fetch.n /\ fetch'.phase = "link" /\ net'[i].link # "asked",
         net' = net \/ (/\ net' \in [1..MaxFetches -> [link : LinkStates, path : Mesh \cup {None}]]
                        /\ fetch'.phase # fetch.phase)
  PROVE  NetInv'
BY DEF NetInv

LEMMA LoopSteps ==
  ASSUME NetInv, Discovered \/ NoRoute \/ EndWait \/ EndDrain \/ Tick \/ received_announce
  PROVE  NetInv'
<1>1. /\ fetch \in Fetch /\ fetch.n \in Nat /\ fetch.clock \in Nat
      /\ net \in [1..MaxFetches -> [link : LinkStates, path : Mesh \cup {None}]]
      /\ fetch.done \in BOOLEAN /\ fetch.response \in BOOLEAN
  BY BrowserAssumption DEF NetInv, Fetch
<1>2. CASE Discovered
  <2>1. /\ fetch.phase = "discover" /\ fetch' = [fetch EXCEPT !.phase = "link"]
        /\ net' = [net EXCEPT ![fetch.n].link = "pending"]
    BY <1>2 DEF Discovered
  <2>2. /\ fetch' \in Fetch /\ fetch'.g_page = fetch.g_page /\ fetch'.target = fetch.target
        /\ fetch'.g_path = fetch.g_path /\ fetch'.n = fetch.n /\ fetch'.phase = "link"
    BY <1>1, <2>1 DEF Fetch, Phases
  <2>3. /\ net' \in [1..MaxFetches -> [link : LinkStates, path : Mesh \cup {None}]]
        /\ \A i \in 1..MaxFetches : i # fetch.n => net'[i] = net[i]
        /\ fetch.n \in 1..MaxFetches => net'[fetch.n].link = "pending"
    BY <1>1, <2>1 DEF LinkStates
  <2>4. \A i \in 1..MaxFetches : net'[i].link \in {"pending", "asked", "answered"}
          => i = fetch.n /\ net'[i].link # "asked"
    BY <2>1, <2>3 DEF NetInv
  <2> QED BY <2>1, <2>2, <2>3, <2>4, PhaseKeeps
<1>3. ASSUME fetch' = [fetch EXCEPT !.phase = "idle", !.clock = 0, !.until = 0], net' = net,
             fetch.phase # "link"
      PROVE  NetInv'
  <2>1. /\ fetch' \in Fetch /\ fetch'.g_page = fetch.g_page /\ fetch'.target = fetch.target
        /\ fetch'.g_path = fetch.g_path /\ fetch'.n = fetch.n /\ fetch'.phase = "idle"
    BY <1>1, <1>3 DEF Fetch, Phases
  <2>2. \A i \in 1..MaxFetches : net[i].link \notin {"pending", "asked", "answered"}
    BY <1>3 DEF NetInv
  <2> QED BY <1>3, <2>1, <2>2, PhaseKeeps
<1>4. CASE NoRoute \/ EndDrain
  BY <1>3, <1>4 DEF NoRoute, EndDrain, Return
<1>5. CASE EndWait
  <2> DEFINE d == fetch.done \/ (~LinkClosed(fetch.n) /\ ~fetch.response)
  <2>1. /\ fetch.phase = "link" /\ net' = [net EXCEPT ![fetch.n].link = "closed"]
        /\ fetch' = [fetch EXCEPT !.phase = "drain", !.until = fetch.clock + 1, !.done = d]
    BY <1>5 DEF EndWait, WaitOver
  <2>2. d \in BOOLEAN
    OBVIOUS
  <2> HIDE DEF d
  <2>3. /\ fetch' \in Fetch /\ fetch'.g_page = fetch.g_page /\ fetch'.target = fetch.target
        /\ fetch'.g_path = fetch.g_path /\ fetch'.n = fetch.n /\ fetch'.phase = "drain"
    <3> DEFINE u == fetch.clock + 1
               e == [fetch EXCEPT !.phase = "drain", !.until = u]
    <3>0. u \in Nat
      BY <1>1
    <3> HIDE DEF u
    <3>1. /\ e \in Fetch /\ e.g_page = fetch.g_page /\ e.target = fetch.target
          /\ e.g_path = fetch.g_path /\ e.n = fetch.n /\ e.phase = "drain"
      <4>1. e \in Fetch
        BY <1>1, <3>0 DEF Fetch, Phases
      <4> QED BY <1>1, <4>1 DEF Fetch
    <3>2. fetch' = [e EXCEPT !.done = d]
      BY <2>1 DEF u
    <3> HIDE DEF e
    <3> QED BY <2>2, <3>1, <3>2 DEF Fetch
  <2>4. /\ net' \in [1..MaxFetches -> [link : LinkStates, path : Mesh \cup {None}]]
        /\ \A i \in 1..MaxFetches : i # fetch.n => net'[i] = net[i]
        /\ fetch.n \in 1..MaxFetches => net'[fetch.n].link = "closed"
    BY <1>1, <2>1 DEF LinkStates
  <2>5. \A i \in 1..MaxFetches : net'[i].link \notin {"pending", "asked", "answered"}
    BY <2>1, <2>4 DEF NetInv
  <2> QED BY <2>1, <2>3, <2>4, <2>5, PhaseKeeps
<1>6. CASE Tick \/ received_announce
  <2>1. /\ fetch.phase # "idle" /\ net' = net
        /\ \/ fetch' = [fetch EXCEPT !.clock = @ + 1]
           \/ \E node \in Nodes : fetch' = [fetch EXCEPT !.known = @ \cup {node}]
    BY <1>6 DEF Tick, received_announce, Idle, Nodes
  <2>2. /\ fetch' \in Fetch /\ fetch'.g_page = fetch.g_page /\ fetch'.target = fetch.target
        /\ fetch'.g_path = fetch.g_path /\ fetch'.n = fetch.n /\ fetch'.phase = fetch.phase
    BY <1>1, <2>1 DEF Fetch
  <2> QED BY <2>1, <2>2, PhaseKeeps
<1> QED BY <1>2, <1>4, <1>5, <1>6

LEMMA NetStep == ASSUME NetInv, [Next]_vars PROVE NetInv'
<1>1. CASE UNCHANGED <<fetch, net>>
  BY <1>1 DEF NetInv
<1>2. CASE follow_focus \/ click_at
  <2>1. Idle /\ \E i : follow_target(i)
    BY <1>2 DEF follow_focus, click_at
  <2> QED BY <2>1, FollowFetches
<1>3. CASE Scroll \/ scroll_top \/ focus_cycle \/ set_focus \/ back \/ open_path
  BY <1>1, <1>3 DEF Scroll, scroll_top, focus_cycle, set_focus, back, open_path
<1> QED BY <1>1, <1>2, <1>3, LoopSteps, CallbackSteps DEF Next, Loop, vars

-----------------------------------------------------------------------------

LEMMA BrowserInit == Init => BrowserInv
<1> SUFFICES ASSUME Init PROVE BrowserInv
  OBVIOUS
<1>1. Home \in DOMAIN Disk /\ MaxFetches \in Nat
  BY BrowserAssumption
<1>2. ScreenInv
  <2>1. cur = Opening(Home) /\ frame = compose(Disk[Home], 0)
    BY DEF Init
  <2>2. cur.page = Disk[Home] /\ cur.scroll = 0
    BY <2>1 DEF Opening, PageState
  <2> QED BY <1>1, <2>1, <2>2, Opened DEF ScreenInv
<1>3. TrailInv
  BY DEF Init, TrailInv
<1>4. NetInv
  <2>1. fetch \in Fetch /\ fetch.phase = "idle" /\ fetch.g_page = None
    BY <1>1 DEF Init, Fetch, Phases
  <2>2. net \in [1..MaxFetches -> [link : LinkStates, path : Mesh \cup {None}]]
    BY DEF Init, LinkStates
  <2>3. \A i \in 1..MaxFetches : net[i].link = "none"
    BY DEF Init
  <2> QED BY <2>1, <2>2, <2>3 DEF NetInv
<1>5. AskedInv
  BY DEF Init, AskedInv
<1> QED BY <1>2, <1>3, <1>4, <1>5 DEF BrowserInv

\* A fetch is of a target that is not held where the reader is, and they wait there.
LEMMA AskedStep == ASSUME BrowserInv, [Next]_vars PROVE AskedInv'
<1>1. CASE UNCHANGED cur /\ (fetch.phase = "idle" => fetch' = fetch) /\ fetch'.target = fetch.target
  BY <1>1 DEF BrowserInv, AskedInv
<1>2. CASE fetch'.phase = "idle"
  BY <1>2 DEF AskedInv
<1>3. CASE follow_focus \/ click_at
  <2>1. Idle /\ \E i : follow_target(i)
    BY <1>3 DEF follow_focus, click_at
  <2>0. PICK i : follow_target(i)
    BY <2>1
  <2>2. PICK t \in Targets : FollowHeld(t, i) \/ FollowMesh(t, i) \/ FollowNothing(t, i)
    BY <2>0 DEF follow_target
  <2>3. CASE FollowMesh(t, i)
    <3>1. /\ ~Held(t, cur.dir) /\ cur' = [cur EXCEPT !.focus = i]
          /\ fetch' = [fetch EXCEPT !.phase = "discover", !.target = t, !.clock = 0, !.n = @ + 1,
                                    !.g_path = t, !.done = FALSE, !.response = FALSE,
                                    !.g_page = None]
      BY <2>3 DEF FollowMesh
    <3>2. cur'.dir = cur.dir
      BY <3>1, Focused DEF BrowserInv, ScreenInv
    <3>3. fetch'.target = t
      BY <3>1 DEF BrowserInv, NetInv, Fetch
    <3> QED BY <3>1, <3>2, <3>3 DEF AskedInv
  <2>4. CASE UNCHANGED fetch
    BY <1>2, <2>1, <2>4 DEF Idle
  <2> QED BY <2>2, <2>3, <2>4 DEF FollowHeld, FollowNothing
<1>4. CASE Scroll \/ scroll_top \/ focus_cycle \/ set_focus \/ back \/ open_path
  <2>1. Idle /\ UNCHANGED fetch
    BY <1>4 DEF Scroll, scroll_top, focus_cycle, set_focus, back, open_path
  <2> QED BY <1>2, <2>1 DEF Idle
<1>5. CASE NoRoute \/ EndDrain
  <2>1. fetch' = [fetch EXCEPT !.phase = "idle", !.clock = 0, !.until = 0]
    BY <1>5 DEF NoRoute, EndDrain, Return
  <2>2. fetch'.phase = "idle"
    BY <2>1 DEF BrowserInv, NetInv, Fetch
  <2> QED BY <1>2, <2>2
<1>6. CASE Discovered \/ EndWait \/ Tick \/ received_announce \/ on_link_established
           \/ on_response \/ on_failed \/ on_link_closed
  <2>1. UNCHANGED cur /\ fetch.phase # "idle"
    <3>1. UNCHANGED cur
      BY <1>6 DEF Discovered, EndWait, Tick, received_announce, on_link_established,
                  on_response, on_failed, on_link_closed, Reader
    <3>2. fetch.phase # "idle"
      BY <1>6 DEF Discovered, EndWait, WaitOver, Tick, received_announce, on_link_established,
                  on_response, on_failed, on_link_closed, Idle
    <3> QED BY <3>1, <3>2
  <2>2. fetch \in Fetch
    BY DEF BrowserInv, NetInv
  <2>3. fetch'.target = fetch.target
    BY <1>6, <2>2 DEF Discovered, EndWait, Tick, received_announce, on_link_established,
                      on_response, on_failed, on_link_closed, Fetch
  <2> QED BY <1>1, <2>1, <2>3
<1>7. CASE UNCHANGED vars
  BY <1>1, <1>7 DEF vars
<1> QED BY <1>3, <1>4, <1>5, <1>6, <1>7 DEF Next, Loop

LEMMA BrowserStep == BrowserInv /\ [Next]_vars => BrowserInv'
<1> SUFFICES ASSUME BrowserInv, [Next]_vars PROVE BrowserInv'
  OBVIOUS
<1>1. NetInv'
  BY NetStep DEF BrowserInv
<1>2. Redrawn \/ Committed \/ back \/ Refocused \/ UNCHANGED Reader
  BY ReaderSteps DEF vars, Reader
<1>3. ScreenInv' /\ TrailInv'
  BY <1>2, ReaderKeeps DEF BrowserInv
<1> QED BY <1>1, <1>3, AskedStep DEF BrowserInv

\* The frame and its link boxes are always those of the page and offset the browser
\* holds, whatever the heights of the pages followed, gone back to and fetched.
THEOREM FrameStaysCurrent == Spec => []FrameIsCurrent
<1>1. BrowserInv => FrameIsCurrent
  BY DEF BrowserInv, ScreenInv, FrameIsCurrent
<1> QED BY <1>1, BrowserInit, BrowserStep, PTL DEF Spec

\* The page shown is the one its address names, be it a file that shadows a node's
\* page: no answer is committed for a fetch it was not asked for, however many
\* fetches gave up before it and whatever the network stack calls back, and when.
THEOREM PageIsTheOneAsked == Spec => []CommittedIsAsked
<1>1. BrowserInv => CommittedIsAsked
  BY DEF BrowserInv, ScreenInv, Shown, CommittedIsAsked
<1> QED BY <1>1, BrowserInit, BrowserStep, PTL DEF Spec

\* Back returns to the page a link was followed from, at the offset it was read at,
\* through any number of fetches, reopened pages and links followed since.
THEOREM BackGoesBack == Spec => BackReturns
<1>1. ASSUME BrowserInv, [Next]_vars
      PROVE  Len(trail') < Len(trail) =>
               frame'.page = Last(trail).page /\ frame'.scroll = Last(trail).scroll
  <2> SUFFICES ASSUME Len(trail') < Len(trail)
               PROVE  frame'.page = Last(trail).page /\ frame'.scroll = Last(trail).scroll
    OBVIOUS
  <2>1. ScreenInv /\ TrailInv /\ Len(trail) \in Nat
    BY <1>1 DEF BrowserInv, TrailInv
  <2>2. trail' # trail
    BY <2>1
  <2>3. Redrawn \/ Committed \/ back \/ Refocused \/ UNCHANGED Reader
    BY <1>1, ReaderSteps DEF vars, Reader
  <2>4. ~Committed
    <3> SUFFICES ASSUME Committed PROVE FALSE
      OBVIOUS
    <3>1. Len(trail') > Len(trail) /\ TrailInv'
      BY <2>1, CommittedKeeps
    <3>2. Len(trail') \in Nat
      BY <3>1 DEF TrailInv
    <3> QED BY <2>1, <3>1, <3>2
  <2>5. back
    BY <2>2, <2>3, <2>4 DEF Redrawn, Refocused, Reader
  <2> QED BY <2>1, <2>5, BackKeeps
<1> QED BY <1>1, BrowserInit, BrowserStep, PTL DEF Spec, BackReturns
==============================================================================
