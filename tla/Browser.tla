------------------------------- MODULE Browser -------------------------------
(***************************************************************************)
(* The desktop browser: a page, its scroll offset and focus, the frame on  *)
(* screen, a stack to go back on, and live_fetch, which brings a page that *)
(* is not on disk over a link.  A handler and the recompose that follows   *)
(* it are one action; a fetch blocks the handler and is a phase, in which  *)
(* the network stack's callbacks run.                                      *)
(*                                                                         *)
(* A link's target is a hash, or none, and a path: the names along it,     *)
(* none for an anchor.  A file's path is the names from the host's root to *)
(* it, and a name stands for itself and then itself with .mu.  The network *)
(* stack is external: it may announce, establish, answer, refuse or close  *)
(* when it likes, and calls nothing back for a link that is closed.        *)
(***************************************************************************)
EXTENDS Integers, Sequences, SequencesExt

CONSTANTS
  LCD_HEIGHT,
  Pages,          \* the sources of pages, on disk and on nodes
  Height, Links,  \* per page: its height; its links, [y, to], from the top
  Targets,        \* link targets, [hash, rel]
  Disk,           \* per path of a file: its page
  Root, Home,     \* _root; the path the browser is started on
  Mesh, Serves,   \* targets with a mesh address; per one, the page its node serves
  Deltas,         \* the scroll steps of the keys
  TIMEOUT,        \* timeout_s, in ticks
  None,           \* no page, hash or directory
  MaxStack,       \* bound: pages to go back to
  MaxFetches      \* bound: fetches

ASSUME BrowserAssumption ==
  /\ LCD_HEIGHT \in Nat /\ TIMEOUT \in Nat \ {0} /\ MaxStack \in Nat /\ MaxFetches \in Nat
  /\ Disk \in [DOMAIN Disk -> Pages] /\ Home \in DOMAIN Disk
  /\ Mesh \subseteq Targets /\ Serves \in [Mesh -> Pages]
  /\ None \notin Pages \cup Targets /\ \A p \in DOMAIN Disk : None # Front(p)
  /\ None # <<>>
  /\ Height \in [Pages -> Nat]
  /\ \A p \in Pages : Links[p] \in Seq([y : Nat, to : Targets])
  /\ Deltas \subseteq Int

VARIABLES
  cur,          \* _cur: page, address, dir, scroll and focus, 0 for none; and, a
                \* history, from: the directory it was followed in, None if opened
  frame,        \* _frame: what is composed in the framebuffer
  last_scroll,  \* _last_scroll
  stack,        \* _stack
  fetch,        \* live_fetch: its phase and the statics of LiveFetch.cpp
  net,          \* per fetch: the state of its link, and the path it asked for
  trail         \* history: page and scroll of each page a link was followed from

vars == <<cur, frame, last_scroll, stack, fetch, net, trail>>

PageState(p, address, dir, from) ==
  [page |-> p, address |-> address, dir |-> dir, from |-> from, scroll |-> 0, focus |-> 0]

\* A page opened by its path, which is its address.
Opening(path) == PageState(Disk[path], [hash |-> None, rel |-> path], Front(path), None)

\* The links a frame shows are the ones on rows in its window.
compose(p, s) ==
  [page |-> p, scroll |-> s, height |-> Height[p],
   links |-> SelectSeq(Links[p], LAMBDA l : l.y >= s /\ l.y < s + LCD_HEIGHT)]

Init ==
  /\ cur = Opening(Home)
  /\ frame = compose(Disk[Home], 0)
  /\ last_scroll = 0
  /\ stack = <<>> /\ trail = <<>>
  /\ fetch = [phase |-> "idle", target |-> None, clock |-> 0, until |-> 0, n |-> 0,
              known |-> {}, g_path |-> None, done |-> FALSE, response |-> FALSE,
              g_page |-> None]
  /\ net = [i \in 1..MaxFetches |-> [link |-> "none", path |-> None]]

-----------------------------------------------------------------------------
(* Helpers.                                                                *)

clamp_scroll(s, height) ==
  LET maxs == IF height < LCD_HEIGHT THEN 0 ELSE height - LCD_HEIGHT
  IN  IF s < 0 THEN 0 ELSE IF s > maxs THEN maxs ELSE s

\* recompose, from the page c and _last_scroll: composed again if the clamped
\* offset is not the one last composed, and a focus past the links dropped.
recompose(c, last) ==
  LET s == clamp_scroll(c.scroll, Height[c.page])
      shown == compose(c.page, IF s # last THEN s ELSE c.scroll)
  IN  /\ frame' = shown
      /\ cur' = [c EXCEPT !.scroll = s, !.focus = IF @ > Len(shown.links) THEN 0 ELSE @]
      /\ last_scroll' = s

\* Mutant: the new page takes the old one's offset.
commit_page_keep(p, address, dir) ==
  /\ stack' = Append(stack, [cur EXCEPT !.focus = 0])
  /\ trail' = Append(trail, [page |-> frame.page, scroll |-> frame.scroll])
  /\ recompose([PageState(p, address, dir, cur.dir) EXCEPT !.scroll = cur.scroll], 0)

\* Mutant: the page is pushed after its offset was reset.
commit_page_late(p, address, dir) ==
  /\ stack' = Append(stack, [cur EXCEPT !.focus = 0, !.scroll = 0])
  /\ trail' = Append(trail, [page |-> frame.page, scroll |-> frame.scroll])
  /\ recompose(PageState(p, address, dir, cur.dir), 0)

commit_page(p, address, dir) ==
  /\ stack' = Append(stack, [cur EXCEPT !.focus = 0])
  /\ trail' = Append(trail, [page |-> frame.page, scroll |-> frame.scroll])
  /\ recompose(PageState(p, address, dir, cur.dir), 0)

-----------------------------------------------------------------------------
(* Keys, clicks and script commands.                                       *)

Idle == fetch.phase = "idle"

scroll_by(d) ==
  LET s == clamp_scroll(cur.scroll + d, frame.height)
  IN  recompose([cur EXCEPT !.scroll = s, !.focus = 0], s)

Scroll == \E d \in Deltas \cup {frame.height} :
  Idle /\ scroll_by(d) /\ UNCHANGED <<stack, fetch, net, trail>>

scroll_top ==
  /\ Idle /\ recompose([cur EXCEPT !.scroll = 0, !.focus = 0], 0)
  /\ UNCHANGED <<stack, fetch, net, trail>>

focus_cycle == \E dir \in {1, -1} :
  LET n == Len(frame.links)
      next == IF n = 0 THEN 0
              ELSE IF cur.focus = 0 THEN IF dir > 0 THEN 1 ELSE n
              ELSE 1 + ((cur.focus - 1 + dir + n) % n)
  IN  /\ Idle /\ recompose([cur EXCEPT !.focus = next], last_scroll)
      /\ UNCHANGED <<stack, fetch, net, trail>>

\* A number past the links is ignored.
set_focus == \E i \in DOMAIN frame.links :
  /\ Idle /\ recompose([cur EXCEPT !.focus = i], last_scroll)
  /\ UNCHANGED <<stack, fetch, net, trail>>

\* Where resolve looks for a target's file: by its hash under the root, by its last
\* name and by its path in the page's directory, and by both under the root.
Candidates(t, dir) ==
  LET base == <<Last(t.rel)>>
  IN  (IF t.hash # None THEN <<Append(Root, <<t.hash>> \o t.rel)>> ELSE <<>>)
        \o <<dir \o base, dir \o t.rel, Root \o t.rel, Root \o base>>

\* resolve: path is the first of them that is a file.
Resolves(t, dir, path) ==
  /\ t.rel # <<>>
  /\ LET c == Candidates(t, dir)
     IN  \E i \in DOMAIN c : path = c[i] /\ \A j \in 1..i - 1 : c[j] \notin DOMAIN Disk

Held(t, dir) == \E path \in DOMAIN Disk : Resolves(t, dir, path)

\* The file found is read, or cannot be.
FollowHeld(t, i) == \E path \in DOMAIN Disk :
  /\ Resolves(t, cur.dir, path) /\ Len(stack) < MaxStack
  /\ \/ commit_page(Disk[path], t, Front(path))
     \/ recompose([cur EXCEPT !.focus = i], last_scroll) /\ UNCHANGED <<stack, trail>>
  /\ UNCHANGED <<fetch, net>>

\* live_fetch up to its first wait: the statics are reset and a path requested.
FollowMesh(t, i) ==
  /\ ~Held(t, cur.dir) /\ t \in Mesh /\ Len(stack) < MaxStack /\ fetch.n < MaxFetches
  /\ fetch' = [fetch EXCEPT !.phase = "discover", !.target = t, !.clock = 0, !.n = @ + 1,
                            !.g_path = t, !.done = FALSE, !.response = FALSE,
                            !.g_page = None]
  /\ cur' = [cur EXCEPT !.focus = i]
  /\ UNCHANGED <<frame, last_scroll, stack, net, trail>>

\* A target with no file and no mesh address.
FollowNothing(t, i) ==
  /\ ~Held(t, cur.dir) /\ t \notin Mesh
  /\ recompose([cur EXCEPT !.focus = i], last_scroll)
  /\ UNCHANGED <<stack, fetch, net, trail>>

follow_target(i) == \E t \in Targets :
  t = frame.links[i].to /\ (FollowHeld(t, i) \/ FollowMesh(t, i) \/ FollowNothing(t, i))

\* Enter on the focused link.
follow_focus == Idle /\ cur.focus \in DOMAIN frame.links /\ follow_target(cur.focus)

\* A click in a link's box.
click_at == Idle /\ \E i \in DOMAIN frame.links : follow_target(i)

back ==
  /\ Idle /\ stack # <<>>
  /\ recompose(Last(stack), Last(stack).scroll)
  /\ stack' = Front(stack) /\ trail' = Front(trail)
  /\ UNCHANGED <<fetch, net>>

\* The script's open: _last_scroll is not reset and nothing is pushed.
open_path == \E path \in DOMAIN Disk :
  /\ Idle /\ recompose(Opening(path), last_scroll)
  /\ UNCHANGED <<stack, fetch, net, trail>>

-----------------------------------------------------------------------------
(* live_fetch.                                                             *)

Reader == <<cur, frame, last_scroll, stack, trail>>

\* Back in the handler, with no page: the reader stays where they were.
Return ==
  /\ fetch' = [fetch EXCEPT !.phase = "idle", !.clock = 0, !.until = 0]
  /\ recompose(cur, last_scroll) /\ UNCHANGED <<stack, net, trail>>

\* The node is known: a link is made.
Discovered ==
  /\ fetch.phase = "discover" /\ fetch.clock < TIMEOUT \div 2
  /\ fetch.target.hash \in fetch.known
  /\ fetch' = [fetch EXCEPT !.phase = "link"]
  /\ net' = [net EXCEPT ![fetch.n].link = "pending"]
  /\ UNCHANGED Reader

NoRoute == fetch.phase = "discover" /\ fetch.clock >= TIMEOUT \div 2 /\ Return

LinkClosed(i) == net[i].link = "closed"

\* Mutant: only an answer ends the wait.
WaitOver_answer ==
  /\ fetch.phase = "link"
  /\ fetch.done \/ (LinkClosed(fetch.n) /\ ~fetch.response)

WaitOver ==
  /\ fetch.phase = "link"
  /\ \/ fetch.done \/ fetch.clock >= TIMEOUT
     \/ LinkClosed(fetch.n) /\ ~fetch.response

\* Mutant: the link is left to itself.
EndWait_keep ==
  /\ WaitOver
  /\ fetch' = [fetch EXCEPT !.phase = "drain", !.until = fetch.clock + 1]
  /\ UNCHANGED <<net, Reader>>

\* The link is torn down, which calls on_link_closed, and left to drain.
EndWait ==
  /\ WaitOver
  /\ net' = [net EXCEPT ![fetch.n].link = "closed"]
  /\ fetch' = [fetch EXCEPT !.phase = "drain", !.until = fetch.clock + 1,
                            !.done = @ \/ (~LinkClosed(fetch.n) /\ ~fetch.response)]
  /\ UNCHANGED Reader

\* The drain is over: a page is committed, with no directory, or there is none.
EndDrain ==
  /\ fetch.phase = "drain" /\ fetch.clock >= fetch.until
  /\ IF fetch.response /\ fetch.g_page # None
     THEN /\ commit_page(fetch.g_page, fetch.target, <<>>)
          /\ fetch' = [fetch EXCEPT !.phase = "idle", !.clock = 0, !.until = 0]
          /\ UNCHANGED net
     ELSE Return

\* Time passes until the loop's next look at the clock.
Tick ==
  /\ \/ fetch.phase = "discover" /\ fetch.clock < TIMEOUT \div 2
     \/ fetch.phase = "link" /\ fetch.clock < TIMEOUT
     \/ fetch.phase = "drain" /\ fetch.clock < fetch.until
  /\ fetch' = [fetch EXCEPT !.clock = @ + 1]
  /\ UNCHANGED <<net, Reader>>

-----------------------------------------------------------------------------
(* The network stack's callbacks, which run while a fetch waits.           *)

received_announce == \E node \in {t.hash : t \in Mesh} \ fetch.known :
  /\ ~Idle /\ fetch' = [fetch EXCEPT !.known = @ \cup {node}] /\ UNCHANGED <<net, Reader>>

\* The request names whatever path is the current fetch's.
on_link_established == \E i \in DOMAIN net :
  /\ ~Idle /\ net[i].link = "pending"
  /\ net' = [net EXCEPT ![i] = [link |-> "asked", path |-> fetch.g_path]]
  /\ UNCHANGED <<fetch, Reader>>

\* The answer is the page asked for, or nothing.
on_response == \E i \in DOMAIN net :
  /\ ~Idle /\ net[i].link = "asked"
  /\ net' = [net EXCEPT ![i].link = "answered"]
  /\ \E page \in {Serves[net[i].path], None} :
       fetch' = [fetch EXCEPT !.g_page = page, !.response = TRUE, !.done = TRUE]
  /\ UNCHANGED Reader

on_failed == \E i \in DOMAIN net :
  /\ ~Idle /\ net[i].link = "asked"
  /\ net' = [net EXCEPT ![i].link = "answered"]
  /\ fetch' = [fetch EXCEPT !.response = FALSE, !.done = TRUE]
  /\ UNCHANGED Reader

on_link_closed == \E i \in DOMAIN net :
  /\ ~Idle /\ net[i].link \in {"pending", "asked", "answered"}
  /\ net' = [net EXCEPT ![i].link = "closed"]
  /\ fetch' = [fetch EXCEPT !.done = @ \/ ~fetch.response]
  /\ UNCHANGED Reader

Loop == Discovered \/ NoRoute \/ EndWait \/ EndDrain

Next ==
  \/ Scroll \/ scroll_top \/ focus_cycle \/ set_focus \/ follow_focus \/ click_at \/ back
  \/ open_path \/ Loop \/ Tick \/ received_announce \/ on_link_established \/ on_response
  \/ on_failed \/ on_link_closed

\* The wait loops run every ten milliseconds and time passes; the network owes
\* nothing.
Spec == Init /\ [][Next]_vars /\ WF_vars(Loop) /\ WF_vars(Tick)

-----------------------------------------------------------------------------
(* Properties.                                                             *)

\* The framebuffer and the link boxes are those of the page and the offset the
\* browser holds: recompose composes again only if the offset is not the last one
\* composed, so every handler must leave _last_scroll right.
FrameIsCurrent == frame = compose(cur.page, cur.scroll)

\* What a page's address names: the file opened; the file resolve finds for the
\* target in the directory it was followed in; or, if it finds none, the page served.
Named(c) ==
  IF c.from = None THEN c.address.rel \in DOMAIN Disk /\ c.page = Disk[c.address.rel]
  ELSE \/ \E path \in DOMAIN Disk : Resolves(c.address, c.from, path) /\ c.page = Disk[path]
       \/ ~Held(c.address, c.from) /\ c.address \in Mesh /\ c.page = Serves[c.address]

\* The page shown is the one its address names: no answer to an earlier fetch, or to
\* an earlier link, is committed for a later one, for live_fetch's statics are shared
\* and the link of a fetch that gave up is torn down.  A file shadows the node:
\* resolve looks for a hash-qualified target by its last name alone too
\* (browser.cpp:181-184), so <hash>:/page/index.mu may show the index.mu beside the
\* page followed from under the node's address, and is then never fetched.
CommittedIsAsked == Named(cur)

\* Back returns to the page a link was followed from, at the offset it was read at.
BackReturns ==
  [][Len(trail') < Len(trail) =>
       frame'.page = Last(trail).page /\ frame'.scroll = Last(trail).scroll]_vars

\* A fetch ends, whatever the peer does: live_fetch cannot hang the browser.
FetchEnds == ~Idle ~> Idle
==============================================================================
