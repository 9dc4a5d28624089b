------------------------------ MODULE PageFetch ------------------------------
(***************************************************************************)
(* Scenario page-fetch: test_interop/page_fetch_requester finds a node by  *)
(* its announce, opens one Link to it and asks for four pages in turn; the *)
(* last is over the size this build decompresses, and must fail.           *)
(*                                                                         *)
(* The callbacks of all four requests are the same two functions, which    *)
(* take an answer for that of the page the global phase stands at.  The    *)
(* stack is external: a request concludes at most once, by on_response, by *)
(* on_failed, or by on_failed when its ten seconds are up.                 *)
(***************************************************************************)
EXTENDS Bench

VARIABLES
  fetch,   \* announce_seen; link: its status; phase; done: the *_done of that
           \* phase; big_deadline; left: when the main loop was left
  open,    \* the requests that have not concluded
  passed,  \* page -> plain_ok, gz_ok, mid_ok, big_rejected
  truth,   \* history: page -> how the requests for that page concluded
  server   \* the peer: the pages it served, last_announce, when it served all

pageFetch == <<fetch, open, passed, truth, server>>

Pages == {"plain", "gz", "mid", "big"}
NextPage == [plain |-> "gz", gz |-> "mid", mid |-> "big"]

FetchInit ==
  /\ fetch = [announce_seen |-> FALSE, link |-> "none", phase |-> "plain", done |-> FALSE,
              big_deadline |-> Never, left |-> Never]
  /\ open = {}
  /\ passed = [p \in Pages |-> FALSE]
  /\ truth = [p \in Pages |-> {}]
  /\ server = [served |-> {}, last_announce |-> Never, all |-> Never]

AskFor == [plain |-> "ask plain", gz |-> "ask gz", mid |-> "ask mid", big |-> "ask big"]

\* gz.mu is index.mu, served compressed: the two have the same bytes.
matches(got, want) == got = want \/ {got, want} = {"plain", "gz"}

\* on_response and on_failed, called for a request for page while phase stands
\* where it stands.
on_response(phase, page) ==
  IF phase = "big" THEN passed ELSE [passed EXCEPT ![phase] = matches(page, phase)]
on_failed(phase) == IF phase = "big" THEN [passed EXCEPT !["big"] = TRUE] ELSE passed

\* received_announce: the first one only.
NewNode(got) == "node" \in got /\ ~fetch.announce_seen

\* on_link_established, which makes the first request.
Established(got) == "established" \in got /\ fetch.link = "opening"

FetchVerdict(f, ok) ==
  Code(f.announce_seen /\ f.link \notin {"none", "opening"} /\ \A p \in Pages : ok[p])

Timed(r) == now - r.at >= Seconds(10)
BIG_WAIT == Seconds(14)

\* Which request the stack concludes in this iteration, if any.
Concluding(got) == {r \in open : r.page \in got \/ Timed(r)}

\* One iteration, of the main loop or of the half second of cleaning up after
\* it.  how: what the stack does with the request r, or "nothing" when there is
\* none to conclude.  A page comes out right and the over-cap page is refused,
\* if the stack does well; a link may close.
FetchTurn(r, how, closes) ==
  LET got == Heard("cpp")
      f == fetch
      torn == f.left # Never /\ f.phase = "big" /\ f.done   \* teardown() was called
      live == Concluding(got)
      new == NewNode(got)
      up == Established(got)
      link == IF closes THEN "closed" ELSE IF up THEN "up"
              ELSE IF new THEN "opening" ELSE f.link
      well == /\ ~closes
              /\ r.page \in got => how = IF r.page = "big" THEN "failed" ELSE "response"
              /\ (r.page # "none" /\ r.page \notin got) => how = "failed"
      done == f.done \/ how # "nothing"
      \* the main loop: from a phase that is done to the next; with the link
      \* closed, to the end
      on == f.left = Never /\ done /\ f.phase # "big"
      phase == IF ~on THEN f.phase ELSE IF link = "closed" THEN "big"
               ELSE NextPage[f.phase]
      over == done /\ (~on \/ link = "closed")
      ask == f.left = Never /\ (up \/ on) /\ link # "closed"
      deadline == IF ask /\ phase = "big" THEN now + BIG_WAIT ELSE f.big_deadline
      hung == phase = "big" /\ ~over /\ f.big_deadline # Never /\ now > f.big_deadline
      left == IF f.left # Never THEN f.left
              ELSE IF (phase = "big" /\ over) \/ hung \/ Elapsed("cpp") > Timeout
              THEN now ELSE Never
      marks == IF how = "response" THEN on_response(f.phase, r.page)
               ELSE IF how = "failed" THEN on_failed(f.phase) ELSE passed
  IN  /\ IF live = {} \/ torn THEN r.page = "none" ELSE r \in live
      /\ r.page = "none" => how = "nothing"
      /\ closes => f.link = "up" /\ ~torn
      /\ fetch' = [announce_seen |-> f.announce_seen \/ new, link |-> link,
                   phase |-> phase, done |-> over \/ hung,
                   big_deadline |-> deadline, left |-> left]
      /\ passed' = marks
      /\ truth' = IF how = "nothing" THEN truth
                  ELSE [truth EXCEPT ![r.page] =
                          @ \cup {IF how = "failed" /\ r.page \notin got
                                  THEN "timeout" ELSE how}]
      /\ open' = (open \ (IF how = "nothing" THEN {} ELSE {r}))
                 \cup (IF ask THEN {[page |-> phase, at |-> now]} ELSE {})
      /\ Iterate("cpp",
                 (IF new THEN {"link"} ELSE {}) \cup (IF ask THEN {AskFor[phase]} ELSE {}),
                 IF f.left # Never /\ now > f.left THEN FetchVerdict(f, marks) ELSE On,
                 well)

FetchLoop ==
  /\ scenario = "page-fetch"
  /\ Running("cpp")
  /\ \E r \in open \cup {[page |-> "none", at |-> Never]},
        how \in {"nothing", "response", "failed"}, closes \in BOOLEAN :
       FetchTurn(r, how, closes)
  /\ UNCHANGED server

\* page_fetch_server.py: announce, and every two seconds until the first page is
\* asked for; serve; leave a second after the last page, whatever the time.
FetchServer ==
  /\ scenario = "page-fetch"
  /\ Running("peer")
  /\ LET s == server
         asked == {p \in Pages : AskFor[p] \in Heard("peer")}
         due == "plain" \notin s.served /\ now - s.last_announce >= Seconds(2)
         served == s.served \cup asked
     IN  IF Elapsed("peer") >= Timeout /\ s.all = Never
         THEN Leave("peer", 2) /\ UNCHANGED server
         ELSE /\ server' = [served |-> served,
                            last_announce |-> IF due THEN now ELSE s.last_announce,
                            all |-> IF served = Pages /\ s.all = Never THEN now ELSE s.all]
              /\ Iterate("peer",
                         (IF due THEN {"node"} ELSE {}) \cup asked
                           \cup (IF "link" \in Heard("peer") THEN {"established"} ELSE {}),
                         IF s.all # Never /\ now - s.all >= Seconds(1) THEN 0 ELSE On,
                         TRUE)
  /\ UNCHANGED <<fetch, open, passed, truth>>

\* What a pass shows: each page was the answer to the request for it, and the
\* request for the over-cap page failed: it was refused, or its ten seconds ran
\* out.  The second is not what main.cpp:25-28 and 239-241 say of it, "Must FAIL
\* CLEANLY", "fails rather than hanging", with a BIG_WAIT of 14 s that "catches a
\* regression to a hang": a request that hangs is ended by its own shorter time
\* limit, on_failed takes that for the refusal, and BIG_WAIT waits for a stack that
\* does not end its requests at all.
FetchEarned ==
  /\ \A p \in Pages \ {"big"} : truth[p] = {"response"}
  /\ truth["big"] = {"failed"} \/ truth["big"] = {"timeout"}
=============================================================================
