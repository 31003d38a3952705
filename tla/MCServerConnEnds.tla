-------------------------- MODULE MCServerConnEnds --------------------------
(***************************************************************************)
(* How a connection ends, for two kinds of node in one run.  A leader: its *)
(* header pipeline runs, its server notifies, and the goroutine of the     *)
(* client makes no requests; a peer: it has subscribed to nothing, no      *)
(* pipeline runs, and the goroutine makes requests.                        *)
(***************************************************************************)
EXTENDS MCServerConn

Peer == \A k \in Kinds : sent[k] = Nil

MCInit ==
    /\ sent \in {[k \in Kinds |-> 0], [k \in Kinds |-> Nil]}
    /\ ctx = FALSE /\ open = TRUE /\ up = TRUE
    /\ stream = <<>> /\ asked = {}
    /\ handlers = {} /\ chan = [i \in Ids |-> Empty]
    /\ pc = [c \in Callers |-> IF c \in Users /\ ~Peer THEN "ended" ELSE "idle"]
    /\ id = [c \in Callers |-> NoId] /\ mtx = NoOne
    /\ listen = "check" /\ note = NoNote /\ notifyClosed = FALSE
    /\ fwd = [k \in Kinds |-> IF Peer THEN "ended" ELSE "check"] /\ qpc = fwd
    /\ held = [k \in Kinds |-> Nil] /\ item = [k \in Kinds |-> Nil]
    /\ q = [k \in Kinds |-> <<>>] /\ qClosed = [k \in Kinds |-> Peer]
    /\ last = [k \in Kinds |-> 0]
    /\ over = FALSE

MCSpec == MCInit /\ [][Next]_vars /\ Progress

\* WindsUp and PassedBack for the connection of a peer, which stays one.  (With a
\* pipeline listen may stay blocked: README, observations.)
PeerWindsUp == Peer => WindsUp
PeerPassedBack == Peer => PassedBack
=============================================================================
