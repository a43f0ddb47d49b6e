------------------------- MODULE BackendConnection -------------------------
(***************************************************************************)
(* xBackendConnection (lib_backend_connection): one connection to a        *)
(* backend server, opened again by OnTick whenever it is lost, that is     *)
(* usable (Ready) between the answer to its challenge and its end.         *)
(*                                                                         *)
(* A timestamp is kept as the time since it, counted up to the longest     *)
(* limit, LongAgo; zero, what Init and a new attempt write, is long ago.   *)
(* The Ticker of a connection stands still between two Ticks, and a Tick   *)
(* finds any time later: a pass of the main loop may take as long as it    *)
(* likes.  The state Connected lasts for a moment of OnConnected and is    *)
(* not kept.  Data that OnData calls invalid makes the connection (which   *)
(* is not part of the repository) close like its peer.                     *)
(***************************************************************************)
EXTENDS Integers

CONSTANTS MinReconnectTimeout, MinConnectionTimeout,
          MinRequestKeepAliveTimeout, MinKeepAliveTimeout

ASSUME BackendTimeouts ==
    /\ {MinReconnectTimeout, MinConnectionTimeout, MinRequestKeepAliveTimeout,
        MinKeepAliveTimeout} \subseteq Nat \ {0}
    /\ MinReconnectTimeout < MinConnectionTimeout
    /\ MinConnectionTimeout <= MinKeepAliveTimeout
    /\ MinRequestKeepAliveTimeout < MinKeepAliveTimeout

VARIABLES
    State,
    socket,                \* the xTcpConnection: "none", "connecting", "open", "closed"
    sinceStart,            \* since ConnectionStartTimestampMS
    sinceRequest,          \* since LastRequestKeepAliveTimestampMS
    sinceKeepAlive,        \* since LastKeepAliveTimestampMS
    \* history, of the present connection:
    introduced,            \* the challenge has been answered
    unanswered             \* with a keep-alive request that has no answer: since the last
                           \* Tick that found none; else 0

backendVars == <<State, socket, sinceStart, sinceRequest, sinceKeepAlive, introduced, unanswered>>

LongAgo == MinKeepAliveTimeout

Passes == 1..LongAgo     \* how long a pass of the main loop may take

Later(age, d) == IF age + d >= LongAgo THEN LongAgo ELSE age + d

BackendInit ==
    /\ State = "Unspecified" /\ socket = "none"
    /\ sinceStart = LongAgo /\ sinceRequest = LongAgo /\ sinceKeepAlive = LongAgo
    /\ introduced = FALSE /\ unanswered = 0

\* Init; again after a Clean.
BackendSetup ==
    /\ State = "Unspecified"
    /\ State' = "SetupReady"
    /\ sinceStart' = LongAgo /\ sinceRequest' = LongAgo /\ sinceKeepAlive' = LongAgo
    /\ UNCHANGED <<socket, introduced, unanswered>>

BackendClean ==
    /\ State # "Unspecified"
    /\ State' = "Unspecified" /\ socket' = "none"
    /\ introduced' = FALSE /\ unanswered' = 0
    /\ UNCHANGED <<sinceStart, sinceRequest, sinceKeepAlive>>

-----------------------------------------------------------------------------
(* OnTick, at a time that is d later than at the last one *)

\* The end of OnTick: what was Closing is cleaned and, when the last attempt
\* is old enough, opened again (opened: whether Connection.Init succeeds).
CheckAndReconnect(closing, start, d, opened) ==
    IF ~closing /\ State # "SetupReady"
    THEN /\ sinceStart' = start
         /\ sinceRequest' = Later(sinceRequest, d) /\ sinceKeepAlive' = Later(sinceKeepAlive, d)
         /\ UNCHANGED <<State, socket, introduced, unanswered>>
    ELSE /\ introduced' = FALSE /\ unanswered' = 0
         /\ IF start < MinReconnectTimeout
            THEN /\ State' = "SetupReady" /\ socket' = "none"
                 /\ sinceStart' = start
                 /\ sinceRequest' = Later(sinceRequest, d) /\ sinceKeepAlive' = Later(sinceKeepAlive, d)
            ELSE /\ State' = IF opened THEN "Connecting" ELSE "SetupReady"
                 /\ socket' = IF opened THEN "connecting" ELSE "none"
                 /\ sinceStart' = 0 /\ sinceRequest' = LongAgo /\ sinceKeepAlive' = LongAgo

\* Faulty variant: only an attempt that is not connected yet is given up.
TickUnready(d, opened) ==
    LET start == Later(sinceStart, d) IN
    CheckAndReconnect(\/ State = "Closing"
                      \/ State = "Connecting" /\ start >= MinConnectionTimeout, start, d, opened)

OnTickUnready(d, opened) ==
    LET start == Later(sinceStart, d) IN
    CheckAndReconnect(\/ State = "Closing"
                      \/ /\ State \in {"Connecting", "Challenging"}
                         /\ start >= MinConnectionTimeout, start, d, opened)

\* Faulty variant: the peer is never asked.
TickReadyMute(d, opened) ==
    IF Later(sinceKeepAlive, d) >= MinKeepAliveTimeout
    THEN CheckAndReconnect(TRUE, Later(sinceStart, d), d, opened)
    ELSE /\ sinceStart' = Later(sinceStart, d) /\ sinceKeepAlive' = Later(sinceKeepAlive, d)
         /\ sinceRequest' = Later(sinceRequest, d)
         /\ UNCHANGED <<State, socket, introduced, unanswered>>

\* The keep-alives: a peer that has not sent one for too long is given up; it
\* is asked for one before.
OnTickReady(d, opened) ==
    LET keepAlive == Later(sinceKeepAlive, d)
        request   == Later(sinceRequest, d)
        asks      == request >= MinRequestKeepAliveTimeout
    IN IF keepAlive >= MinKeepAliveTimeout
       THEN CheckAndReconnect(TRUE, Later(sinceStart, d), d, opened)
       ELSE /\ sinceStart' = Later(sinceStart, d) /\ sinceKeepAlive' = keepAlive
            /\ sinceRequest' = IF asks THEN 0 ELSE request
            /\ unanswered' = IF asks \/ unanswered # 0 THEN Later(unanswered, d) ELSE 0
            /\ UNCHANGED <<State, socket, introduced>>

OnTick(d, opened) ==
    /\ State # "Unspecified"
    /\ IF State = "Ready" THEN OnTickReady(d, opened) ELSE OnTickUnready(d, opened)

-----------------------------------------------------------------------------
(* Callbacks of the connection *)

OnConnected ==
    /\ socket = "connecting"
    /\ socket' = "open" /\ State' = "Challenging"
    /\ UNCHANGED <<sinceStart, sinceRequest, sinceKeepAlive, introduced, unanswered>>

OnPeerClose ==
    /\ socket \in {"connecting", "open"}
    /\ socket' = "closed" /\ State' = "Closing"
    /\ UNCHANGED <<sinceStart, sinceRequest, sinceKeepAlive, introduced, unanswered>>

KeepAlivePacket ==
    /\ socket = "open"
    /\ sinceKeepAlive' = 0 /\ unanswered' = 0
    /\ UNCHANGED <<State, socket, sinceStart, sinceRequest, introduced>>

\* Faulty variant: Ready, with the times of the connection's start.
ReadyUndated ==
    /\ State = "Challenging" /\ socket = "open"
    /\ State' = "Ready" /\ introduced' = TRUE
    /\ UNCHANGED <<socket, sinceStart, sinceRequest, sinceKeepAlive, unanswered>>

\* A response that is taken makes the connection Ready; if OnConnectionReady
\* refuses, the connection is closed.
ChallengeResp ==
    /\ State = "Challenging" /\ socket = "open"
    /\ State' = "Ready" /\ introduced' = TRUE
    /\ sinceRequest' = 0 /\ sinceKeepAlive' = 0
    /\ UNCHANGED <<socket, sinceStart, unanswered>>

\* Any packet may be refused: before Ready all but the response, after it
\* what OnBackendPacket does not take.
RefusedPacket == socket = "open" /\ OnPeerClose

BackendConnectionNext ==
    \/ BackendSetup \/ BackendClean
    \/ \E d \in Passes, opened \in BOOLEAN : OnTick(d, opened)
    \/ OnConnected \/ OnPeerClose
    \/ KeepAlivePacket \/ ChallengeResp \/ RefusedPacket

-----------------------------------------------------------------------------
(* Properties *)

\* A state that may post (PostData asks for Ready) belongs to an open
\* connection that answered its own challenge; a connection object is
\* initialised exactly in the states in which Clean and OnTick clean it; and
\* no connection is Ready whose peer has been silent for too long.
BackendStateTrue ==
    /\ State = "Ready" <=> socket = "open" /\ introduced
    /\ State \in {"Unspecified", "SetupReady"} <=> socket = "none"
    /\ State = "Closing" <=> socket = "closed"
    /\ State = "Ready" => sinceKeepAlive < MinKeepAliveTimeout

\* OnTick gives a Ready connection up only when more time than the two limits
\* of the keep-alives differ by has passed since the last Tick that found no
\* request without answer: the peer was asked and did not answer for so long,
\* but for the length of the pass before it was asked.  With no request under
\* way that is the length of one pass (unanswered is 0 then): a loop that
\* stalls for longer gives a peer up that it has never asked.
ReadyIsKept ==
    [][State = "Ready" /\ State' # "Ready" =>
          \A d \in Passes, opened \in BOOLEAN : OnTick(d, opened) =>
              unanswered + d > MinKeepAliveTimeout - MinRequestKeepAliveTimeout]_backendVars

\* A backend that accepts the connection and never answers the challenge is
\* not waited for for ever, whatever keep-alives it sends.
ChallengeEnds == State = "Challenging" ~> State # "Challenging"
=============================================================================
