---------------------------- MODULE HttpHeader -----------------------------
(***************************************************************************)
(* How a client that speaks HTTP is read up to its credentials             *)
(* (client_connection_manager.cpp: OnHttpChallenge, OnHttpRawChallenge,    *)
(* OnHttpNormalChallenge), with the header cut into pieces anywhere: one   *)
(* step of ProxyClients seen from within.                                  *)
(*                                                                         *)
(* A line is a name, a value and the end of line, "\r" and "\n".  The      *)
(* connection (not part of the repository) keeps what OnData did not       *)
(* consume and gives it again, with what has come since or, when           *)
(* something was consumed, at once.                                        *)
(*                                                                         *)
(* Bounds: MaxLines header lines behind the request line; the kinds of     *)
(* lines are those that the code tells apart.                              *)
(***************************************************************************)
EXTENDS Integers, SequencesExt

CONSTANT MaxLines

ASSUME HttpAssumption == MaxLines \in Nat

Kinds == {"Proxy-Connection", "Connection", "Proxy-Authorization", "Other"}

CR == [kind |-> "\r", part |-> 0]
LF == [kind |-> "\n", part |-> 0]
Text(kind) == << [kind |-> kind, part |-> 1], [kind |-> kind, part |-> 2] >>

VARIABLES
    method,             \* "CONNECT" or another
    header,             \* the kinds of the lines the client sends
    received, consumed, \* how much of them has come, and was consumed
    Phase,
    HttpHeaderLine, RebuiltHttpHeader, AuthNamePass,   \* of Http
    cuts                \* history: where the data of a call ended, in a challenge

httpVars == <<method, header, received, consumed, Phase, HttpHeaderLine, RebuiltHttpHeader,
              AuthNamePass, cuts>>

\* The bytes of the client: request line, header lines, empty line.
Bytes ==
    [p \in 1..4 * Len(header) + 6 |->
       LET i == (p - 1) \div 4
           q == ((p - 1) % 4) + 1
       IN IF i > Len(header) THEN <<CR, LF>>[q]
          ELSE (Text(IF i = 0 THEN method ELSE header[i]) \o <<CR, LF>>)[q]]

Headers == {h \in UNION {[1..n -> Kinds] : n \in 0..MaxLines} :
              \A i, j \in DOMAIN h :
                  h[i] = "Proxy-Authorization" /\ h[j] = "Proxy-Authorization" => i = j}

HttpInit ==
    /\ method \in {"CONNECT", "GET"} /\ header \in Headers
    /\ received = 0 /\ consumed = 0 /\ cuts = {}
    /\ Phase = "eUnknown"
    /\ HttpHeaderLine = <<>> /\ RebuiltHttpHeader = <<>> /\ AuthNamePass = "none"

-----------------------------------------------------------------------------
\* find("\r\n"): how many bytes are before it, behind the first i; -1 for npos.
LineEndIndex(data, i) ==
    LET ends == {j \in i + 1..Len(data) - 1 : data[j] = CR /\ data[j + 1] = LF}
    IN IF ends = {} THEN -1 ELSE (CHOOSE j \in ends : \A k \in ends : j <= k) - i - 1

\* What a line leaves in the RebuiltHttpHeader.
Rebuilt(line) ==
    CASE line[1].kind \in {"Proxy-Connection", "Proxy-Authorization"} -> <<>>
      [] line[1].kind = "Connection" -> << <<"Connection: close">> >>
      [] OTHER -> << line >>

\* The credentials are decoded from n bytes, as many as the line has in the
\* last piece: another number of them than it really has (one below 21 wraps
\* around in "LineEndIndex - 21") gives something else, or nothing at all.
Decoded(line, n, before) ==
    IF line[1].kind # "Proxy-Authorization" THEN before
    ELSE IF line = Text("Proxy-Authorization") /\ n = 2 THEN "own" ELSE "other"

\* Faulty variant: an end of line at the start of a piece ends the header.
PassEndsEarly(data, at) ==
    LET n == LineEndIndex(data, at.used)
        line == at.line \o SubSeq(data, at.used + 1, at.used + n)
    IN IF at.ended \/ n = -1 THEN at
       ELSE IF n = 0 THEN [used |-> at.used + 2, line |-> <<>>, ended |-> TRUE,
                           rebuilt |-> at.rebuilt, auth |-> at.auth]
       ELSE [used |-> at.used + n + 2, line |-> <<>>, ended |-> FALSE,
             rebuilt |-> at.rebuilt \o Rebuilt(line),
             auth |-> Decoded(line, n, at.auth)]

\* One pass of the loop of both challenges, which has used so many bytes of
\* data and begun a line: the next line that ends in data is read, or the
\* empty one, behind which nothing is.
Pass(data, at) ==
    LET n == LineEndIndex(data, at.used)
        line == at.line \o SubSeq(data, at.used + 1, at.used + n)
    IN IF at.ended \/ n = -1 THEN at
       ELSE IF line = <<>> THEN [used |-> at.used + 2, line |-> <<>>, ended |-> TRUE,
                                 rebuilt |-> at.rebuilt, auth |-> at.auth]
       ELSE [used |-> at.used + n + 2, line |-> <<>>, ended |-> FALSE,
             rebuilt |-> at.rebuilt \o Rebuilt(line),
             auth |-> Decoded(line, n, at.auth)]

\* The loop: a pass that reads no line ends it.
Read(data, line, rebuilt, auth) ==
    LET pass[k \in 0..Len(data)] ==
          IF k = 0 THEN [used |-> 0, line |-> line, ended |-> FALSE,
                         rebuilt |-> rebuilt, auth |-> auth]
          ELSE Pass(data, pass[k - 1])
    IN pass[Len(data)]

Credentials(auth) == IF auth = "other" THEN {"wrong", "none"} ELSE {auth}

\* The end of the header: credentials are asked for, or refused (LingerKill).
HeaderDone(wait) == Phase' = IF AuthNamePass' = "none" THEN "Refused" ELSE wait

OnHttpChallenge(data) ==
    /\ Phase = "eUnknown"
    /\ LET n == LineEndIndex(data, 0) IN
       IF n = -1 THEN UNCHANGED <<consumed, Phase, RebuiltHttpHeader>>
       ELSE /\ consumed' = consumed + n + 2
            /\ IF method = "CONNECT"
               THEN Phase' = "eHttpRawChallenge" /\ UNCHANGED RebuiltHttpHeader
               ELSE Phase' = "eHttpNormalChallenge" /\ RebuiltHttpHeader' = << Text(method) >>
    /\ UNCHANGED <<HttpHeaderLine, AuthNamePass, cuts>>

\* The credentials are local to the call; the lines that were read are consumed
\* all the same, unless the client is refused.
OnHttpRawChallenge(data) ==
    /\ Phase = "eHttpRawChallenge"
    /\ LET r == Read(data, <<>>, <<>>, "none") IN
       /\ IF r.ended THEN AuthNamePass' \in Credentials(r.auth)
                          /\ HeaderDone("eHttpRawWaitForAccountExchange")
          ELSE UNCHANGED <<AuthNamePass, Phase>>
       /\ consumed' = consumed + IF Phase' = "Refused" THEN 0 ELSE r.used
    /\ UNCHANGED <<HttpHeaderLine, RebuiltHttpHeader>>

\* All of the data is consumed.
OnHttpNormalChallenge(data) ==
    /\ Phase = "eHttpNormalChallenge"
    /\ LET r == Read(data, HttpHeaderLine, RebuiltHttpHeader, AuthNamePass) IN
       /\ consumed' = consumed + IF r.ended THEN r.used ELSE Len(data)
       /\ HttpHeaderLine' = IF r.ended THEN <<>> ELSE r.line \o SubSeq(data, r.used + 1, Len(data))
       /\ RebuiltHttpHeader' = r.rebuilt
       /\ AuthNamePass' \in Credentials(r.auth)
       /\ IF r.ended THEN HeaderDone("eHttpNormalWaitForAccountExchange") ELSE UNCHANGED Phase

\* OnData, when n bytes have come.
HttpData(n) ==
    LET data == SubSeq(Bytes, consumed + 1, n) IN
    /\ received' = n
    /\ \/ OnHttpChallenge(data)
       \/ /\ OnHttpRawChallenge(data) \/ OnHttpNormalChallenge(data)
          /\ cuts' = cuts \cup {n}
    /\ UNCHANGED <<method, header>>

HttpNext == \E n \in received..Len(Bytes) : n > consumed /\ HttpData(n)

-----------------------------------------------------------------------------
(* Properties *)

Done == Phase \in {"eHttpRawWaitForAccountExchange", "eHttpNormalWaitForAccountExchange", "Refused"}

HasAuth == Contains(header, "Proxy-Authorization")

\* Where the line with the credentials begins and ends.
AuthLine ==
    LET i == CHOOSE i \in DOMAIN header : header[i] = "Proxy-Authorization"
    IN 4 * i + 1..4 * i + 4

\* The places where a cut is seen.  Behind the credentials of a CONNECT, which
\* are forgotten; in the line with the credentials of another request, the
\* length of which is then wrong; between the "\r" and the "\n" of a line of
\* it, which is not taken for an end of line any more.
SeenCut ==
    IF method = "CONNECT"
    THEN HasAuth /\ \E c \in cuts : c < Len(Bytes) /\ \A i \in AuthLine : i <= c
    ELSE \E c \in cuts :
           \/ Bytes[c] = CR
           \/ HasAuth /\ {c, c + 1} \subseteq AuthLine

\* What should be sent on of the request line and the first i header lines.
RebuiltHeader[i \in 0..Len(header)] ==
    IF i = 0 THEN << Text(method) >> ELSE RebuiltHeader[i - 1] \o Rebuilt(Text(header[i]))

\* The pieces in which a header comes do not matter unless it is cut in one of
\* those places: the client that sends credentials is asked about with its own,
\* the one that sends none is refused, and the header sent on is the one it
\* sent without the lines meant for the proxy.  In any pieces, a client that
\* sends none is never asked about, and none but its own are taken from a
\* CONNECT.
PiecesDoNotMatter ==
    /\ ~SeenCut => /\ Len(Bytes) \in cuts => Done
                   /\ Done => AuthNamePass = IF HasAuth THEN "own" ELSE "none"
                   /\ Done /\ method # "CONNECT" =>
                        RebuiltHttpHeader = RebuiltHeader[Len(header)]
    /\ ~HasAuth => AuthNamePass = "none"
    /\ method = "CONNECT" => AuthNamePass # "wrong"
=============================================================================
