---------------------------- MODULE GrpcMessage ----------------------------
(***************************************************************************)
(* proxy_error_response: an error of the proxy becomes a gRPC status and a *)
(* percent-encoded grpc-message header.  Messages and headers are          *)
(* sequences of bytes; the loop of percent_encode_grpc_message is stepped  *)
(* byte by byte.                                                           *)
(***************************************************************************)
EXTENDS Naturals, Sequences

CONSTANT Messages     \* the texts of errors, as sequences of bytes

ASSUME MessageAssumption == Messages \subseteq Seq(0 .. 255)

VARIABLES
    error,      \* the variant of Error, or "none"
    message,    \* its to_string()
    pos,        \* the bytes encoded so far
    encoded,    \* the result so far
    reply       \* the headers of the response, once it is built

grpcVars == <<error, message, pos, encoded, reply>>

Blank == 32
Tilde == 126
Percent == 37

\* The variants of Error, an InvalidApplicationState by the state it names.
Unauthenticated == {"MissingAuthorizationHeader", "InvalidAuthorizationHeader",
                    "InvalidAuthorizationScheme", "InvalidAuthorizationToken", "Authorization"}
NotReady == {"MissingApplicationAddress", "LAUNCHING", "UpstreamConnect", "UpstreamHandshake",
             "UpstreamRequest"}
Over == {"RUNNING", "FAILED", "FINISHED"}
Faulty == {"Database", "InvalidUpstreamUri", "Internal"}
Error == Unauthenticated \cup NotReady \cup Over \cup Faulty \cup {"ApplicationNotFound"}

GrpcStatus(e) ==
    CASE e \in Unauthenticated         -> 16
      [] e = "ApplicationNotFound"     -> 5
      [] e \in NotReady                -> 14
      [] e \in Over                    -> 9
      [] e \in Faulty                  -> 13

\* {byte:02X}
HexDigit(n) == IF n < 10 THEN 48 + n ELSE 55 + n

\* Fault-seeded variant: the percent sign is a printable byte like the others.
EncodeBytePercentPlain(b) ==
    IF Blank <= b /\ b <= Tilde THEN <<b>>
    ELSE <<Percent, HexDigit(b \div 16), HexDigit(b % 16)>>

EncodeByte(b) ==
    IF Blank <= b /\ b <= Tilde /\ b # Percent THEN <<b>>
    ELSE <<Percent, HexDigit(b \div 16), HexDigit(b % 16)>>

\* "proxy%20error"
Fallback == <<112, 114, 111, 120, 121, 37, 50, 48, 101, 114, 114, 111, 114>>

\* HeaderValue::from_str: no control characters.
ValidHeader(s) == \A i \in DOMAIN s : s[i] >= 32 /\ s[i] # 127

GrpcInit ==
    /\ error = "none"
    /\ message = <<>>
    /\ pos = 0
    /\ encoded = <<>>
    /\ reply = <<>>

\* ProxyService::call gets an error from dispatch_request.
ProxyError(e) ==
    /\ error = "none"
    /\ error' = e
    /\ message' \in Messages
    /\ UNCHANGED <<pos, encoded, reply>>

Encode ==
    /\ pos < Len(message)
    /\ encoded' = encoded \o EncodeByte(message[pos + 1])
    /\ pos' = pos + 1
    /\ UNCHANGED <<error, message, reply>>

Respond ==
    /\ error # "none" /\ pos = Len(message) /\ reply = <<>>
    /\ reply' = <<GrpcStatus(error), IF ValidHeader(encoded) THEN encoded ELSE Fallback>>
    /\ UNCHANGED <<error, message, pos, encoded>>

-----------------------------------------------------------------------------
\* What a gRPC client does with the header: %XY is the byte with that number,
\* every other byte itself.
HexValue(c) == IF c < 58 THEN c - 48 ELSE c - 55
ReadMessage(s) ==
    LET from[i \in 1 .. Len(s) + 3] ==
            IF i > Len(s) THEN <<>>
            ELSE IF s[i] = Percent /\ i + 2 <= Len(s)
                 THEN <<16 * HexValue(s[i + 1]) + HexValue(s[i + 2])>> \o from[i + 3]
                 ELSE <<s[i]>> \o from[i + 1]
    IN  from[1]

\* The client reads the message of the error, byte for byte: no byte of it can
\* be taken for the start of an escape, and none makes a header that is refused
\* and replaced by the fallback (percent_encode_grpc_message,
\* proxy_error_response).
ClientReadsMessage == reply # <<>> => ReadMessage(reply[2]) = message
=============================================================================
