--------------------------- MODULE Authorization ---------------------------
(***************************************************************************)
(* Who a request comes from: UserAuth with its list of methods before the  *)
(* user routes, TokenAuth before the callback routes, and the proxy's      *)
(* extract_bearer_token before everything else.  A server starts with a    *)
(* configuration, and a request is stepped through the reader its path     *)
(* leads to.                                                               *)
(*                                                                         *)
(* A header is a sequence of symbols, of which NonAscii is one to_str()    *)
(* refuses.  A token is a sequence of symbols too; the JWT libraries are   *)
(* external and accept one symbol each.                                    *)
(***************************************************************************)
EXTENDS Naturals, Sequences

CONSTANTS
    Headers,       \* the values of an Authorization header
    AuthConfigs    \* the values of auth_methods, NotConfigured among them

NoHeader == <<"absent">>
NotConfigured == <<[name |-> "absent", options |-> {}]>>
NonAscii == "e_acute"
Space == "space"

\* An entry of auth_methods: its name and the options it has, "bad" if a value
\* (a key, a URL, an algorithm) cannot be used.
AuthConfig == [name : {"remote_user", "jwt", "jwks", "other"},
               options : SUBSET {"header", "pem", "pem_file", "jwks_url", "oidc_url", "bad"}]

ASSUME AuthorizationAssumption ==
    /\ Headers \subseteq Seq(STRING)
    /\ AuthConfigs \ {NotConfigured} \subseteq Seq(AuthConfig)

VARIABLES
    auth_configs,  \* the configuration of the server
    boot,          \* "booting", "serving" or "panicked"
    methods,       \* UserAuth's auth_methods
    route,         \* the API the request is for
    request,       \* its headers, and what whoami says
    next,          \* the method that is tried next
    answer         \* Pending, a refusal or the identity the handler gets

authVars == <<auth_configs, boot, methods, route, request, next, answer>>

Pending == [status |-> "pending", as |-> <<>>]
Refused(status) == [status |-> status, as |-> <<>>]
Admitted(identity) == [status |-> "ok", as |-> identity]

-----------------------------------------------------------------------------
(* The three readers of a bearer token                                     *)

ToStr(h) == \A i \in DOMAIN h : h[i] # NonAscii

\* Fault-seeded variant: the scheme is looked for without its blank.
StartsWithBearerBare(h) == Len(h) >= 1 /\ h[1] = "Bearer"

StartsWithBearer(h) == Len(h) >= 2 /\ h[1] = "Bearer" /\ h[2] = Space

\* auth.rs, extract_bearer_token: <<"error">>, <<"none">> or the token.
UserBearer(h) ==
    IF h = NoHeader THEN <<"none">>
    ELSE IF ~ ToStr(h) THEN <<"error">>
    ELSE IF StartsWithBearer(h) THEN <<"token", SubSeq(h, 3, Len(h))>>
    ELSE <<"none">>

\* Fault-seeded variant: split at the last blank (rsplit_once).
LastBlank(h) ==
    LET blanks == {i \in DOMAIN h : h[i] = Space}
    IN  IF blanks = {} THEN 0 ELSE CHOOSE i \in blanks : \A j \in blanks : i >= j

\* str::split_once(' '): the place of the first blank, or 0.
FirstBlank(h) ==
    LET blanks == {i \in DOMAIN h : h[i] = Space}
    IN  IF blanks = {} THEN 0 ELSE CHOOSE i \in blanks : \A j \in blanks : i <= j

SplitOnce(h) ==
    LET i == FirstBlank(h) IN <<SubSeq(h, 1, i - 1), SubSeq(h, i + 1, Len(h))>>

\* TokenAuth::authorize.
TokenBearer(h) ==
    IF h = NoHeader THEN Refused("401")
    ELSE IF ~ ToStr(h) THEN Refused("400")
    ELSE IF FirstBlank(h) # 0 /\ SplitOnce(h)[1] = <<"Bearer">> THEN Admitted(SplitOnce(h)[2])
    ELSE Refused("401")

\* Fault-seeded variant: an empty token is let through.
ProxyBearerAny(h) ==
    IF h = NoHeader THEN Refused("MissingAuthorizationHeader")
    ELSE IF ~ ToStr(h) \/ FirstBlank(h) = 0 THEN Refused("InvalidAuthorizationHeader")
    ELSE IF SplitOnce(h)[1] # <<"Bearer">> THEN Refused("InvalidAuthorizationScheme")
    ELSE Admitted(SplitOnce(h)[2])

\* proxy.rs, extract_bearer_token, which also refuses an empty token.
ProxyBearer(h) ==
    IF h = NoHeader THEN Refused("MissingAuthorizationHeader")
    ELSE IF ~ ToStr(h) \/ FirstBlank(h) = 0 THEN Refused("InvalidAuthorizationHeader")
    ELSE IF SplitOnce(h)[1] # <<"Bearer">> THEN Refused("InvalidAuthorizationScheme")
    ELSE IF SplitOnce(h)[2] = <<>> THEN Refused("InvalidAuthorizationHeader")
    ELSE Admitted(SplitOnce(h)[2])

-----------------------------------------------------------------------------
(* UserAuth                                                                *)

RemoteUserCreate(options) == "header" \in options
JWTCreate(options) == ("pem" \in options) # ("pem_file" \in options) /\ "bad" \notin options
JWKSCreate(options) == ("jwks_url" \in options) # ("oidc_url" \in options) /\ "bad" \notin options

\* Does create() of the method return?  It panics otherwise.
Creates(c) ==
    \/ c.name = "remote_user" /\ RemoteUserCreate(c.options)
    \/ c.name = "jwt" /\ JWTCreate(c.options)
    \/ c.name = "jwks" /\ JWKSCreate(c.options)

\* decode(): the subject of a token the key accepts, else an error.
Subject(key, bearer) ==
    IF bearer[1] # "token" THEN bearer[1]
    ELSE IF bearer[2] = <<key>> THEN key ELSE "error"

\* authorize_user of each method: a username, "none" or "error".
CurrentUser(r) == r.whoami
RemoteUser(r) == IF r.remote = NonAscii THEN "none" ELSE r.remote
JWT(r) == Subject("pem", UserBearer(r.auth))
JWKS(r) == Subject("jwk", UserBearer(r.auth))

AuthorizeUser(method, r) ==
    CASE method = "current_user" -> CurrentUser(r)
      [] method = "remote_user"  -> RemoteUser(r)
      [] method = "jwt"          -> JWT(r)
      [] method = "jwks"         -> JWKS(r)

NoRequest == [auth |-> NoHeader, remote |-> "none", whoami |-> "error"]

AuthInit ==
    /\ auth_configs \in AuthConfigs
    /\ boot = "booting"
    /\ methods = <<>>
    /\ route = "none"
    /\ request = NoRequest
    /\ next = 1
    /\ answer = Pending

-----------------------------------------------------------------------------
(* Start-up: UserAuth::from_config                                         *)

\* Fault-seeded variant: a method that cannot be created is left out.
EnableMethodLenient ==
    /\ boot = "booting" /\ auth_configs # NotConfigured /\ next <= Len(auth_configs)
    /\ next' = next + 1
    /\ methods' = IF Creates(auth_configs[next]) THEN Append(methods, auth_configs[next].name)
                                                 ELSE methods
    /\ UNCHANGED <<auth_configs, boot, route, request, answer>>

EnableMethod ==
    /\ boot = "booting" /\ auth_configs # NotConfigured /\ next <= Len(auth_configs)
    /\ LET c == auth_configs[next]
       IN  \/ /\ Creates(c)
              /\ methods' = Append(methods, c.name)
              /\ next' = next + 1
              /\ UNCHANGED boot
           \/ /\ ~ Creates(c)
              /\ boot' = "panicked"
              /\ UNCHANGED <<methods, next>>
    /\ UNCHANGED <<auth_configs, route, request, answer>>

Serve ==
    /\ boot = "booting"
    /\ \/ auth_configs = NotConfigured /\ methods' = <<"current_user">>
       \/ auth_configs # NotConfigured /\ next > Len(auth_configs) /\ UNCHANGED methods
    /\ boot' = "serving"
    /\ next' = 1
    /\ UNCHANGED <<auth_configs, route, request, answer>>

-----------------------------------------------------------------------------
(* One request                                                             *)

\* The path leads to the proxy (ProxyService::call) or to one of the two parts
\* of the router, each behind its own layer.
Receive(to, r) ==
    /\ boot = "serving" /\ route = "none"
    /\ to # "user" => r.remote = "none" /\ r.whoami = "error"
    /\ route' = to
    /\ request' = r
    /\ UNCHANGED <<auth_configs, boot, methods, next, answer>>

\* Fault-seeded variant: an error of a method refuses the request.
TryMethodStrict ==
    /\ route = "user" /\ answer = Pending /\ next <= Len(methods)
    /\ LET user == AuthorizeUser(methods[next], request)
       IN  \/ user = "none" /\ next' = next + 1 /\ UNCHANGED answer
           \/ user = "error" /\ answer' = Refused("401") /\ UNCHANGED next
           \/ user \notin {"none", "error"} /\ answer' = Admitted(<<user>>) /\ UNCHANGED next
    /\ UNCHANGED <<auth_configs, boot, methods, route, request>>

\* UserAuth::authorize, one turn of its loop: an error is logged only.
TryMethod ==
    /\ route = "user" /\ answer = Pending /\ next <= Len(methods)
    /\ LET user == AuthorizeUser(methods[next], request)
       IN  \/ user \in {"none", "error"} /\ next' = next + 1 /\ UNCHANGED answer
           \/ user \notin {"none", "error"} /\ answer' = Admitted(<<user>>) /\ UNCHANGED next
    /\ UNCHANGED <<auth_configs, boot, methods, route, request>>

NoUser ==
    /\ route = "user" /\ answer = Pending /\ next > Len(methods)
    /\ answer' = Refused("401")
    /\ UNCHANGED <<auth_configs, boot, methods, route, request, next>>

TokenAuthorize ==
    /\ route = "token" /\ answer = Pending
    /\ answer' = TokenBearer(request.auth)
    /\ UNCHANGED <<auth_configs, boot, methods, route, request, next>>

ProxyAuthorize ==
    /\ route = "proxy" /\ answer = Pending
    /\ answer' = ProxyBearer(request.auth)
    /\ UNCHANGED <<auth_configs, boot, methods, route, request, next>>

Requests == [auth : Headers \cup {NoHeader}, remote : {"none", "alice", NonAscii},
             whoami : {"server", "error"}]

AuthNext ==
    \/ EnableMethod \/ Serve
    \/ \E to \in {"user", "token", "proxy"}, r \in Requests : Receive(to, r)
    \/ TryMethod \/ NoUser \/ TokenAuthorize \/ ProxyAuthorize

-----------------------------------------------------------------------------
\* What the grammar of the header says its token is: Bearer, one blank, and
\* all the rest.
TokenOf(h, t) == h # NoHeader /\ ToStr(h) /\ h = <<"Bearer", Space>> \o t

\* conf/config.yaml: the methods are "applied, in order, until one succeeds
\* and provides the username".  A method that fails is no reason to refuse,
\* and nobody gets in without one that succeeds (UserAuth::authorize).
UserByFirstSuccess ==
    route = "user" /\ answer # Pending =>
        LET yields == {i \in DOMAIN methods : AuthorizeUser(methods[i], request) \notin {"none", "error"}}
        IN  \/ yields = {} /\ answer = Refused("401")
            \/ \E i \in yields : /\ \A j \in yields : i <= j
                                 /\ answer = Admitted(<<AuthorizeUser(methods[i], request)>>)

\* A subject is believed only if the header, read by its grammar, is a token
\* that this method's key accepts (JWTAuth, JWKSAuth).
SubjectNeedsToken ==
    route = "user" /\ answer # Pending /\ answer.as \in {<<"pem">>, <<"jwk">>}
        => TokenOf(request.auth, answer.as)

\* The callback routes and the proxy read the same token out of a header, and
\* the whole of it, but for an empty one, which the proxy alone refuses: two
\* readers that disagree would serve a session's callback
\* under one token and its requests under another (TokenAuth, proxy.rs
\* extract_bearer_token).
TokenReadersAgree ==
    route \in {"token", "proxy"} /\ answer # Pending =>
        /\ answer.status = "ok" => TokenOf(request.auth, answer.as)
        /\ answer.status # "ok" =>
               LET rest == SubSeq(request.auth, 3, Len(request.auth))
               IN  ~ TokenOf(request.auth, rest) \/ (route = "proxy" /\ rest = <<>>)

\* A server that serves has every method of its configuration, in that order
\* and created from usable options: nothing in it is passed over, which would
\* leave the users of that method to the next one (from_config and the
\* create() of the methods).
EnabledAsConfigured ==
    boot = "serving" /\ auth_configs # NotConfigured =>
        /\ \A i \in DOMAIN auth_configs : Creates(auth_configs[i])
        /\ methods = [i \in DOMAIN auth_configs |-> auth_configs[i].name]
=============================================================================
