--------------------------- MODULE NoPlaneTransport ---------------------------
(***************************************************************************)
(* A call of noplane.Client as it travels: the request that the generated  *)
(* client of hack/v1/api.gen.go builds, the handlers that the same file    *)
(* generates for the server, the response, what Parse...Response reads in  *)
(* it and what client.go makes of that.  The service behind the handlers   *)
(* (StrictServerInterface) and the network are external.                   *)
(*                                                                         *)
(* Status codes, the presence of a JSON content type and whether a body    *)
(* decodes are kept, since the code tells answers apart by nothing else;   *)
(* bodies are the tenants or the tenant ID they carry.                     *)
(***************************************************************************)
EXTENDS NoPlaneClient

CONSTANTS
    Keys, ValidKeys,   \* API keys, and the ones the service accepts
    ProxyCodes,        \* codes a proxy may answer with in the service's place
    UntypedCodes,      \* codes whose response may lose its content type
    MaxCalls,          \* bound: calls made
    MaxFaults          \* bound: things that go wrong

ASSUME TransportAssumption ==
    /\ Client = "http"
    /\ ValidKeys \subseteq Keys /\ Empty \notin Keys
    /\ MaxCalls \in Nat /\ MaxFaults \in Nat

Codes == {200, 201, 204, 400, 401, 403, 404, 409, 500, 502, 504}

ASSUME NetworkAssumption == ProxyCodes \subseteq Codes

VARIABLES
    tenants, issued,   \* the service
    faults,            \* things that went wrong so far
    calls,             \* calls made so far
    call,              \* the call in progress
    wire,              \* requests on their way or being served
    rsp,               \* the response to the call in progress, or NoResponse
    answer             \* what the last call returned

vars == <<tenants, issued, faults, calls, call, wire, rsp, answer>>
serviceVars == <<tenants, issued>>
-------------------------------------------------------------------------------
(***************************************************************************)
(* The client side, out.  A path is named after its template; id is the    *)
(* path parameter, which may be the empty string.  n and of, the number    *)
(* and the call a request belongs to, are not on the wire.                 *)
(***************************************************************************)
CreateTenantRequest ==
    [name : Names, uniqueId : Names, subdomain : Names, version : Versions]

NoBody == [name |-> Empty, uniqueId |-> Empty, subdomain |-> Empty,
           version |-> Empty]

NoCall == [op |-> Empty, id |-> NoID, name |-> Empty, version |-> Empty,
           key |-> Empty]

Call == [op : {"CreatePlane"}, id : {NoID}, name : Names, version : Versions,
         key : Keys]
   \cup [op : {"GetPlane", "DeletePlane", "GetKubeconfig"}, id : 0..MaxPlanes,
         name : {Empty}, version : {Empty}, key : Keys]
   \cup [op : {"GetPlaneByName"}, id : {NoID}, name : Names,
         version : {Empty}, key : Keys]

Request == [n : Nat, of : Call, method : {"GET", "POST", "DELETE"},
            path : {"tenants", "tenant", "kubeconfig"}, id : Nat,
            body : CreateTenantRequest \cup {NoBody}, auth : Keys \cup {Empty}]

Unsent(method, path, id, body) ==
    [n |-> 0, of |-> NoCall, method |-> method, path |-> path, id |-> id, body |-> body,
     auth |-> Empty]

NewGetTenantsRequest == Unsent("GET", "tenants", NoID, NoBody)
NewCreateTenantRequest(body) == Unsent("POST", "tenants", NoID, body)
NewDeleteTenantRequest(id) == Unsent("DELETE", "tenant", id, NoBody)
NewGetTenantKubeconfigRequest(id) == Unsent("GET", "kubeconfig", id, NoBody)

\* One uniqueId per name: what makes a second create of a name fail.
CreateTenantBody(c) ==
    [name |-> c.name, uniqueId |-> c.name, subdomain |-> c.name,
     version |-> c.version]

NewRequest(c) ==
    CASE c.op = "CreatePlane" -> NewCreateTenantRequest(CreateTenantBody(c))
      [] c.op = "DeletePlane" -> NewDeleteTenantRequest(c.id)
      [] c.op = "GetKubeconfig" -> NewGetTenantKubeconfigRequest(c.id)
      [] c.op \in {"GetPlane", "GetPlaneByName"} -> NewGetTenantsRequest

\* A client is made for one API key, and the only editor it applies is the
\* one that sets Authorization: Bearer <key>.
NewClient(key) == [editor |-> key]
applyEditors(client, r) == [r EXCEPT !.auth = client.editor]

\* The request that call number n, c, sends.
Sent(c, n) == [applyEditors(NewClient(c.key), NewRequest(c))
                EXCEPT !.n = n, !.of = c]

-------------------------------------------------------------------------------
(***************************************************************************)
(* The server side.  "body" of a response says whether it can be read to   *)
(* its end ("cut" if not) and decodes ("ok"); a text body never decodes.   *)
(***************************************************************************)
Response == [code : Codes, json : BOOLEAN, body : {"ok", "text", "cut"},
             tenants : SUBSET Tenant, id : Nat]

NoResponse == [code |-> 0, json |-> FALSE, body |-> "text", tenants |-> {},
               id |-> NoID]

Text(code) == [NoResponse EXCEPT !.code = code]

\* What the service's implementation returns to the handler: a response
\* object, a nil object or an error.  "undecoded" is the request body that
\* json.Decode refuses.
Result == [kind : {"object", "nil", "error", "undecoded"}, code : Codes,
           tenants : SUBSET Tenant, id : Nat]

Object(code, ts, id) ==
    [kind |-> "object", code |-> code, tenants |-> ts, id |-> id]
NotAnObject(kind) ==
    [kind |-> kind, code |-> 500, tenants |-> {}, id |-> NoID]

WriteJSON(res) == [code |-> res.code, json |-> TRUE, body |-> "ok",
                   tenants |-> res.tenants, id |-> res.id]

\* Seeded fault: the content type is set after the header is written.
VisitCreateTenantResponse_Late(res) == [WriteJSON(res) EXCEPT !.json = FALSE]

VisitGetTenantsResponse(res) == WriteJSON(res)
VisitCreateTenantResponse(res) == WriteJSON(res)
VisitDeleteTenantResponse(res) ==
    IF res.code = 204 THEN Text(204) ELSE WriteJSON(res)
VisitGetTenantKubeconfigResponse(res) == WriteJSON(res)

\* A nil object writes nothing, which net/http sends as an empty 200.
ResponseErrorHandlerFunc(res) ==
    IF res.kind = "nil" THEN Text(200) ELSE Text(500)

strictGetTenants(res) ==
    IF res.kind = "object" THEN VisitGetTenantsResponse(res)
                           ELSE ResponseErrorHandlerFunc(res)

strictCreateTenant(res) ==
    CASE res.kind = "undecoded" -> Text(400)
      [] res.kind = "object" -> VisitCreateTenantResponse(res)
      [] OTHER -> ResponseErrorHandlerFunc(res)

strictDeleteTenant(res) ==
    IF res.kind = "object" THEN VisitDeleteTenantResponse(res)
                           ELSE ResponseErrorHandlerFunc(res)

strictGetTenantKubeconfig(res) ==
    IF res.kind = "object" THEN VisitGetTenantKubeconfigResponse(res)
                           ELSE ResponseErrorHandlerFunc(res)

\* The router has no empty {tenantId} at the end of a path; in the middle of
\* one it has, and the wrapper refuses to bind it.
Routed(r) == r.path = "tenant" => r.id # NoID
Bound(r) == r.path = "kubeconfig" => r.id # NoID

ServeHTTP(r, res) ==
    CASE ~Routed(r) -> Text(404)
      [] Routed(r) /\ ~Bound(r) -> Text(400)
      [] OTHER ->
            CASE r.method = "POST" -> strictCreateTenant(res)
              [] r.method = "DELETE" -> strictDeleteTenant(res)
              [] r.method = "GET" /\ r.path = "tenants" -> strictGetTenants(res)
              [] OTHER -> strictGetTenantKubeconfig(res)

(***************************************************************************)
(* The service.  Refusals have a documented code or, as any type with a    *)
(* Visit method may, another one.                                          *)
(***************************************************************************)
Authorized(r) == r.auth \in ValidKeys

Permits(r) ==
    /\ Routed(r) /\ Bound(r) /\ Authorized(r)
    /\ CASE r.method = "POST" ->
                CreatePlaneErr(tenants, r.body.uniqueId, issued) = "nil"
         [] r.method = "DELETE" \/ r.path = "kubeconfig" -> HasID(tenants, r.id)
         [] OTHER -> TRUE

TenantsAfter(r) ==
    CASE Permits(r) /\ r.method = "POST" ->
            Created(tenants, r.body.name, r.body.version, issued)
      [] Permits(r) /\ r.method = "DELETE" -> Deleted(tenants, r.id)
      [] OTHER -> tenants

Results(r) ==
    CASE ~Authorized(r) -> {Object(c, {}, NoID) : c \in {401, 403}}
      [] Authorized(r) /\ ~Permits(r) /\ r.method = "POST" ->
            {Object(c, {}, NoID) : c \in {400, 403, 409}}
      [] Authorized(r) /\ ~Permits(r) /\ r.method # "POST" ->
            {Object(404, {}, NoID)}
      [] Permits(r) /\ r.method = "POST" ->
            {Object(201, TenantsAfter(r) \ tenants, NoID)}
      [] Permits(r) /\ r.method = "DELETE" -> {Object(204, {}, NoID)}
      [] Permits(r) /\ r.path = "kubeconfig" -> {Object(200, {}, r.id)}
      [] OTHER -> {Object(200, tenants, NoID)}

Mishaps == {Object(500, {}, NoID), NotAnObject("error"), NotAnObject("nil")}
Undecoded(r) == IF r.method = "POST" THEN {NotAnObject("undecoded")} ELSE {}

-------------------------------------------------------------------------------
(***************************************************************************)
(* The client side, in.  err is the error of Parse...Response, set tells   *)
(* whether the JSONnnn field of the status code is non-nil.                *)
(***************************************************************************)
ParseJSON(documented, r) ==
    LET decodes == r.json /\ r.code \in documented IN
    [err |-> IF r.body = "cut" \/ (decodes /\ r.body # "ok") THEN "error"
                                                          ELSE "nil",
     set |-> decodes]

ParseGetTenantsResponse(r) == ParseJSON({200, 500}, r)
ParseCreateTenantResponse(r) == ParseJSON({201, 400, 403, 500}, r)
ParseDeleteTenantResponse(r) == ParseJSON({400, 403, 404, 500}, r)
ParseGetTenantKubeconfigResponse(r) == ParseJSON({200, 400, 403, 404, 500}, r)

Ok(planes, id) == [err |-> "nil", planes |-> planes, kubeconfig |-> id]
Err == [err |-> "error", planes |-> {}, kubeconfig |-> NoID]
NilDereference == [err |-> "panic", planes |-> {}, kubeconfig |-> NoID]
Unanswered == [err |-> Empty, planes |-> {}, kubeconfig |-> NoID]

\* apiError and "unexpected status": every other code is a plain error.
CreatePlaneAnswer(r) ==
    LET p == ParseCreateTenantResponse(r) IN
    CASE p.err # "nil" -> Err
      [] p.err = "nil" /\ r.code = 201 /\ p.set ->
            Ok({tenantToPlane(t) : t \in r.tenants}, NoID)
      [] p.err = "nil" /\ r.code = 201 /\ ~p.set -> NilDereference
      [] OTHER -> Err

\* Seeded fault: any status below 300 counts as success.
DeletePlaneAnswer_2xx(r) ==
    IF ParseDeleteTenantResponse(r).err = "nil" /\ r.code < 300
    THEN Ok({}, NoID) ELSE Err

DeletePlaneAnswer(r) ==
    IF ParseDeleteTenantResponse(r).err = "nil" /\ r.code = 204
    THEN Ok({}, NoID) ELSE Err

GetKubeconfigAnswer(r) ==
    LET p == ParseGetTenantKubeconfigResponse(r) IN
    IF p.err = "nil" /\ r.code = 200 /\ p.set THEN Ok({}, r.id) ELSE Err

\* A 200 that is not JSON is an empty list; a plane not listed is an error.
listTenants(r) == IF ParseGetTenantsResponse(r).set THEN r.tenants ELSE {}

Listed(r, planes) ==
    IF ParseGetTenantsResponse(r).err = "nil" /\ r.code = 200 /\ planes # {}
    THEN Ok(planes, NoID) ELSE Err

Received(c, r) ==
    CASE c.op = "CreatePlane" -> CreatePlaneAnswer(r)
      [] c.op = "DeletePlane" -> DeletePlaneAnswer(r)
      [] c.op = "GetKubeconfig" -> GetKubeconfigAnswer(r)
      [] c.op = "GetPlane" -> Listed(r, GetPlane(listTenants(r), c.id))
      [] c.op = "GetPlaneByName" ->
            Listed(r, GetPlaneByName(listTenants(r), c.name))

-------------------------------------------------------------------------------
Init ==
    /\ tenants = {}
    /\ issued = 0
    /\ faults = 0
    /\ calls = 0
    /\ call = NoCall
    /\ wire = {}
    /\ rsp = NoResponse
    /\ answer = Unanswered

\* A method of Client, up to c.Client.Do(req).
Send ==
    /\ call = NoCall
    /\ calls < MaxCalls
    /\ call' \in Call
    /\ calls' = calls + 1
    /\ wire' = wire \cup {Sent(call', calls')}
    /\ UNCHANGED <<serviceVars, faults, rsp, answer>>

\* The first response is the one the caller reads; one to a call that has
\* been given up goes nowhere.
Respond(r, response) ==
    /\ rsp' = IF call # NoCall /\ r.n = calls /\ rsp = NoResponse
              THEN response ELSE rsp
    /\ UNCHANGED <<calls, call, answer>>

CarryOut(r) ==
    /\ tenants' = TenantsAfter(r)
    /\ issued' = IF Permits(r) /\ r.method = "POST" THEN issued + 1 ELSE issued

Serve(r) ==
    /\ wire' = wire \ {r}
    /\ CarryOut(r)
    /\ \E res \in Results(r) : Respond(r, ServeHTTP(r, res))
    /\ UNCHANGED faults

Fault ==
    /\ faults < MaxFaults
    /\ faults' = faults + 1

\* The responses that one written as JSON may arrive as instead: with a body
\* that is cut or no JSON, or without its content type.
Damaged(w) ==
    {[w EXCEPT !.body = body] : body \in {"text", "cut"}}
    \cup {[w EXCEPT !.json = FALSE] : code \in UntypedCodes \cap {w.code}}

\* The implementation fails before or after it has done the work, the request
\* body arrives damaged, or the response does.
ServeBadly(r) ==
    /\ Fault
    /\ wire' = wire \ {r}
    /\ \/ /\ CarryOut(r)
          /\ \E res \in Mishaps : Respond(r, ServeHTTP(r, res))
       \/ /\ UNCHANGED serviceVars
          /\ \E res \in Mishaps \cup Undecoded(r) : Respond(r, ServeHTTP(r, res))
       \/ /\ CarryOut(r)
          /\ \E res \in Results(r) :
                /\ ServeHTTP(r, res).json
                /\ \E w \in Damaged(ServeHTTP(r, res)) : Respond(r, w)

\* A proxy answers instead of the service, which may see the request later
\* all the same.
Intercept(r) ==
    /\ Fault
    /\ wire' \in {wire, wire \ {r}}
    /\ \E code \in ProxyCodes : Respond(r, Text(code))
    /\ UNCHANGED serviceVars

LoseRequest(r) ==
    /\ Fault
    /\ wire' = wire \ {r}
    /\ UNCHANGED <<serviceVars, calls, call, rsp, answer>>

\* Do returns a response.
Receive ==
    /\ call # NoCall
    /\ rsp # NoResponse
    /\ answer' = Received(call, rsp)
    /\ call' = NoCall
    /\ rsp' = NoResponse
    /\ UNCHANGED <<serviceVars, faults, calls, wire>>

\* Do returns an error: the connection broke or the caller went away.
GiveUp ==
    /\ call # NoCall
    /\ Fault
    /\ answer' = Err
    /\ call' = NoCall
    /\ rsp' = NoResponse
    /\ UNCHANGED <<serviceVars, calls, wire>>

Provision ==
    /\ \E t \in tenants :
        /\ ~t.hostname
        /\ tenants' = (tenants \ {t}) \cup {[t EXCEPT !.hostname = TRUE]}
    /\ UNCHANGED <<issued, faults, calls, call, wire, rsp, answer>>

Next ==
    \/ Send \/ Receive \/ GiveUp \/ Provision
    \/ \E r \in wire :
          Serve(r) \/ ServeBadly(r) \/ Intercept(r) \/ LoseRequest(r)

Spec == Init /\ [][Next]_vars

-------------------------------------------------------------------------------
\* Requests, responses and answers are what the generated types admit: no
\* nil path parameter, no status code the handlers cannot send, no answer
\* other than a plane, a kubeconfig or a plain error.
TypeOK ==
    /\ tenants \subseteq Tenant
    /\ issued \in 0..MaxPlanes
    /\ faults \in 0..MaxFaults
    /\ calls \in 0..MaxCalls
    /\ call \in Call \cup {NoCall}
    /\ wire \subseteq Request
    /\ rsp \in Response \cup {NoResponse}
    /\ answer \in [err : {"nil", "error"}, planes : SUBSET Plane,
                   kubeconfig : Nat] \cup {Unanswered}

\* CreatePlane dereferences JSON201 without a test: every 201 that reaches it
\* carries the content type that made ParseCreateTenantResponse set it.  That
\* takes a network that neither answers 201 by itself nor strips one of its
\* content type.
NoNilDereference ==
    call.op = "CreatePlane" /\ rsp # NoResponse
        => Received(call, rsp) # NilDereference

Abstract == INSTANCE NoPlaneCall
    WITH open <- {[n |-> r.n, call |-> r.of] : r \in wire},
         outcome <- IF rsp = NoResponse THEN Unanswered
                                        ELSE Received(call, rsp)

\* Built, served, answered and parsed by the generated code, a call is what
\* NoPlaneCall promises: carried out at most once, its success reported only
\* with the answer of that instant, and failing only when something failed.
ImplementsCall == Abstract!Spec
===============================================================================
