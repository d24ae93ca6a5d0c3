--------------------------- MODULE Transport_proofs ---------------------------
(***************************************************************************)
(* Proofs about NoPlaneTransport, for any set of names, versions and keys, *)
(* any bound on planes, calls and faults, and any codes that a proxy may   *)
(* answer with or that may lose their content type, except where a theorem *)
(* excludes one.                                                           *)
(*                                                                         *)
(* The argument is local to one request: what the handlers make of it and  *)
(* what the client reads in the response are computed operation by         *)
(* operation (Carried, Answered, Spoiled), and TransportInv says that the  *)
(* response the caller reads is one to its own request.                    *)
(***************************************************************************)
EXTENDS NoPlaneTransport, TLAPS

USE DEF NoID, Empty, Abstract!NoID, Abstract!Empty

(***************************************************************************)
(* Why a response can be trusted to answer the call in progress, as an     *)
(* inductive invariant: a request under way is, field by field, the one    *)
(* its call built; the one numbered as the last call is that of the call   *)
(* in progress; a response waits for a call in progress only, and a 201    *)
(* always carries JSON.                                                    *)
(***************************************************************************)
AsBuilt == \A r \in wire : r.n \in 1..calls /\ r = Sent(r.of, r.n)

LastIsCurrent ==
    call # NoCall => \A r \in wire : r.n = calls => r.of = call

ReadableResponse ==
    rsp # NoResponse => call # NoCall /\ (rsp.code = 201 => rsp.json)

TransportInv == TypeOK /\ AsBuilt /\ LastIsCurrent /\ ReadableResponse

\* What the network must not do for a 201 to be the service's own, as JSON.
CreatedIsTyped == 201 \notin ProxyCodes \cup UntypedCodes
-------------------------------------------------------------------------------
\* Request r is the one that the operation of noplane.Client called by c sends.
BuiltFor(c, r) ==
    /\ r \in Request
    /\ r.of = c /\ r.auth = c.key /\ c.key \in Keys
    /\ \/ /\ c.op = "CreatePlane"
          /\ r.method = "POST" /\ r.path = "tenants"
          /\ r.body.name = c.name /\ r.body.uniqueId = c.name
          /\ r.body.version = c.version
          /\ c.name \in Names /\ c.version \in Versions
       \/ /\ c.op = "DeletePlane"
          /\ r.method = "DELETE" /\ r.path = "tenant" /\ r.id = c.id
       \/ /\ c.op = "GetKubeconfig"
          /\ r.method = "GET" /\ r.path = "kubeconfig" /\ r.id = c.id
       \/ /\ c.op \in {"GetPlane", "GetPlaneByName"}
          /\ r.method = "GET" /\ r.path = "tenants"

\* Every operation sends such a request.
LEMMA Built ==
    ASSUME NEW c \in Call, NEW n \in Nat
    PROVE  BuiltFor(c, Sent(c, n)) /\ Sent(c, n).n = n
  <1>1. CASE c.op = "CreatePlane"
    <2>1. c \in [op : {"CreatePlane"}, id : {NoID}, name : Names,
                 version : Versions, key : Keys]
      BY <1>1 DEF Call
    <2> QED
      BY <1>1, <2>1 DEF BuiltFor, Sent, applyEditors, NewClient, NewRequest,
         NewCreateTenantRequest, CreateTenantBody, Unsent, Request,
         CreateTenantRequest
  <1>2. CASE c.op \in {"GetPlane", "DeletePlane", "GetKubeconfig"}
    <2>1. c \in [op : {"GetPlane", "DeletePlane", "GetKubeconfig"},
                 id : 0..MaxPlanes, name : {Empty}, version : {Empty},
                 key : Keys]
      BY <1>2 DEF Call
    <2>2. c.id \in Nat
      BY <2>1, MaxPlanesAssumption
    <2> QED
      BY <1>2, <2>1, <2>2 DEF BuiltFor, Sent, applyEditors, NewClient, NewRequest,
         NewGetTenantsRequest, NewDeleteTenantRequest,
         NewGetTenantKubeconfigRequest, Unsent, NoBody, Request
  <1>3. CASE c.op = "GetPlaneByName"
    <2>1. c \in [op : {"GetPlaneByName"}, id : {NoID}, name : Names,
                 version : {Empty}, key : Keys]
      BY <1>3 DEF Call
    <2> QED
      BY <1>3, <2>1 DEF BuiltFor, Sent, applyEditors, NewClient, NewRequest,
         NewGetTenantsRequest, Unsent, NoBody, Request
  <1> QED
    BY <1>1, <1>2, <1>3 DEF Call

\* A call is never NoCall.
LEMMA CallIsACall == NoCall \notin Call
  BY DEF NoCall, Call

\* The rules of NoPlaneCall are written over the same service.
LEMMA SameService ==
    /\ \A ts, n, k : Abstract!CreatePlaneErr(ts, n, k) = CreatePlaneErr(ts, n, k)
    /\ \A ts, n, v, k : Abstract!Created(ts, n, v, k) = Created(ts, n, v, k)
    /\ \A ts, id : Abstract!Deleted(ts, id) = Deleted(ts, id)
    /\ \A ts, id : Abstract!DeletePlaneErr(ts, id) = "nil" <=> HasID(ts, id)
    /\ \A ts, id : Abstract!GetKubeconfigErr(ts, id) = "nil" <=> HasID(ts, id)
    /\ \A id : Abstract!KubeconfigOf(id) = id
    /\ \A ts, id : Abstract!GetPlane(ts, id) = GetPlane(ts, id)
    /\ \A ts, n : Abstract!GetPlaneByName(ts, n) = GetPlaneByName(ts, n)
    /\ \A t : Abstract!tenantToPlane(t) = tenantToPlane(t)
  <1>1. \A ts, n, k : Abstract!CreatePlaneErr(ts, n, k) = CreatePlaneErr(ts, n, k)
    BY DEF Abstract!CreatePlaneErr, CreatePlaneErr, Abstract!HasName, HasName
  <1>2. \A ts, n, v, k : Abstract!Created(ts, n, v, k) = Created(ts, n, v, k)
    BY DEF Abstract!Created, Created, Abstract!NewID, NewID
  <1>3. \A ts, id : Abstract!Deleted(ts, id) = Deleted(ts, id)
    BY DEF Abstract!Deleted, Deleted
  <1>4. \A ts, id : Abstract!HasID(ts, id) <=> HasID(ts, id)
    BY DEF Abstract!HasID, HasID
  <1>5. \A ts, id : Abstract!DeletePlaneErr(ts, id) = "nil" <=> HasID(ts, id)
    BY <1>4 DEF Abstract!DeletePlaneErr
  <1>6. /\ \A ts, id : Abstract!GetKubeconfigErr(ts, id) = "nil" <=> HasID(ts, id)
        /\ \A id : Abstract!KubeconfigOf(id) = id
    BY <1>4, TransportAssumption DEF Abstract!GetKubeconfigErr,
       Abstract!KubeconfigOf
  <1>7. \A t : Abstract!tenantToPlane(t) = tenantToPlane(t)
    BY DEF Abstract!tenantToPlane, tenantToPlane
  <1>8. /\ \A ts, id : Abstract!GetPlane(ts, id) = GetPlane(ts, id)
        /\ \A ts, n : Abstract!GetPlaneByName(ts, n) = GetPlaneByName(ts, n)
    BY <1>7 DEF Abstract!GetPlane, GetPlane, Abstract!GetPlaneByName,
       GetPlaneByName
  <1> QED
    BY <1>1, <1>2, <1>3, <1>5, <1>6, <1>7, <1>8

\* No tenant has the empty ID.
LEMMA NoTenantWithoutID ==
    ASSUME tenants \subseteq Tenant
    PROVE  ~HasID(tenants, 0)
  <1>1. \A t \in Tenant : t.id # 0
    BY DEF Tenant, PlaneIDs
  <1> QED
    BY <1>1 DEF HasID

\* The service permits a request when NoPlaneCall grants its call, and the
\* tenants are afterwards the ones that NoPlaneCall says.
LEMMA Carried ==
    ASSUME tenants \subseteq Tenant, NEW c \in Call, NEW r, BuiltFor(c, r)
    PROVE  /\ Permits(r) <=> Abstract!Grants(c, tenants, issued)
           /\ TenantsAfter(r) = Abstract!After(c, tenants, issued)
           /\ r.method = "POST" <=> c.op = "CreatePlane"
  <1>1. r.auth = c.key
    BY DEF BuiltFor
  <1>2. CASE c.op = "CreatePlane"
    <2>1. /\ r.method = "POST" /\ r.path = "tenants"
          /\ r.body.name = c.name /\ r.body.uniqueId = c.name
          /\ r.body.version = c.version
      BY <1>2 DEF BuiltFor
    <2>2. Permits(r) <=> Abstract!Grants(c, tenants, issued)
      BY <1>1, <1>2, <2>1, SameService DEF Permits, Routed, Bound, Authorized,
         Abstract!Grants
    <2>3. TenantsAfter(r) = Abstract!After(c, tenants, issued)
      BY <1>2, <2>1, <2>2, SameService DEF TenantsAfter, Abstract!After
    <2> QED
      BY <1>2, <2>1, <2>2, <2>3
  <1>3. CASE c.op = "DeletePlane"
    <2>1. r.method = "DELETE" /\ r.path = "tenant" /\ r.id = c.id
      BY <1>3 DEF BuiltFor
    <2>2. Permits(r) <=> Abstract!Grants(c, tenants, issued)
      BY <1>1, <1>3, <2>1, SameService, NoTenantWithoutID DEF Permits, Routed,
         Bound, Authorized, Abstract!Grants
    <2>3. TenantsAfter(r) = Abstract!After(c, tenants, issued)
      BY <1>3, <2>1, <2>2, SameService DEF TenantsAfter, Abstract!After
    <2> QED
      BY <1>3, <2>1, <2>2, <2>3
  <1>4. CASE c.op = "GetKubeconfig"
    <2>1. r.method = "GET" /\ r.path = "kubeconfig" /\ r.id = c.id
      BY <1>4 DEF BuiltFor
    <2>2. Permits(r) <=> Abstract!Grants(c, tenants, issued)
      BY <1>1, <1>4, <2>1, SameService, NoTenantWithoutID DEF Permits, Routed,
         Bound, Authorized, Abstract!Grants
    <2>3. TenantsAfter(r) = Abstract!After(c, tenants, issued)
      BY <1>4, <2>1 DEF TenantsAfter, Abstract!After
    <2> QED
      BY <1>4, <2>1, <2>2, <2>3
  <1>5. CASE c.op \in {"GetPlane", "GetPlaneByName"}
    <2>1. r.method = "GET" /\ r.path = "tenants"
      BY <1>5 DEF BuiltFor
    <2>2. Permits(r) <=> Abstract!Grants(c, tenants, issued)
      BY <1>1, <1>5, <2>1 DEF Permits, Routed, Bound, Authorized,
         Abstract!Grants
    <2>3. TenantsAfter(r) = Abstract!After(c, tenants, issued)
      BY <1>5, <2>1 DEF TenantsAfter, Abstract!After
    <2> QED
      BY <1>5, <2>1, <2>2, <2>3
  <1> QED
    BY <1>2, <1>3, <1>4, <1>5 DEF BuiltFor

\* Tenants stay well formed, and so does the number of IDs issued: a create
\* beyond the last ID is refused.
LEMMA CarriedTypes ==
    ASSUME tenants \subseteq Tenant, issued \in 0..MaxPlanes,
           NEW c \in Call, NEW r, BuiltFor(c, r)
    PROVE  /\ TenantsAfter(r) \subseteq Tenant
           /\ Permits(r) /\ r.method = "POST" => issued + 1 \in 0..MaxPlanes
  <1>1. ASSUME r.method = "POST", Permits(r)
        PROVE  /\ issued + 1 \in 0..MaxPlanes
               /\ Created(tenants, r.body.name, r.body.version, issued)
                    \subseteq Tenant
    <2>1. r.body.name \in Names /\ r.body.version \in Versions
      BY <1>1 DEF BuiltFor
    <2>2. CreatePlaneErr(tenants, c.name, issued) = "nil"
      <3>1. Abstract!Grants(c, tenants, issued) /\ c.op = "CreatePlane"
        BY <1>1, Carried
      <3> QED
        BY <3>1, SameService DEF Abstract!Grants
    <2>3. ~(issued >= MaxPlanes)
      BY <2>2, TransportAssumption DEF CreatePlaneErr
    <2>4. issued + 1 \in 0..MaxPlanes
      BY <2>3, MaxPlanesAssumption
    <2>5. [id |-> issued + 1, name |-> r.body.name, version |-> r.body.version,
           hostname |-> FALSE] \in Tenant
      <3>1. issued + 1 \in PlaneIDs
        BY <2>4, MaxPlanesAssumption DEF PlaneIDs
      <3> QED
        BY <2>1, <3>1 DEF Tenant
    <2>6. Created(tenants, r.body.name, r.body.version, issued)
            = tenants \cup {[id |-> issued + 1, name |-> r.body.name,
                             version |-> r.body.version, hostname |-> FALSE]}
      <3>1. NewID(issued) = issued + 1 /\ (Client = "fake") = FALSE
        BY TransportAssumption DEF NewID
      <3> QED
        BY <3>1 DEF Created
    <2> QED
      BY <2>4, <2>5, <2>6
  <1>2. Deleted(tenants, r.id) \subseteq Tenant
    BY DEF Deleted
  <1>3. TenantsAfter(r) \subseteq Tenant
    BY <1>1, <1>2 DEF TenantsAfter
  <1> QED
    BY <1>1, <1>3
-------------------------------------------------------------------------------
\* What a response must be for the client to read an answer or an error in it.
Readable(r) == r \in Response /\ (r.code = 201 => r.json)

\* A body of JSON that decodes is set when its code is documented.
LEMMA Decoded ==
    ASSUME NEW r, NEW codes, r.json = TRUE, r.body = "ok", r.code \in codes
    PROVE  ParseJSON(codes, r).err = "nil" /\ ParseJSON(codes, r).set = TRUE
  <1>1. (r.json /\ r.code \in codes) = TRUE
    OBVIOUS
  <1>2. ParseJSON(codes, r) = [err |-> "nil", set |-> TRUE]
    BY <1>1 DEF ParseJSON
  <1> QED
    BY <1>2

\* A response without JSON is an error for every operation, unless it is the
\* 204 of a deletion or a 201.
LEMMA UntypedIsErr ==
    ASSUME NEW c \in Call, NEW t \in Response, t.json = FALSE,
           t.code \notin {201, 204}
    PROVE  Received(c, t) = Err
  <1>1. listTenants(t) = {}
    BY DEF listTenants, ParseGetTenantsResponse, ParseJSON
  <1>2. GetPlane({}, c.id) = {} /\ GetPlaneByName({}, c.name) = {}
    BY DEF GetPlane, GetPlaneByName
  <1>3. CreatePlaneAnswer(t) = Err
    BY DEF CreatePlaneAnswer
  <1>4. DeletePlaneAnswer(t) = Err /\ Listed(t, {}) = Err
    BY DEF DeletePlaneAnswer, Listed
  <1>5. GetKubeconfigAnswer(t) = Err
    <2>1. ParseGetTenantKubeconfigResponse(t).set = FALSE
      BY DEF ParseGetTenantKubeconfigResponse, ParseJSON
    <2> QED
      BY <2>1 DEF GetKubeconfigAnswer
  <1> QED
    BY <1>1, <1>2, <1>3, <1>4, <1>5 DEF Received, Call

\* In particular a text is, and whatever reads it finds no 201 in it.
LEMMA TextIsErr ==
    ASSUME NEW c \in Call, NEW code \in Codes, code # 201
    PROVE  /\ Readable(Text(code))
           /\ code # 204 => Received(c, Text(code)) = Err
  <1> DEFINE t == Text(code)
  <1>1. t.code = code /\ t.json = FALSE /\ t \in Response
    BY DEF Text, NoResponse, Response
  <1> HIDE DEF t
  <1>2. code # 204 => Received(c, t) = Err
    BY <1>1, UntypedIsErr
  <1> QED
    BY <1>1, <1>2 DEF Readable, t

\* A JSON response with a code other than that of success is an error, and so
\* is one with a damaged body, whatever its code.
LEMMA RefusalIsErr ==
    ASSUME NEW c \in Call, NEW r \in Response, r.json,
           \/ r.code \notin {200, 201, 204}
           \/ r.body # "ok" /\ r.code = (IF c.op = "CreatePlane" THEN 201 ELSE 200)
    PROVE  Received(c, r) = Err
  <1>1. CreatePlaneAnswer(r) = Err \/ c.op # "CreatePlane"
    BY DEF CreatePlaneAnswer, ParseCreateTenantResponse, ParseJSON
  <1>2. DeletePlaneAnswer(r) = Err \/ c.op # "DeletePlane"
    BY DEF DeletePlaneAnswer
  <1>3. GetKubeconfigAnswer(r) = Err \/ c.op # "GetKubeconfig"
    BY DEF GetKubeconfigAnswer, ParseGetTenantKubeconfigResponse, ParseJSON
  <1>4. ASSUME NEW ps, c.op \in {"GetPlane", "GetPlaneByName"}
        PROVE  Listed(r, ps) = Err
    BY <1>4 DEF Listed, ParseGetTenantsResponse, ParseJSON
  <1> QED
    BY <1>1, <1>2, <1>3, <1>4 DEF Received, Call

\* An object is written as JSON by every handler, but for the 204 of a
\* deletion; a request that is not routed or bound never gets that far.
LEMMA ObjectWritten ==
    ASSUME NEW c \in Call, NEW r, BuiltFor(c, r), NEW res,
           res.kind = "object", res.code # 204
    PROVE  /\ ServeHTTP(r, res) \in {Text(404), Text(400), WriteJSON(res)}
           /\ Routed(r) /\ Bound(r) => ServeHTTP(r, res) = WriteJSON(res)
  BY DEF ServeHTTP, strictCreateTenant, strictDeleteTenant, strictGetTenants,
     strictGetTenantKubeconfig, VisitGetTenantsResponse,
     VisitCreateTenantResponse, VisitDeleteTenantResponse,
     VisitGetTenantKubeconfigResponse

\* A response with another body.
LEMMA Rewritten ==
    ASSUME NEW w \in Response, NEW b \in {"text", "cut"}
    PROVE  /\ [w EXCEPT !.body = b] \in Response
           /\ [w EXCEPT !.body = b].code = w.code
           /\ [w EXCEPT !.body = b].json = w.json
           /\ [w EXCEPT !.body = b].body = b
  BY DEF Response

\* A response without its content type.
LEMMA Stripped ==
    ASSUME NEW w \in Response
    PROVE  /\ [w EXCEPT !.json = FALSE] \in Response
           /\ [w EXCEPT !.json = FALSE].code = w.code
           /\ [w EXCEPT !.json = FALSE].json = FALSE
  BY DEF Response

\* What a response written as JSON turns into when it is damaged is an error.
DamageIsErr(c, w) ==
    w.json => \A d \in Damaged(w) : Readable(d) /\ Received(c, d) = Err

\* A response to call c that a handler writes as JSON: a refusal, or the
\* success of its operation.  If that is 201, it keeps its content type.
JSONFor(c, w) ==
    /\ w \in Response /\ w.json = TRUE
    /\ \/ w.code \notin {200, 201, 204}
       \/ w.code = 200 /\ c.op # "CreatePlane"
       \/ w.code = 201 /\ c.op = "CreatePlane" /\ 201 \notin UntypedCodes

LEMMA DamageRead ==
    ASSUME NEW c \in Call, NEW w, JSONFor(c, w)
    PROVE  DamageIsErr(c, w)
  <1>1. w \in Response /\ w.json = TRUE
    BY DEF JSONFor
  <1>2. ASSUME NEW b \in {"text", "cut"}
        PROVE  /\ Readable([w EXCEPT !.body = b])
               /\ Received(c, [w EXCEPT !.body = b]) = Err
    <2> DEFINE d == [w EXCEPT !.body = b]
    <2>1. d \in Response /\ d.code = w.code /\ d.json = TRUE /\ d.body = b
      BY <1>1, Rewritten
    <2> HIDE DEF d
    <2>2. \/ d.code \notin {200, 201, 204}
          \/ d.body # "ok" /\ d.code = (IF c.op = "CreatePlane" THEN 201 ELSE 200)
      BY <2>1 DEF JSONFor
    <2>3. Received(c, d) = Err
      BY <2>1, <2>2, RefusalIsErr
    <2> QED
      BY <2>1, <2>3 DEF Readable, d
  <1>3. ASSUME w.code \in UntypedCodes
        PROVE  /\ Readable([w EXCEPT !.json = FALSE])
               /\ Received(c, [w EXCEPT !.json = FALSE]) = Err
    <2> DEFINE d == [w EXCEPT !.json = FALSE]
    <2>1. d \in Response /\ d.code = w.code /\ d.json = FALSE
      BY <1>1, Stripped
    <2> HIDE DEF d
    <2>2. d.code \notin {201, 204}
      BY <1>3, <2>1 DEF JSONFor
    <2>3. Received(c, d) = Err
      BY <2>1, <2>2, UntypedIsErr
    <2> QED
      BY <2>1, <2>2, <2>3 DEF Readable, d
  <1>4. \A d \in Damaged(w) :
            \/ \E b \in {"text", "cut"} : d = [w EXCEPT !.body = b]
            \/ w.code \in UntypedCodes /\ d = [w EXCEPT !.json = FALSE]
    BY DEF Damaged
  <1> QED
    BY <1>2, <1>3, <1>4 DEF DamageIsErr

\* The service's answer to a request that it does not permit.
Refusal(res) ==
    \E code \in {400, 401, 403, 404, 409} : res = Object(code, {}, 0)

LEMMA RefusalRead ==
    ASSUME NEW c \in Call, NEW r, BuiltFor(c, r), NEW res, Refusal(res)
    PROVE  /\ Readable(ServeHTTP(r, res))
           /\ Received(c, ServeHTTP(r, res)) = Err
           /\ DamageIsErr(c, ServeHTTP(r, res))
  <1>1. PICK code \in {400, 401, 403, 404, 409} : res = Object(code, {}, 0)
    BY DEF Refusal
  <1>2. /\ res.kind = "object" /\ res.code = code /\ res.tenants = {}
        /\ res.id = 0 /\ code \in Codes /\ code \notin {200, 201, 204}
    BY <1>1 DEF Object, Codes
  <1>3. ServeHTTP(r, res) \in {Text(404), Text(400), WriteJSON(res)}
    BY <1>2, ObjectWritten
  <1>4. ASSUME NEW k \in {404, 400}
        PROVE  /\ Readable(Text(k)) /\ Received(c, Text(k)) = Err
               /\ DamageIsErr(c, Text(k))
    <2>1. k \in Codes /\ k # 201 /\ k # 204
      BY DEF Codes
    <2>2. ~Text(k).json
      BY DEF Text, NoResponse
    <2> QED
      BY <2>1, <2>2, TextIsErr DEF DamageIsErr
  <1> DEFINE w == WriteJSON(res)
  <1>5. w \in Response /\ w.json = TRUE /\ w.code = code
    BY <1>2 DEF WriteJSON, Response
  <1> HIDE DEF w
  <1>6. Readable(w) /\ Received(c, w) = Err
    BY <1>2, <1>5, RefusalIsErr DEF Readable
  <1>7. DamageIsErr(c, w)
    <2>1. JSONFor(c, w)
      BY <1>2, <1>5 DEF JSONFor
    <2> QED
      BY <2>1, DamageRead
  <1> QED
    BY <1>3, <1>4, <1>6, <1>7 DEF w

\* The service's answer to a request that it permits, as the client reads it:
\* the answer of NoPlaneCall, or an error when the JSON is damaged.
LEMMA SuccessRead ==
    ASSUME CreatedIsTyped, tenants \subseteq Tenant, issued \in 0..MaxPlanes,
           NEW c \in Call, NEW r, BuiltFor(c, r), Permits(r),
           NEW res \in Results(r)
    PROVE  /\ Readable(ServeHTTP(r, res))
           /\ Received(c, ServeHTTP(r, res)) = Abstract!Answer(c, tenants, issued)
           /\ DamageIsErr(c, ServeHTTP(r, res))
  <1> DEFINE w == ServeHTTP(r, res)
             Written(code, ts, id) ==
                /\ w.code = code /\ w.json = TRUE /\ w.body = "ok"
                /\ w.tenants = ts /\ w.id = id
                /\ Readable(w) /\ DamageIsErr(c, w)
  <1>1. Routed(r) /\ Bound(r) /\ Authorized(r)
    BY DEF Permits
  <1>2. Abstract!Grants(c, tenants, issued)
    BY Carried
  <1>3. ASSUME NEW code \in Codes, NEW ts \in SUBSET Tenant, NEW id \in Nat,
               res = Object(code, ts, id), code # 204,
               code = IF c.op = "CreatePlane" THEN 201 ELSE 200
        PROVE  Written(code, ts, id)
    <2>1. /\ res.kind = "object" /\ res.code = code /\ res.tenants = ts
          /\ res.id = id
      BY <1>3 DEF Object
    <2>2. w = WriteJSON(res)
      BY <1>1, <1>3, <2>1, ObjectWritten
    <2> HIDE DEF w
    <2>3. /\ w.code = code /\ w.json = TRUE /\ w.body = "ok" /\ w.tenants = ts
          /\ w.id = id /\ w \in Response
      BY <2>1, <2>2 DEF WriteJSON, Response
    <2>4. JSONFor(c, w)
      BY <1>3, <2>3 DEF JSONFor, CreatedIsTyped
    <2>5. DamageIsErr(c, w)
      BY <2>4, DamageRead
    <2>6. Readable(w)
      BY <2>3 DEF Readable
    <2> QED
      BY <2>3, <2>5, <2>6
  <1> HIDE DEF w
  <1>4. CASE c.op = "CreatePlane"
    <2> DEFINE new == TenantsAfter(r) \ tenants
    <2>1. r.method = "POST" /\ r.path = "tenants"
      BY <1>4 DEF BuiltFor
    <2>2. Results(r) = {Object(201, new, 0)}
      BY <1>1, <2>1 DEF Results
    <2>3. new \in SUBSET Tenant
      BY CarriedTypes
    <2>4. new = Abstract!After(c, tenants, issued) \ tenants
      BY Carried
    <2> HIDE DEF new
    <2>5. Written(201, new, 0)
      <3>1. 201 \in Codes
        BY DEF Codes
      <3> HIDE DEF Written
      <3> QED
        BY <1>3, <1>4, <2>2, <2>3, <3>1
    <2>6. Received(c, w) = Ok({tenantToPlane(t) : t \in new}, 0)
      <3>1. /\ ParseCreateTenantResponse(w).err = "nil"
            /\ ParseCreateTenantResponse(w).set = TRUE
        <4>1. w.code = 201 /\ w.json = TRUE /\ w.body = "ok"
          BY <2>5
        <4> DEFINE codes == {201, 400, 403, 500}
        <4>2. w.code \in codes
          BY <4>1
        <4> HIDE DEF Written, codes
        <4>3. ParseJSON(codes, w).err = "nil" /\ ParseJSON(codes, w).set = TRUE
          BY <4>1, <4>2, Decoded
        <4> QED
          BY <4>3 DEF ParseCreateTenantResponse, codes
      <3>2. CreatePlaneAnswer(w) = Ok({tenantToPlane(t) : t \in new}, 0)
        BY <2>5, <3>1 DEF CreatePlaneAnswer
      <3> QED
        BY <1>4, <3>2 DEF Received
    <2>7. Abstract!Answer(c, tenants, issued)
            = Abstract!Success({Abstract!tenantToPlane(t) : t \in new}, 0)
      BY <1>2, <1>4, <2>4 DEF Abstract!Answer
    <2>8. {Abstract!tenantToPlane(t) : t \in new} = {tenantToPlane(t) : t \in new}
      BY SameService
    <2> QED
      BY <2>5, <2>6, <2>7, <2>8 DEF Ok, Abstract!Success, w
  <1>5. CASE c.op = "DeletePlane"
    <2>1. r.method = "DELETE" /\ r.path = "tenant"
      BY <1>5 DEF BuiltFor
    <2>2. Results(r) = {Object(204, {}, 0)}
      BY <1>1, <2>1 DEF Results
    <2>3. w = Text(204)
      <3>1. res.kind = "object" /\ res.code = 204
        BY <2>2 DEF Object
      <3> QED
        BY <1>1, <2>1, <3>1 DEF ServeHTTP, strictDeleteTenant,
         VisitDeleteTenantResponse, w
    <2>4. /\ w.code = 204 /\ w.json = FALSE /\ w.body = "text"
          /\ w \in Response
      <3>1. 204 \in Codes
        BY DEF Codes
      <3> QED
        BY <2>3, <3>1 DEF Text, NoResponse, Response
    <2>5. Received(c, w) = Ok({}, 0)
      <3>1. ParseDeleteTenantResponse(w).err = "nil"
        BY <2>4 DEF ParseDeleteTenantResponse, ParseJSON
      <3>2. DeletePlaneAnswer(w) = Ok({}, 0)
        BY <2>4, <3>1 DEF DeletePlaneAnswer
      <3> QED
        BY <1>5, <3>2 DEF Received
    <2>6. Abstract!Answer(c, tenants, issued) = Abstract!Success({}, 0)
      BY <1>2, <1>5 DEF Abstract!Answer
    <2> QED
      BY <2>4, <2>5, <2>6 DEF Readable, DamageIsErr, Abstract!Success, Ok, w
  <1>6. CASE c.op = "GetKubeconfig"
    <2>1. r.method = "GET" /\ r.path = "kubeconfig" /\ r.id = c.id /\ r.id \in Nat
      BY <1>6 DEF BuiltFor, Request
    <2>2. Results(r) = {Object(200, {}, r.id)}
      BY <1>1, <2>1 DEF Results
    <2>3. Written(200, {}, r.id)
      <3>1. 200 \in Codes
        BY DEF Codes
      <3> HIDE DEF Written
      <3> QED
        BY <1>3, <1>6, <2>1, <2>2, <3>1
    <2>4. Received(c, w) = Ok({}, c.id)
      <3>1. /\ ParseGetTenantKubeconfigResponse(w).err = "nil"
            /\ ParseGetTenantKubeconfigResponse(w).set = TRUE
        <4>1. w.code = 200 /\ w.json = TRUE /\ w.body = "ok"
          BY <2>3
        <4> DEFINE codes == {200, 400, 403, 404, 500}
        <4>2. w.code \in codes
          BY <4>1
        <4> HIDE DEF Written, codes
        <4>3. ParseJSON(codes, w).err = "nil" /\ ParseJSON(codes, w).set = TRUE
          BY <4>1, <4>2, Decoded
        <4> QED
          BY <4>3 DEF ParseGetTenantKubeconfigResponse, codes
      <3>2. GetKubeconfigAnswer(w) = Ok({}, c.id)
        BY <2>1, <2>3, <3>1 DEF GetKubeconfigAnswer
      <3> QED
        BY <1>6, <3>2 DEF Received
    <2>5. Abstract!Answer(c, tenants, issued) = Abstract!Success({}, c.id)
      BY <1>2, <1>6, SameService DEF Abstract!Answer
    <2> QED
      BY <2>3, <2>4, <2>5 DEF Abstract!Success, Ok, w
  <1>7. CASE c.op \in {"GetPlane", "GetPlaneByName"}
    <2>1. r.method = "GET" /\ r.path = "tenants"
      BY <1>7 DEF BuiltFor
    <2>2. Results(r) = {Object(200, tenants, 0)}
      BY <1>1, <2>1 DEF Results
    <2>3. Written(200, tenants, 0)
      <3>1. 200 \in Codes
        BY DEF Codes
      <3> HIDE DEF Written
      <3> QED
        BY <1>3, <1>7, <2>2, <3>1
    <2>4. listTenants(w) = tenants
      BY <2>3 DEF listTenants, ParseGetTenantsResponse, ParseJSON
    <2>5. ASSUME NEW ps
          PROVE  Listed(w, ps) = Abstract!Found(ps)
      <3>1. ParseGetTenantsResponse(w).err = "nil"
        BY <2>3 DEF ParseGetTenantsResponse, ParseJSON
      <3> QED
        BY <2>3, <3>1 DEF Listed, Abstract!Found, Abstract!Success,
           Abstract!Failed, Ok, Err
    <2>6. Received(c, w) = Abstract!Answer(c, tenants, issued)
      BY <1>2, <1>7, <2>4, <2>5, SameService DEF Received, Abstract!Answer
    <2> QED
      BY <2>3, <2>6 DEF w
  <1> QED
    BY <1>4, <1>5, <1>6, <1>7 DEF BuiltFor

\* Permitted or not, a request that is served is answered as NoPlaneCall says.
LEMMA Served ==
    ASSUME CreatedIsTyped, tenants \subseteq Tenant, issued \in 0..MaxPlanes,
           NEW c \in Call, NEW r, BuiltFor(c, r), NEW res \in Results(r)
    PROVE  /\ Readable(ServeHTTP(r, res))
           /\ Received(c, ServeHTTP(r, res)) = Abstract!Answer(c, tenants, issued)
           /\ DamageIsErr(c, ServeHTTP(r, res))
  <1>1. CASE Permits(r)
    BY <1>1, SuccessRead
  <1>2. CASE ~Permits(r)
    <2>1. \/ res \in {Object(k, {}, NoID) : k \in {401, 403}}
          \/ res \in {Object(k, {}, NoID) : k \in {400, 403, 409}}
          \/ res \in {Object(404, {}, NoID)}
      BY <1>2 DEF Results
    <2>2. Refusal(res)
      BY <2>1 DEF Refusal
    <2>3. Abstract!Answer(c, tenants, issued) = Abstract!Failed
      <3>1. ~Abstract!Grants(c, tenants, issued)
        BY <1>2, Carried
      <3> QED
        BY <3>1 DEF Abstract!Answer
    <2> QED
      BY <2>2, <2>3, RefusalRead DEF Abstract!Failed, Err
  <1> QED
    BY <1>1, <1>2

\* An implementation that fails, returns nothing or never sees the body gives
\* the client an error.
LEMMA MishapRead ==
    ASSUME NEW c \in Call, NEW r, BuiltFor(c, r),
           NEW res \in Mishaps \cup Undecoded(r)
    PROVE  /\ Readable(ServeHTTP(r, res))
           /\ Received(c, ServeHTTP(r, res)) = Err
  <1>1. ASSUME NEW k \in {400, 404, 500, 200}
        PROVE  Readable(Text(k)) /\ Received(c, Text(k)) = Err
    <2>1. k \in Codes /\ k # 201 /\ k # 204
      BY DEF Codes
    <2> QED
      BY <2>1, TextIsErr
  <1>2. CASE res = Object(500, {}, NoID)
    <2>1. res.kind = "object" /\ res.code = 500 /\ res.tenants = {} /\ res.id = 0
      BY <1>2 DEF Object
    <2>2. ServeHTTP(r, res) \in {Text(404), Text(400), WriteJSON(res)}
      BY <2>1, ObjectWritten
    <2> DEFINE w == WriteJSON(res)
    <2>3. w \in Response /\ w.json = TRUE /\ w.code = 500
      BY <2>1 DEF WriteJSON, Response, Codes
    <2> HIDE DEF w
    <2>4. Readable(w) /\ Received(c, w) = Err
      BY <2>3, RefusalIsErr DEF Readable
    <2> QED
      BY <1>1, <2>2, <2>4 DEF w
  <1>3. CASE res.kind \in {"error", "nil"}
    <2>1. ServeHTTP(r, res) \in {Text(404), Text(400), Text(200), Text(500)}
      BY <1>3 DEF ServeHTTP, strictCreateTenant, strictDeleteTenant,
         strictGetTenants, strictGetTenantKubeconfig, ResponseErrorHandlerFunc
    <2> QED
      BY <1>1, <2>1
  <1>4. CASE r.method = "POST" /\ res.kind = "undecoded"
    <2>1. ServeHTTP(r, res) \in {Text(404), Text(400)}
      BY <1>4 DEF ServeHTTP, strictCreateTenant
    <2> QED
      BY <1>1, <2>1
  <1>5. \/ res = Object(500, {}, NoID)
        \/ res.kind \in {"error", "nil"}
        \/ r.method = "POST" /\ res.kind = "undecoded"
    BY DEF Mishaps, Undecoded, NotAnObject
  <1> QED
    BY <1>2, <1>3, <1>4, <1>5
-------------------------------------------------------------------------------
(***************************************************************************)
(* One step.  Outcome is what the mapping gives to outcome, Open what it   *)
(* gives to open.                                                          *)
(***************************************************************************)
Outcome == IF rsp = NoResponse THEN Unanswered ELSE Received(call, rsp)
Entry(r) == [n |-> r.n, call |-> r.of]
Open == {Entry(r) : r \in wire}

\* What is known of a request under way.
LEMMA UnderWay ==
    ASSUME TransportInv, NEW r \in wire
    PROVE  /\ r.of \in Call /\ r.n \in Nat /\ r = Sent(r.of, r.n)
           /\ BuiltFor(r.of, r)
           /\ call # NoCall /\ r.n = calls => r.of = call
  <1>1. r \in Request
    BY DEF TransportInv, TypeOK
  <1>2. r.of \in Call /\ r.n \in Nat
    BY <1>1 DEF Request
  <1>3. r = Sent(r.of, r.n)
    BY DEF TransportInv, AsBuilt
  <1>4. BuiltFor(r.of, r)
    BY <1>2, <1>3, Built
  <1> QED
    BY <1>2, <1>3, <1>4 DEF TransportInv, LastIsCurrent

\* Two requests under way never map to one: removing one of them from the
\* wire removes its entry from what is open, and that one only.
LEMMA OpenWithout ==
    ASSUME TransportInv, NEW r \in wire
    PROVE  /\ Entry(r) \in Open
           /\ wire' = wire \ {r} => Open' = Open \ {Entry(r)}
           /\ wire' = wire => Open' = Open
  <1>1. \A s \in wire : Entry(s) = Entry(r) => s = r
    <2>1. \A s : Entry(s).n = s.n /\ Entry(s).call = s.of
      BY DEF Entry
    <2>2. ASSUME NEW s \in wire, Entry(s) = Entry(r) PROVE s = r
      <3>1. s.n = r.n /\ s.of = r.of
        BY <2>1, <2>2
      <3> QED
        BY <3>1, UnderWay
    <2> QED
      BY <2>2
  <1>2. ASSUME wire' = wire \ {r} PROVE Open' = Open \ {Entry(r)}
    <2>1. Open' = {Entry(s) : s \in wire \ {r}}
      BY <1>2 DEF Open
    <2> QED
      BY <1>1, <2>1 DEF Open
  <1> QED
    BY <1>2 DEF Open

\* The planes of well-formed tenants are well formed.
LEMMA PlanesOf ==
    ASSUME NEW ts \in SUBSET Tenant
    PROVE  {tenantToPlane(t) : t \in ts} \in SUBSET Plane
  <1>1. ASSUME NEW t \in Tenant PROVE tenantToPlane(t) \in Plane
    BY DEF Tenant, PlaneIDs, tenantToPlane, Plane, Hosts
  <1> QED
    BY <1>1

\* A response that can be read gives the caller an answer or a plain error.
LEMMA ReceivedType ==
    ASSUME NEW c \in Call, NEW w, Readable(w)
    PROVE  /\ Received(c, w) \in [err : {"nil", "error"}, planes : SUBSET Plane,
                                  kubeconfig : Nat]
           /\ Received(c, w) \notin {NilDereference, Unanswered}
           /\ w # NoResponse
  <1> DEFINE Ans == [err : {"nil", "error"}, planes : SUBSET Plane,
                     kubeconfig : Nat]
  <1>1. /\ w \in Response /\ w.tenants \in SUBSET Tenant /\ w.id \in Nat
        /\ w.code \in Codes /\ (w.code = 201 => w.json = TRUE)
    BY DEF Readable, Response
  <1>2. Err \in Ans
    BY DEF Err
  <1>3. \A ps \in SUBSET Plane, id \in Nat : Ok(ps, id) \in Ans
    BY DEF Ok
  <1>4. listTenants(w) \in SUBSET Tenant
    BY <1>1 DEF listTenants
  <1>5. /\ GetPlane(listTenants(w), c.id) \in SUBSET Plane
        /\ GetPlaneByName(listTenants(w), c.name) \in SUBSET Plane
    BY <1>4, PlanesOf DEF GetPlane, GetPlaneByName
  <1>6. {tenantToPlane(t) : t \in w.tenants} \in SUBSET Plane
    BY <1>1, PlanesOf
  <1>7. CreatePlaneAnswer(w) \in
            {Err, Ok({tenantToPlane(t) : t \in w.tenants}, 0)}
    <2>1. w.code = 201 => ParseCreateTenantResponse(w).set = TRUE
      BY <1>1 DEF ParseCreateTenantResponse, ParseJSON
    <2> QED
      BY <2>1 DEF CreatePlaneAnswer
  <1>8. /\ DeletePlaneAnswer(w) \in {Err, Ok({}, 0)}
        /\ GetKubeconfigAnswer(w) \in {Err, Ok({}, w.id)}
        /\ \A ps : Listed(w, ps) \in {Err, Ok(ps, 0)}
    BY DEF DeletePlaneAnswer, GetKubeconfigAnswer, Listed
  <1>9. /\ CreatePlaneAnswer(w) \in Ans /\ DeletePlaneAnswer(w) \in Ans
        /\ GetKubeconfigAnswer(w) \in Ans
        /\ \A ps \in SUBSET Plane : Listed(w, ps) \in Ans
    <2> HIDE DEF Ans
    <2>1. CreatePlaneAnswer(w) \in Ans
      BY <1>2, <1>3, <1>6, <1>7
    <2>2. DeletePlaneAnswer(w) \in Ans /\ GetKubeconfigAnswer(w) \in Ans
      BY <1>1, <1>2, <1>3, <1>8
    <2>3. \A ps \in SUBSET Plane : Listed(w, ps) \in Ans
      BY <1>2, <1>3, <1>8
    <2> QED
      BY <2>1, <2>2, <2>3
  <1>10. Received(c, w) \in Ans
    <2> HIDE DEF Ans
    <2> QED
      BY <1>5, <1>9 DEF Received, Call
  <1>11. \A a \in Ans : a \notin {NilDereference, Unanswered}
    BY DEF NilDereference, Unanswered
  <1>12. w # NoResponse
    BY <1>1 DEF NoResponse, Codes
  <1> QED
    BY <1>10, <1>11, <1>12

\* Nothing has been received exactly when no response has arrived.
LEMMA OutcomeIs ==
    ASSUME TransportInv
    PROVE  /\ Outcome = Unanswered <=> rsp = NoResponse
           /\ rsp # NoResponse => call \in Call /\ Readable(rsp)
                                    /\ Outcome = Received(call, rsp)
  <1>1. rsp # NoResponse => call \in Call /\ Readable(rsp)
    BY DEF TransportInv, TypeOK, ReadableResponse, Readable
  <1> QED
    BY <1>1, ReceivedType DEF Outcome

\* A response that arrives is what the call in progress waits for, or changes
\* nothing.
LEMMA Responds ==
    ASSUME TransportInv, NEW r \in wire, NEW w, Readable(w), Respond(r, w)
    PROVE  /\ rsp' \in Response \cup {NoResponse}
           /\ ReadableResponse'
           /\ UNCHANGED <<calls, call, answer>>
           /\ Outcome' = IF call # NoCall /\ r.n = calls /\ Outcome = Unanswered
                         THEN Received(r.of, w) ELSE Outcome
  <1>1. UNCHANGED <<calls, call, answer>>
    BY DEF Respond
  <1>2. CASE call # NoCall /\ r.n = calls /\ rsp = NoResponse
    <2>1. rsp' = w
      BY <1>2 DEF Respond
    <2>2. r.of = call /\ r.of \in Call
      BY <1>2, UnderWay
    <2>3. w # NoResponse /\ w \in Response
      BY <2>2, ReceivedType DEF Readable
    <2>4. Outcome' = Received(r.of, w)
      BY <1>1, <2>1, <2>2, <2>3 DEF Outcome
    <2> QED
      BY <1>1, <1>2, <2>1, <2>3, <2>4, OutcomeIs DEF ReadableResponse, Readable
  <1>3. CASE ~(call # NoCall /\ r.n = calls /\ rsp = NoResponse)
    <2>1. rsp' = rsp
      BY <1>3 DEF Respond
    <2>2. Outcome' = Outcome
      BY <1>1, <2>1 DEF Outcome
    <2>3. ReadableResponse'
      BY <1>1, <2>1 DEF ReadableResponse, TransportInv
    <2> QED
      BY <1>1, <1>3, <2>1, <2>2, <2>3, OutcomeIs DEF TransportInv, TypeOK
  <1> QED
    BY <1>2, <1>3

\* A step of the service or of the network keeps the invariant.
LEMMA Kept ==
    ASSUME TransportInv, UNCHANGED <<calls, call, answer>>, wire' \subseteq wire,
           (tenants \subseteq Tenant)', (issued \in 0..MaxPlanes)',
           (faults \in 0..MaxFaults)', (rsp \in Response \cup {NoResponse})',
           ReadableResponse'
    PROVE  TransportInv'
  <1>1. TypeOK'
    BY DEF TransportInv, TypeOK
  <1>2. AsBuilt' /\ LastIsCurrent'
    BY DEF TransportInv, AsBuilt, LastIsCurrent
  <1> QED
    BY <1>1, <1>2 DEF TransportInv

\* A request carried out leaves the service as NoPlaneCall says.
LEMMA CarriesOut ==
    ASSUME TransportInv, NEW r \in wire, CarryOut(r)
    PROVE  /\ (tenants \subseteq Tenant)' /\ (issued \in 0..MaxPlanes)'
           /\ tenants' = Abstract!After(r.of, tenants, issued)
           /\ issued' = Abstract!IssuedAfter(r.of, tenants, issued)
  <1>1. r.of \in Call /\ BuiltFor(r.of, r)
    BY UnderWay
  <1>2. tenants \subseteq Tenant /\ issued \in 0..MaxPlanes
    BY DEF TransportInv, TypeOK
  <1>3. /\ tenants' = TenantsAfter(r)
        /\ issued' = IF Permits(r) /\ r.method = "POST" THEN issued + 1
                                                       ELSE issued
    BY DEF CarryOut
  <1>4. /\ TenantsAfter(r) \subseteq Tenant
        /\ Permits(r) /\ r.method = "POST" => issued + 1 \in 0..MaxPlanes
    BY <1>1, <1>2, CarriedTypes
  <1>5. /\ Permits(r) <=> Abstract!Grants(r.of, tenants, issued)
        /\ TenantsAfter(r) = Abstract!After(r.of, tenants, issued)
        /\ r.method = "POST" <=> r.of.op = "CreatePlane"
    BY <1>1, <1>2, Carried
  <1>6. issued' = Abstract!IssuedAfter(r.of, tenants, issued)
    BY <1>3, <1>5 DEF Abstract!IssuedAfter
  <1> QED
    BY <1>2, <1>3, <1>4, <1>5, <1>6

\* A request served: the service, what is open and what the caller reads.
LEMMA ServeStep ==
    ASSUME CreatedIsTyped, TransportInv, NEW r \in wire, Serve(r)
    PROVE  /\ TransportInv'
           /\ tenants' = Abstract!After(r.of, tenants, issued)
           /\ issued' = Abstract!IssuedAfter(r.of, tenants, issued)
           /\ Open' = Open \ {Entry(r)}
           /\ Outcome' = IF call # NoCall /\ r.n = calls /\ Outcome = Unanswered
                         THEN Abstract!Answer(r.of, tenants, issued) ELSE Outcome
           /\ UNCHANGED <<faults, calls, call, answer>>
  <1>1. PICK res \in Results(r) : Respond(r, ServeHTTP(r, res))
    BY DEF Serve
  <1>2. /\ wire' = wire \ {r} /\ CarryOut(r) /\ UNCHANGED faults
    BY DEF Serve
  <1>3. r.of \in Call /\ BuiltFor(r.of, r)
    BY UnderWay
  <1>4. /\ tenants \subseteq Tenant /\ issued \in 0..MaxPlanes
        /\ faults \in 0..MaxFaults
    BY DEF TransportInv, TypeOK
  <1>5. /\ Readable(ServeHTTP(r, res))
        /\ Received(r.of, ServeHTTP(r, res))
             = Abstract!Answer(r.of, tenants, issued)
    BY <1>3, <1>4, Served
  <1>6. /\ rsp' \in Response \cup {NoResponse} /\ ReadableResponse'
        /\ UNCHANGED <<calls, call, answer>>
        /\ Outcome' = IF call # NoCall /\ r.n = calls /\ Outcome = Unanswered
                      THEN Received(r.of, ServeHTTP(r, res)) ELSE Outcome
    BY <1>1, <1>5, Responds
  <1>7. /\ (tenants \subseteq Tenant)' /\ (issued \in 0..MaxPlanes)'
        /\ tenants' = Abstract!After(r.of, tenants, issued)
        /\ issued' = Abstract!IssuedAfter(r.of, tenants, issued)
    BY <1>2, CarriesOut
  <1>8. TransportInv'
    BY <1>2, <1>4, <1>6, <1>7, Kept
  <1>9. Open' = Open \ {Entry(r)}
    BY <1>2, OpenWithout
  <1> QED
    BY <1>2, <1>5, <1>6, <1>7, <1>8, <1>9

\* Whatever goes wrong with a request, it has been carried out whole or not at
\* all, and the caller reads an error, if anything, unless a proxy answers 204.
Wrong(r) ==
    /\ faults' = faults + 1
    /\ \/ /\ tenants' = Abstract!After(r.of, tenants, issued)
          /\ issued' = Abstract!IssuedAfter(r.of, tenants, issued)
          /\ Open' = Open \ {Entry(r)}
       \/ UNCHANGED <<tenants, issued>> /\ Open' \in {Open, Open \ {Entry(r)}}
    /\ \/ Outcome' = IF call # NoCall /\ r.n = calls /\ Outcome = Unanswered
                     THEN Err ELSE Outcome
       \/ Outcome' = Outcome
    /\ UNCHANGED <<calls, call, answer>>

LEMMA FaultStep ==
    ASSUME CreatedIsTyped, TransportInv, NEW r \in wire,
           ServeBadly(r) \/ Intercept(r) \/ LoseRequest(r)
    PROVE  TransportInv' /\ (204 \notin ProxyCodes => Wrong(r))
  <1>1. Fault /\ faults' = faults + 1 /\ (faults \in 0..MaxFaults)'
    BY TransportAssumption DEF ServeBadly, Intercept, LoseRequest, Fault,
       TransportInv, TypeOK
  <1>2. r.of \in Call /\ BuiltFor(r.of, r)
    BY UnderWay
  <1>3. tenants \subseteq Tenant /\ issued \in 0..MaxPlanes
    BY DEF TransportInv, TypeOK
  <1>4. ASSUME NEW w, Readable(w), Respond(r, w)
        PROVE  /\ (rsp \in Response \cup {NoResponse})' /\ ReadableResponse'
               /\ UNCHANGED <<calls, call, answer>>
               /\ Received(r.of, w) = Err =>
                    Outcome' = IF call # NoCall /\ r.n = calls
                                    /\ Outcome = Unanswered
                               THEN Err ELSE Outcome
    BY <1>4, Responds
  <1>5. ASSUME ServeBadly(r)
        PROVE  TransportInv' /\ Wrong(r)
    <2>1. wire' = wire \ {r}
      BY <1>5 DEF ServeBadly
    <2>2. PICK w : Readable(w) /\ Received(r.of, w) = Err /\ Respond(r, w)
      <3>1. CASE \E res \in Mishaps \cup Undecoded(r) :
                    Respond(r, ServeHTTP(r, res))
        BY <1>2, <3>1, MishapRead
      <3>2. CASE \E res \in Results(r) :
                    /\ ServeHTTP(r, res).json
                    /\ \E w \in Damaged(ServeHTTP(r, res)) : Respond(r, w)
        <4>1. PICK res \in Results(r) :
                    /\ ServeHTTP(r, res).json
                    /\ \E w \in Damaged(ServeHTTP(r, res)) : Respond(r, w)
          BY <3>2
        <4>2. DamageIsErr(r.of, ServeHTTP(r, res))
          BY <1>2, <1>3, Served
        <4> QED
          BY <4>1, <4>2 DEF DamageIsErr
      <3> QED
        BY <1>5, <3>1, <3>2 DEF ServeBadly
    <2>3. CarryOut(r) \/ UNCHANGED <<tenants, issued>>
      BY <1>5 DEF ServeBadly, serviceVars
    <2>4. Open' = Open \ {Entry(r)}
      BY <2>1, OpenWithout
    <2>5. (tenants \subseteq Tenant)' /\ (issued \in 0..MaxPlanes)'
      BY <1>3, <2>3, CarriesOut
    <2>6. TransportInv'
      BY <1>1, <1>4, <2>1, <2>2, <2>5, Kept
    <2> QED
      BY <1>1, <1>4, <2>2, <2>3, <2>4, <2>6, CarriesOut DEF Wrong
  <1>6. ASSUME Intercept(r)
        PROVE  TransportInv' /\ (204 \notin ProxyCodes => Wrong(r))
    <2>1. wire' \in {wire, wire \ {r}} /\ UNCHANGED <<tenants, issued>>
      BY <1>6 DEF Intercept, serviceVars
    <2>2. PICK code \in ProxyCodes : Respond(r, Text(code))
      BY <1>6 DEF Intercept
    <2>3. /\ Readable(Text(code))
          /\ 204 \notin ProxyCodes => Received(r.of, Text(code)) = Err
      <3>1. /\ code \in Codes /\ code # 201
            /\ 204 \notin ProxyCodes => code # 204
        BY NetworkAssumption DEF CreatedIsTyped
      <3> QED
        BY <1>2, <3>1, TextIsErr
    <2>4. TransportInv'
      BY <1>1, <1>3, <1>4, <2>1, <2>2, <2>3, Kept
    <2>5. 204 \notin ProxyCodes => Wrong(r)
      BY <1>1, <1>4, <2>1, <2>2, <2>3, OpenWithout DEF Wrong
    <2> QED
      BY <2>4, <2>5
  <1>7. ASSUME LoseRequest(r)
        PROVE  TransportInv' /\ Wrong(r)
    <2>1. wire' = wire \ {r} /\ UNCHANGED <<tenants, issued, calls, call, rsp, answer>>
      BY <1>7 DEF LoseRequest, serviceVars
    <2>2. /\ (rsp \in Response \cup {NoResponse})' /\ ReadableResponse'
          /\ Outcome' = Outcome
      BY <2>1 DEF TransportInv, TypeOK, ReadableResponse, Outcome
    <2>3. TransportInv'
      BY <1>1, <1>3, <2>1, <2>2, Kept
    <2> QED
      BY <1>1, <2>1, <2>2, <2>3, OpenWithout DEF Wrong
  <1> QED
    BY <1>5, <1>6, <1>7

\* A call sends one request, and is answered by nothing yet.
LEMMA SendStep ==
    ASSUME TransportInv, Send
    PROVE  /\ TransportInv'
           /\ call = NoCall /\ call' \in Call /\ calls' = calls + 1
           /\ Open' = Open \cup {[n |-> calls + 1, call |-> call']}
           /\ Outcome' = Outcome
           /\ UNCHANGED <<tenants, issued, faults, answer>>
  <1>1. /\ call = NoCall /\ calls < MaxCalls /\ call' \in Call
        /\ calls' = calls + 1
        /\ wire' = wire \cup {Sent(call', calls')}
        /\ UNCHANGED <<tenants, issued, faults, rsp, answer>>
    BY DEF Send, serviceVars
  <1>2. calls \in Nat /\ calls' \in 0..MaxCalls /\ calls' \in Nat
    BY <1>1, TransportAssumption DEF TransportInv, TypeOK
  <1> DEFINE s == Sent(call', calls')
  <1>3. /\ s \in Request /\ s.n = calls' /\ s.of = call'
        /\ s = Sent(s.of, s.n)
    <2>1. BuiltFor(call', s) /\ s.n = calls'
      BY <1>1, <1>2, Built
    <2> QED
      BY <2>1 DEF BuiltFor
  <1> HIDE DEF s
  <1>4. wire' = wire \cup {s}
    BY <1>1 DEF s
  <1>5. rsp = NoResponse
    BY <1>1 DEF TransportInv, ReadableResponse
  <1>6. TypeOK'
    BY <1>1, <1>2, <1>3, <1>4 DEF TransportInv, TypeOK
  <1>7. \A r \in wire : r.n \in 1..calls
    BY DEF TransportInv, AsBuilt
  <1>8. AsBuilt'
    <2>1. \A r \in wire : r = Sent(r.of, r.n)
      BY DEF TransportInv, AsBuilt
    <2>2. \A r \in wire' : r.n \in 1..calls'
      BY <1>1, <1>2, <1>3, <1>4, <1>7
    <2>3. \A r \in wire' : r = Sent(r.of, r.n)
      BY <1>3, <1>4, <2>1
    <2> QED
      BY <2>2, <2>3 DEF AsBuilt
  <1>9. LastIsCurrent'
    <2>1. \A r \in wire : r.n # calls'
      BY <1>1, <1>2, <1>7
    <2> QED
      BY <1>3, <1>4, <2>1 DEF LastIsCurrent
  <1>10. ReadableResponse'
    BY <1>1, <1>5 DEF ReadableResponse
  <1>11. Open' = Open \cup {[n |-> calls + 1, call |-> call']}
    <2>1. Entry(s) = [n |-> calls + 1, call |-> call']
      BY <1>1, <1>3 DEF Entry
    <2>2. Open' = {Entry(r) : r \in wire \cup {s}}
      BY <1>4 DEF Open
    <2> QED
      BY <2>1, <2>2 DEF Open
  <1>12. Outcome' = Outcome
    BY <1>1, <1>5 DEF Outcome
  <1> QED
    BY <1>1, <1>6, <1>8, <1>9, <1>10, <1>11, <1>12 DEF TransportInv

\* The call returns with what was received, or with an error that is charged
\* to a fault.
LEMMA ReturnStep ==
    ASSUME TransportInv, Receive \/ GiveUp
    PROVE  /\ TransportInv'
           /\ call # NoCall /\ call' = NoCall
           /\ \/ Outcome # Unanswered /\ answer' = Outcome /\ UNCHANGED faults
              \/ answer' = Err /\ faults' = faults + 1
           /\ Open' = Open /\ Outcome' = Unanswered
           /\ UNCHANGED <<tenants, issued, calls>>
  <1>1. /\ call # NoCall /\ call' = NoCall /\ rsp' = NoResponse
        /\ UNCHANGED <<tenants, issued, calls, wire>>
    BY DEF Receive, GiveUp, serviceVars
  <1> DEFINE Ans == [err : {"nil", "error"}, planes : SUBSET Plane,
                     kubeconfig : Nat]
  <1>2. /\ \/ Outcome # Unanswered /\ answer' = Outcome /\ UNCHANGED faults
           \/ answer' = Err /\ faults' = faults + 1
        /\ answer' \in Ans
        /\ (faults \in 0..MaxFaults)'
    <2>1. CASE Receive
      <3>1. rsp # NoResponse /\ answer' = Received(call, rsp) /\ faults' = faults
        BY <2>1 DEF Receive
      <3>2. Outcome # Unanswered /\ Outcome = Received(call, rsp)
            /\ call \in Call /\ Readable(rsp)
        BY <3>1, OutcomeIs
      <3>3. answer' \in Ans
        BY <3>1, <3>2, ReceivedType
      <3> QED
        BY <3>1, <3>2, <3>3 DEF TransportInv, TypeOK
    <2>2. CASE GiveUp
      BY <2>2, TransportAssumption DEF GiveUp, Fault, Err, TransportInv, TypeOK
    <2> QED
      BY <2>1, <2>2
  <1>3. TypeOK'
    BY <1>1, <1>2 DEF TransportInv, TypeOK
  <1>4. AsBuilt' /\ LastIsCurrent' /\ ReadableResponse'
    BY <1>1 DEF TransportInv, AsBuilt, LastIsCurrent, ReadableResponse
  <1>5. Open' = Open /\ Outcome' = Unanswered
    BY <1>1 DEF Open, Outcome
  <1> QED
    BY <1>1, <1>2, <1>3, <1>4, <1>5 DEF TransportInv

\* The service gives a tenant its hostname.
LEMMA ProvisionStep ==
    ASSUME TransportInv, Provision
    PROVE  /\ TransportInv'
           /\ Open' = Open /\ Outcome' = Outcome
  <1>1. /\ UNCHANGED <<issued, faults, calls, call, wire, rsp, answer>>
        /\ (tenants \subseteq Tenant)'
    <2>1. PICK t \in tenants :
              tenants' = (tenants \ {t}) \cup {[t EXCEPT !.hostname = TRUE]}
      BY DEF Provision
    <2>2. [t EXCEPT !.hostname = TRUE] \in Tenant
      BY DEF TransportInv, TypeOK, Tenant
    <2> QED
      BY <2>1, <2>2 DEF Provision, TransportInv, TypeOK
  <1>2. TransportInv'
    BY <1>1, Kept DEF TransportInv, TypeOK, ReadableResponse
  <1> QED
    BY <1>1, <1>2 DEF Open, Outcome

\* The initial states satisfy the invariant.
LEMMA TransportInit == Init => TransportInv
  BY TransportAssumption, MaxPlanesAssumption DEF Init, TransportInv, TypeOK,
     AsBuilt, LastIsCurrent, ReadableResponse

\* Every step keeps the invariant.
LEMMA TransportNext ==
    ASSUME CreatedIsTyped, TransportInv, [Next]_vars
    PROVE  TransportInv'
  <1>1. CASE Send
    BY <1>1, SendStep
  <1>2. CASE Receive \/ GiveUp
    BY <1>2, ReturnStep
  <1>3. CASE Provision
    BY <1>3, ProvisionStep
  <1>4. CASE \E r \in wire :
                Serve(r) \/ ServeBadly(r) \/ Intercept(r) \/ LoseRequest(r)
    BY <1>4, ServeStep, FaultStep
  <1>5. CASE UNCHANGED vars
    BY <1>5 DEF vars, TransportInv, TypeOK, AsBuilt, LastIsCurrent,
       ReadableResponse
  <1> QED
    BY <1>1, <1>2, <1>3, <1>4, <1>5 DEF Next
-------------------------------------------------------------------------------
\* The invariant holds throughout.
LEMMA TransportInvariant ==
    ASSUME CreatedIsTyped
    PROVE  Spec => []TransportInv
  <1>1. ASSUME TransportInv, [Next]_vars PROVE TransportInv'
    BY <1>1, TransportNext
  <1> QED
    BY <1>1, TransportInit, PTL DEF Spec

\* Every request, response and answer has its type, also those that were cut,
\* stripped or answered in the service's place, as long as no 201 is.
THEOREM TransportTypes ==
    ASSUME CreatedIsTyped
    PROVE  Spec => []TypeOK
  <1>1. TransportInv => TypeOK
    BY DEF TransportInv
  <1> QED
    BY <1>1, TransportInvariant, PTL

\* CreatePlane (client.go:63) never dereferences a JSON201 that
\* ParseCreateTenantResponse left nil, as long as the network neither answers
\* 201 in the service's place nor strips one of its content type.
THEOREM NoPanic ==
    ASSUME CreatedIsTyped
    PROVE  Spec => []NoNilDereference
  <1>1. TransportInv => NoNilDereference
    <2> SUFFICES ASSUME TransportInv, rsp # NoResponse
                 PROVE  Received(call, rsp) # NilDereference
      BY DEF NoNilDereference
    <2> QED
      BY OutcomeIs, ReceivedType
  <1> QED
    BY <1>1, TransportInvariant, PTL

\* The two specifications speak of the same calls, and of the same values.
LEMMA SameValues ==
    /\ Abstract!Calls = Call /\ Abstract!NoCall = NoCall
    /\ Abstract!Pending = Unanswered /\ Abstract!Failed = Err
  BY DEF Abstract!Calls, Call, Abstract!IDs, Abstract!NoCall, NoCall,
     Abstract!Pending, Unanswered, Abstract!Failed, Err

\* Every step maps to a step of NoPlaneCall or to none.
LEMMA CallStep ==
    ASSUME CreatedIsTyped, 204 \notin ProxyCodes, TransportInv, [Next]_vars
    PROVE  [Abstract!Next]_(Abstract!vars)
  <1>1. CASE Send
    <2>1. Abstract!Invoke
      BY <1>1, SendStep, SameValues DEF Abstract!Invoke, Open, Entry, Outcome
    <2> QED
      BY <2>1 DEF Abstract!Next
  <1>2. CASE Receive \/ GiveUp
    <2>1. Abstract!Return
      BY <1>2, ReturnStep, SameValues DEF Abstract!Return, Open, Entry, Outcome
    <2> QED
      BY <2>1 DEF Abstract!Next
  <1>3. CASE Provision
    <2>1. Abstract!Provision
      BY <1>3, ProvisionStep DEF Provision, Abstract!Provision, Open, Entry,
         Outcome
    <2> QED
      BY <2>1 DEF Abstract!Next
  <1>4. ASSUME NEW r \in wire, Serve(r)
        PROVE  Abstract!Next
    <2>1. Entry(r).n = r.n /\ Entry(r).call = r.of /\ Entry(r) \in Open
      BY OpenWithout DEF Entry
    <2>2. Abstract!CarryOut(Entry(r))
      BY <1>4, <2>1, ServeStep, SameValues DEF Abstract!CarryOut,
         Abstract!Effect, Abstract!Answered, Abstract!Awaited, Open, Outcome, Entry
    <2> QED
      BY <2>1, <2>2 DEF Abstract!Next, Open, Entry
  <1>5. ASSUME NEW r \in wire,
               ServeBadly(r) \/ Intercept(r) \/ LoseRequest(r)
        PROVE  Abstract!Next
    <2>1. Entry(r).n = r.n /\ Entry(r).call = r.of /\ Entry(r) \in Open
      BY OpenWithout DEF Entry
    <2>2. Wrong(r)
      BY <1>5, FaultStep
    <2>3. Abstract!GoWrong(Entry(r))
      BY <2>1, <2>2, SameValues DEF Wrong, Abstract!GoWrong, Abstract!Effect,
         Abstract!Answered, Abstract!Awaited, Open, Outcome, Entry
    <2> QED
      BY <2>1, <2>3 DEF Abstract!Next, Open, Entry
  <1>6. CASE UNCHANGED vars
    BY <1>6 DEF vars, Abstract!vars
  <1> QED
    BY <1>1, <1>2, <1>3, <1>4, <1>5, <1>6 DEF Next

(***************************************************************************)
(* Built, served, answered and parsed by the generated code, a call of     *)
(* noplane.Client is the call of NoPlaneCall: carried out whole, at one    *)
(* instant and at most once, and answered without an error only with the   *)
(* answer of that instant.  Of the network this takes that nobody else     *)
(* answers the two codes that client.go believes without reading a body:   *)
(* 201, which then has no JSON201 (line 63), and 204 (line 115).           *)
(***************************************************************************)
THEOREM CallImplemented ==
    ASSUME CreatedIsTyped, 204 \notin ProxyCodes
    PROVE  Spec => ImplementsCall
  <1>1. Init => Abstract!Init
    BY SameValues DEF Init, Abstract!Init
  <1>2. ASSUME TransportInv, [Next]_vars PROVE [Abstract!Next]_(Abstract!vars)
    BY <1>2, CallStep
  <1> QED
    BY <1>1, <1>2, TransportInvariant, PTL DEF Spec, ImplementsCall,
       Abstract!Spec
===============================================================================
