---------------------------- MODULE MCResourceKeys -----------------------------
(*****************************************************************************)
(* Every format of the table with one project and two names, and the         *)
(* resources that are ingested and of which the table has no format.         *)
(*****************************************************************************)
EXTENDS ResourceKeys

Names == {"a", "b"}
MCProjectId == "p"
emailOf == ("a" :> "a@p") @@ ("b" :> "b@p")
dnsNumber == ("a" :> "2001") @@ ("b" :> "2002")
MCNumberOf == ("p" :> "1000") @@ ("a@p" :> "1001") @@ ("b@p" :> "1002")

\* Service accounts are called by an email, zones and policies of the DNS by a
\* number.
called(service, collection, name) ==
  CASE collection = "serviceAccounts" -> emailOf[name]
    [] service = "dns" -> dnsNumber[name]
    [] OTHER -> name

\* Two resources of a format differ in what they are called, or in what they
\* are in.
fill(format, parent, name) ==
  [i \in DOMAIN format |->
     IF format[i] = "PROJECT" THEN MCProjectId
     ELSE IF format[i] # "NAME" THEN format[i]
     ELSE called(format[1], format[i - 1], IF i = Len(format) THEN name ELSE parent)]

Named(format, kind) ==
  { [kind |-> kind, identifier |-> fill(format, parent, name)] :
      parent \in Names, name \in Names }

\* The regional resources of compute, and the node pools of regional clusters.
Unlisted ==
  rows("compute", regional,
       [backendServices |-> "BackendService", healthChecks |-> "HealthCheck",
        urlMaps |-> "UrlMap", targetHttpProxies |-> "TargetHttpProxy",
        targetHttpsProxies |-> "TargetHttpsProxy"])
    \cup rows("container", located \o <<"clusters", "NAME">>,
              [nodePools |-> "NodePool"])

MCResources ==
  UNION { Named(r.format, r.kind) :
            r \in CLOUD_RESOURCE_IDENTIFIER_TO_KIND_MAP \cup Unlisted }
===============================================================================
