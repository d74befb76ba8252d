---------------------------- MODULE ResourceFormats ----------------------------
(*****************************************************************************)
(* How Google Cloud names a resource, and what kind of resource a name is:   *)
(* src/utils/iamBindings/findResourceKindFromCloudResourceIdentifier.ts and  *)
(* resourceKindToTypeMap.ts. A name is the sequence of the segments that     *)
(* follow the '//', its service without the '.googleapis.com'; a kind is the *)
(* pair of its domain, shortened likewise, and its name.                     *)
(*****************************************************************************)
EXTENDS Sequences, Naturals, FiniteSets

-----------------------------------------------------------------------------
(* CLOUD_RESOURCE_IDENTIFIER_TO_KIND_MAP. The table takes the segments of a  *)
(* format that are in upper case for variables; here it is these two.        *)

Variables == {"PROJECT", "NAME"}

row(format, kind) == [format |-> format, kind |-> kind]

\* The formats '//service/parent.../collection/NAME', one for each collection.
rowsOfKind(service, parent, domain, kinds) ==
  { row(<<service>> \o parent \o <<collection, "NAME">>,
        <<domain, kinds[collection]>>) : collection \in DOMAIN kinds }

rows(service, parent, kinds) == rowsOfKind(service, parent, service, kinds)

projects == <<"projects", "PROJECT">>
located  == projects \o <<"locations", "NAME">>
zonal    == projects \o <<"zones", "NAME">>
regional == projects \o <<"regions", "NAME">>
global   == projects \o <<"global">>
everywhere == projects \o <<"locations", "global">>

hierarchyFormats ==
  rows("cloudfunctions", located, [functions |-> "CloudFunction"])
    \cup rows("cloudresourcemanager", <<>>,
              [organizations |-> "Organization", folders |-> "Folder"])
    \cup {row(<<"cloudresourcemanager">> \o projects,
              <<"cloudresourcemanager", "Project">>)}
    \cup rows("run", located,
              [domainmappings |-> "DomainMapping", revisions |-> "Revision",
               services |-> "Service"])

computeGlobalFormats ==
  rows("compute", global,
       [addresses |-> "GlobalAddress", backendBuckets |-> "BackendBucket",
        backendServices |-> "BackendService", firewalls |-> "Firewall",
        externalVpnGateways |-> "ExternalVpnGateway",
        healthChecks |-> "HealthCheck", httpHealthChecks |-> "HttpHealthCheck",
        httpsHealthChecks |-> "HttpsHealthCheck", images |-> "Image",
        instanceTemplates |-> "InstanceTemplate",
        interconnects |-> "Interconnect", licenses |-> "License",
        networks |-> "Network", routes |-> "Route",
        securityPolicies |-> "SecurityPolicy", snapshots |-> "Snapshot",
        sslCertificates |-> "SslCertificate", sslPolicies |-> "SslPolicy",
        targetHttpProxies |-> "TargetHttpProxy",
        targetHttpsProxies |-> "TargetHttpsProxy",
        targetTcpProxies |-> "TargetTcpProxy",
        targetSslProxies |-> "TargetSslProxy", urlMaps |-> "UrlMap"])

computeFormats ==
  UNION {
    computeGlobalFormats,
    rows("compute", zonal,
         [autoscalers |-> "Autoscaler", disks |-> "Disk",
          instances |-> "Instance", instanceGroups |-> "InstanceGroup",
          instanceGroupManager |-> "InstanceGroupManager",
          networkEndpointGroups |-> "NetworkEndpointGroup",
          nodeGroups |-> "NodeGroup", reservations |-> "Reservation",
          targetInstances |-> "TargetInstance"]),
    rows("compute", regional,
         [addresses |-> "Address", autoscalers |-> "Autoscaler",
          forwardingRules |-> "ForwardingRule",
          instanceGroups |-> "InstanceGroup",
          instanceGroupManager |-> "InstanceGroupManager",
          nodeTemplates |-> "NodeTemplate", disks |-> "RegionDisk",
          packetMirrorings |-> "PacketMirroring",
          resourcePolicies |-> "ResourcePolicy", routers |-> "Router",
          subnetworks |-> "Subnetwork", targetPools |-> "TargetPool",
          targetVpnGateways |-> "TargetVpnGateway",
          vpnGateways |-> "VpnGateway", vpnTunnels |-> "VpnTunnel"]),
    rows("compute", projects \o <<"region", "NAME">>,
         [commitments |-> "Commitment"]),
    rows("compute", projects \o <<"regions">>,
         [interconnectAttachments |-> "InterconnectAttachment"]),
    {row(<<"compute">> \o projects, <<"compute", "Project">>)}}

app == <<"apps", "NAME">>
keyRing == located \o <<"keyRings", "NAME">>

platformFormats ==
  UNION {
    rows("appengine", <<>>, [apps |-> "Application"]),
    rows("appengine", app, [services |-> "Service"]),
    rows("appengine", app \o <<"services", "NAME">>, [versions |-> "Version"]),
    rows("cloudbilling", <<>>, [billingAccounts |-> "BillingAccount"]),
    {row(<<"storage", "NAME">>, <<"storage", "Bucket">>),
     row(<<"osconfig", "NAME">>, <<"osconfig", "PatchDeployment">>)},
    rows("dns", projects, [managedZones |-> "ManagedZone", policies |-> "Policy"]),
    rows("spanner", projects, [instances |-> "Instance"]),
    rows("spanner", projects \o <<"instances", "NAME">>,
         [databases |-> "Database", backups |-> "Backup"]),
    rows("bigquery", projects, [datasets |-> "Dataset"]),
    rows("bigquery", projects \o <<"datasets", "NAME">>, [tables |-> "Table"]),
    rows("iam", projects, [roles |-> "Role", serviceAccounts |-> "ServiceAccount"]),
    rows("iam", projects \o <<"serviceAccounts", "NAME">>,
         [keys |-> "ServiceAccountKey"]),
    rows("pubsub", projects,
         [topics |-> "Topic", subscriptions |-> "Subscription",
          snapshots |-> "Snapshot"]),
    rows("dataproc", regional, [clusters |-> "Cluster", jobs |-> "Job"]),
    rows("cloudkms", located, [keyRings |-> "KeyRing"]),
    rows("cloudkms", keyRing,
         [cryptoKeys |-> "CryptoKey", importJobs |-> "ImportJob"]),
    rows("cloudkms", keyRing \o <<"cryptoKeys", "NAME">>,
         [cryptoKeyVersions |-> "CryptoKeyVersion"])}

zonalCluster == zonal \o <<"clusters", "NAME">>
namespace == zonalCluster \o <<"k8s", "namespaces", "NAME">>
bigtableInstance == projects \o <<"instances", "NAME">>

containerFormats ==
  UNION {
    rows("container", zonal, [clusters |-> "Cluster"]),
    rows("container", located, [clusters |-> "Cluster"]),
    rows("container", zonalCluster, [nodePools |-> "NodePool"]),
    rowsOfKind("cloudsql", projects, "sqladmin", [instances |-> "Instance"]),
    rowsOfKind("bigtable", projects, "bigtableadmin", [instances |-> "Instance"]),
    rowsOfKind("bigtable", bigtableInstance, "bigtableadmin",
               [appProfiles |-> "AppProfile", clusters |-> "Cluster",
                tables |-> "Table"]),
    rowsOfKind("bigtable", bigtableInstance \o <<"clusters", "NAME">>,
               "bigtableadmin", [backups |-> "Backup"]),
    rowsOfKind("container", namespace \o <<"extensions">>, "extensions.k8s.io",
               [ingresses |-> "Ingress"]),
    rowsOfKind("container", namespace \o <<"networking.k8s.io">>,
               "networking.k8s.io",
               [ingresses |-> "Ingress", networkpolicies |-> "Networkpolicy"])}

caPool == located \o <<"caPools", "NAME">>
authority == caPool \o <<"certificateAuthorities", "NAME">>

managementFormats ==
  UNION {
    rows("serviceusage", projects, [services |-> "Service"]),
    rows("datafusion", located, [instances |-> "Instance"]),
    rows("logging", located, [buckets |-> "LogBucket"]),
    rows("logging", projects, [sinks |-> "LogSink", metrics |-> "LogMetric"]),
    UNION { rows("logging", <<parent, "NAME">>, [sinks |-> "LogSink"]) :
              parent \in {"folders", "organizations", "billingAccounts"} },
    rows("networkmanagement", everywhere,
         [connectivityTests |-> "ConnectivityTest"]),
    rows("managedidentities", everywhere, [domains |-> "Domain"]),
    rows("privateca", located,
         [caPools |-> "CaPool", certificateTemplates |-> "CertificateTemplate"]),
    rows("privateca", caPool,
         [certificateAuthorities |-> "CertificateAuthority"]),
    rows("privateca", authority,
         [certificateRevocationLists |-> "CertificateRevocationList"]),
    rows("dataflow", located, [jobs |-> "Job"]),
    rows("gameservices", everywhere,
         [realms |-> "Realm", gameServerDeployments |-> "GameServerDeployment"]),
    rows("gameservices", everywhere \o <<"realms", "NAME">>,
         [gameServerClusters |-> "GameServerCluster"]),
    rows("gameservices", everywhere \o <<"gameServerDeployments", "NAME">>,
         [configs |-> "GameServerConfig"]),
    rows("gkehub", everywhere, [memberships |-> "Membership"])}

repository == located \o <<"repositories", "NAME">>
processor == located \o <<"processors", "NAME">>

serviceFormats ==
  UNION {
    rows("secretmanager", projects, [secrets |-> "Secret"]),
    rows("secretmanager", projects \o <<"secrets", "NAME">>,
         [versions |-> "SecretVersion"]),
    rows("tpu", located, [nodes |-> "Node"]),
    rows("composer", located, [environments |-> "Environment"]),
    rows("file", located, [instances |-> "Instance", backups |-> "Backup"]),
    rows("servicedirectory", located, [namespaces |-> "Namespace"]),
    rows("assuredworkloads", <<"organizations", "NAME", "locations", "NAME">>,
         [workloads |-> "Workload"]),
    rows("artifactregistry", located, [repositories |-> "Repository"]),
    rows("artifactregistry", repository, [dockerimages |-> "DockerImage"]),
    rows("apigateway", located, [apis |-> "Api", gateways |-> "Gateway"]),
    rows("apigateway", located \o <<"apis", "NAME">>, [configs |-> "ApiConfig"]),
    rows("redis", located, [instances |-> "Instance"]),
    rows("memcache", located, [instances |-> "Instance"]),
    rows("documentai", located,
         [labelerPools |-> "LabelerPool", processors |-> "Processor"]),
    {row(<<"documentai">> \o processor \o <<"humanReviewConfig">>,
         <<"documentai", "HumanReviewConfig">>)},
    rows("aiplatform", located,
         [batchPredictionJobs |-> "BatchPredictionJob", customJobs |-> "CustomJob",
          dataLabelingJobs |-> "DataLabelingJob", datasets |-> "Dataset",
          endpoints |-> "Endpoint", models |-> "Model",
          hyperparameterTuningJobs |-> "HyperparameterTuningJob",
          specialistPools |-> "SpecialistPool",
          trainingPipelines |-> "TrainingPipeline"]),
    rows("monitoring", projects, [policies |-> "AlertPolicy"]),
    rows("vpcaccess", located, [connectors |-> "Connector"]),
    rows("servicemanagement", <<>>, [services |-> "ManagedService"]),
    rows("eventarc", located, [triggers |-> "Trigger"])}

kubernetesFormats ==
  UNION {
    rowsOfKind("container", zonalCluster \o <<"k8s">>, "k8s.io",
               [nodes |-> "Node", namespaces |-> "Namespace"]),
    rowsOfKind("container", namespace, "k8s.io",
               [pods |-> "Pod", services |-> "Service"]),
    rowsOfKind("container", namespace \o <<"rbac.authorization.k8s.io">>,
               "rbac.authorization.k8s.io",
               [roles |-> "Role", rolebindings |-> "RoleBinding"]),
    rowsOfKind("container", zonalCluster \o <<"k8s", "rbac.authorization.k8s.io">>,
               "rbac.authorization.k8s.io",
               [clusterroles |-> "ClusterRole",
                clusterrolebindings |-> "ClusterRoleBinding"])}

CLOUD_RESOURCE_IDENTIFIER_TO_KIND_MAP ==
  UNION {hierarchyFormats, computeFormats, platformFormats, containerFormats,
         managementFormats, serviceFormats, kubernetesFormats}

-----------------------------------------------------------------------------

checkResourceFormatPrefix(identifier, format) ==  \* mutant
  /\ Len(identifier) >= Len(format)
  /\ \A i \in 1..Len(format) : format[i] \in Variables \cup {identifier[i]}

\* A longer or a shorter identifier is not rebuilt from the format.
checkResourceFormatMatch(identifier, format) ==
  /\ Len(identifier) = Len(format)
  /\ \A i \in 1..Len(format) : format[i] \in Variables \cup {identifier[i]}

\* The kinds of the formats that match. The code takes that of the first; where
\* they are all of one kind, the order of the table does not matter.
kindsOf(identifier) ==
  { r.kind : r \in {f \in CLOUD_RESOURCE_IDENTIFIER_TO_KIND_MAP :
                      checkResourceFormatMatch(identifier, f.format)} }
===============================================================================
