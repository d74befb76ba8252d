----------------------------- MODULE StepCatalog ------------------------------
(*****************************************************************************)
(* The catalog of src/steps/steps.ts: every step of the integration, and     *)
(* what the executor of StepGraph needs to know of each.                     *)
(*****************************************************************************)
EXTENDS ComputeSteps, AccountSteps, ServiceSteps

-----------------------------------------------------------------------------
(* src/steps/cloud-asset: the steps that run last, over everything the       *)
(* others have added.                                                        *)

fetchIamBindings ==
  Handler({"cloud_organization", "cloud_folder", "iam_custom_role",
           "projectName", "managedRoles"},
          {"iam_binding"})

createBasicRolesForBindings ==
  Handler({"iam_binding", "projectName", "managedRoles"}, {"iam_basic_role"})

createPrincipalRelationships ==
  Handler({"iam_binding", "iam_service_account", "iam_basic_role"}, {})

createBindingRoleRelationships ==
  Handler({"iam_binding", "iam_custom_role", "iam_basic_role", "projectName",
           "managedRoles"}, {})

defaultSteps ==
  UNION {functionsSteps, storageSteps, serviceUsageSteps, iamSteps,
         resourceManagerSteps, computeSteps, kmsSteps, sqlAdminSteps,
         bigQuerySteps, dnsManagedZonesSteps, containerSteps, loggingSteps,
         monitoringSteps, binaryAuthorizationSteps, pubSubSteps,
         appEngineSteps, cloudRunSteps, redisSteps, memcacheSteps,
         spannerSteps, apiGatewaySteps, privateCaSteps, accessPoliciesSteps,
         dataprocSteps, bigTableSteps, billingBudgetsSteps, cloudBillingSteps,
         secretManagerSteps, cloudBuildSteps, cloudSourceRepositoriesSteps,
         webSecurityScannerSteps}

\* A policy may be bound to an entity of any kind, which the step looks up
\* by the key it computes from the resource's identifier.
anyResource == UNION {step.writes : step \in defaultSteps}

createBindingToAnyResourceRelationships ==
  Handler({"iam_binding"} \cup anyResource, {})

createApiServiceToAnyResourceRelationships ==
  Handler({"iam_binding"} \cup anyResource, {})

cloudAssetSteps ==
  { LastStep("fetch-iam-bindings", {}, fetchIamBindings),
    LastStep("create-basic-roles",
             {"fetch-iam-bindings"},
             createBasicRolesForBindings),
    LastStep("create-binding-principal-relationships",
             {"fetch-iam-bindings", "create-basic-roles"},
             createPrincipalRelationships),
    LastStep("create-binding-role-relationships",
             {"fetch-iam-bindings", "create-basic-roles"},
             createBindingRoleRelationships),
    LastStep("create-binding-any-resource-relationships",
             {"fetch-iam-bindings"},
             createBindingToAnyResourceRelationships),
    LastStep("create-api-service-any-resource-relationships",
             {"fetch-iam-bindings"},
             createApiServiceToAnyResourceRelationships) }

-----------------------------------------------------------------------------
(* The catalog                                                               *)

steps == defaultSteps \cup cloudAssetSteps

\* getIamManagedRoleData raises a fatal error when the data is not there.
getIamManagedRoleData == {"managedRoles"}

stepIds == {step.id : step \in steps}

stepNamed == [id \in stepIds |-> CHOOSE step \in steps : step.id = id]

dependsOn == [id \in stepIds |-> stepNamed[id].dependsOn]
reads == [id \in stepIds |-> stepNamed[id].reads]
writes == [id \in stepIds |-> stepNamed[id].writes]
needs == [id \in stepIds |-> reads[id] \cap getIamManagedRoleData]
kinds == UNION {step.reads \cup step.writes : step \in steps}
lastSteps == {step.id : step \in cloudAssetSteps}

\* The steps whose client calls back for the items of a page at once.
addsConcurrently == {"fetch-cloud-storage-buckets", "fetch-big-query-tables"}

ancestorsOf[id \in stepIds] ==
  dependsOn[id] \cup UNION {ancestorsOf[d] : d \in dependsOn[id]}

\* A step with all it depends on, and what they depend on.
cone(id) == {id} \cup ancestorsOf[id]
===============================================================================
