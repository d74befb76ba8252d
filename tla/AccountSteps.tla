----------------------------- MODULE AccountSteps -----------------------------
(*****************************************************************************)
(* The steps about the account itself: resource hierarchy, IAM, enabled      *)
(* services, billing, keys and access policies. managedRoles, projectName    *)
(* and projectEntity are keys of the job state's data: the managed roles by  *)
(* name, the project names and ids cached by cacheProjectNameAndId, and the  *)
(* entity of the project being ingested.                                     *)
(*****************************************************************************)
EXTENDS StepRecords

-----------------------------------------------------------------------------
(* src/steps/access-context-manager *)

fetchAccessPolicies == Handler({}, {"access_policy"})

fetchAccessLevels == Handler({"access_policy"}, {"access_level"})

fetchServicePerimeters ==
  Handler({"access_policy", "projectName"}, {"service_perimeter"})

accessPoliciesSteps ==
  { Step("fetch-access-context-manager-access-policies",
         {},
         fetchAccessPolicies),
    Step("fetch-access-context-manager-access-levels",
         {"fetch-access-context-manager-access-policies"},
         fetchAccessLevels),
    Step("fetch-access-context-manager-service-perimeters",
         {"fetch-resource-manager-org-project-relationships",
          "fetch-access-context-manager-access-policies"},
         fetchServicePerimeters) }

-----------------------------------------------------------------------------
(* src/steps/billing-budgets *)

fetchBillingBudgets == Handler({"billing_account"}, {"billing_budget"})

buildBillingAccountBudgetRelationships ==
  Handler({"billing_account", "billing_budget"}, {})

buildProjectBudgetRelationships ==
  Handler({"billing_budget", "projectEntity"}, {})

buildAdditionalProjectBudgetRelationships ==
  Handler({"billing_budget", "projectEntity", "projectName"}, {})

billingBudgetsSteps ==
  { Step("fetch-billing-budgets",
         {"fetch-billing-accounts"},
         fetchBillingBudgets),
    Step("build-account-budget",
         {"fetch-billing-budgets"},
         buildBillingAccountBudgetRelationships),
    Step("build-project-budget",
         {"fetch-billing-budgets", "fetch-resource-manager-project"},
         buildProjectBudgetRelationships),
    Step("build-additional-project-budget",
         {"fetch-resource-manager-organization",
          "fetch-resource-manager-project",
          "fetch-resource-manager-org-project-relationships",
          "fetch-billing-budgets"},
         buildAdditionalProjectBudgetRelationships) }

-----------------------------------------------------------------------------
(* src/steps/binary-authorization *)

fetchBinaryAuthorizationPolicy ==
  Handler({"projectEntity"}, {"binary_authorization_policy"})

binaryAuthorizationSteps ==
  { Step("fetch-binary-authorization-policy",
         {"fetch-resource-manager-project"},
         fetchBinaryAuthorizationPolicy) }

-----------------------------------------------------------------------------
(* src/steps/cloud-billing *)

fetchBillingAccounts == Handler({}, {"billing_account"})

cloudBillingSteps ==
  { Step("fetch-billing-accounts", {}, fetchBillingAccounts) }

-----------------------------------------------------------------------------
(* src/steps/iam *)

fetchIamCustomRoles == Handler({}, {"iam_custom_role"})

buildIamCustomRoleApiServiceRelationship ==
  Handler({"iam_custom_role", "cloud_api_service"}, {})

fetchIamManagedRoles == Handler({}, {"managedRoles"})

fetchIamServiceAccounts ==
  Handler({}, {"iam_service_account", "iam_service_account_key"})

iamSteps ==
  { Step("fetch-iam-custom-roles", {}, fetchIamCustomRoles),
    Step("build-iam-custom-role-service-api-relationships",
         {"fetch-iam-custom-roles", "fetch-api-services"},
         buildIamCustomRoleApiServiceRelationship),
    Step("fetch-iam-managed-roles", {}, fetchIamManagedRoles),
    Step("fetch-iam-service-accounts", {}, fetchIamServiceAccounts) }

-----------------------------------------------------------------------------
(* src/steps/kms *)

fetchKmsKeyRings == Handler({}, {"kms_key_ring"})

fetchKmsCryptoKeys == Handler({"kms_key_ring"}, {"kms_crypto_key"})

kmsSteps ==
  { Step("fetch-kms-key-rings", {}, fetchKmsKeyRings),
    Step("fetch-kms-keys", {"fetch-kms-key-rings"}, fetchKmsCryptoKeys) }

-----------------------------------------------------------------------------
(* src/steps/resource-manager *)

fetchResourceManagerOrganization == Handler({}, {"cloud_organization"})

fetchResourceManagerFolders ==
  Handler({"cloud_organization"}, {"cloud_folder"})

buildOrgFolderProjectMappedRelationships ==
  Handler({"cloud_organization", "cloud_folder"}, {"projectName"})

fetchResourceManagerProject ==
  Handler({}, {"cloud_project", "projectEntity", "projectName"})

fetchResourceManagerSkippedProjects ==
  Handler({"cloud_organization", "cloud_project"}, {"cloud_project"})

fetchIamPolicyAuditConfig ==
  Handler({"cloud_api_service", "iam_service_account"}, {"iam_audit_config"})

resourceManagerSteps ==
  { Step("fetch-resource-manager-organization",
         {},
         fetchResourceManagerOrganization),
    Step("fetch-resource-manager-folders",
         {"fetch-resource-manager-organization"},
         fetchResourceManagerFolders),
    Step("fetch-resource-manager-org-project-relationships",
         {"fetch-resource-manager-organization",
          "fetch-resource-manager-folders"},
         buildOrgFolderProjectMappedRelationships),
    Step("fetch-resource-manager-project", {}, fetchResourceManagerProject),
    Step("fetch-resource-manager-skipped-projects",
         {"fetch-resource-manager-organization"},
         fetchResourceManagerSkippedProjects),
    Step("fetch-iam-policy-audit-config",
         {"fetch-api-services", "fetch-iam-service-accounts"},
         fetchIamPolicyAuditConfig) }

-----------------------------------------------------------------------------
(* src/steps/service-usage *)

fetchApiServices ==
  Handler({"projectEntity", "managedRoles"}, {"cloud_api_service"})

serviceUsageSteps ==
  { Step("fetch-api-services",
         {"fetch-resource-manager-project", "fetch-iam-managed-roles"},
         fetchApiServices) }
===============================================================================
