--------------------------- MODULE MCTenantModules ---------------------------
EXTENDS TenantModules

\* Module 2 depends on module 1, and module 3 on both.
MCRegistry == << <<>>, <<1>>, <<1, 2>> >>

\* A single module.
MCRegistryAlone == << <<>> >>

\* Module 1 is like automation: the versions of its rules are deleted with the
\* rules, and get_models() leaves its agent runs out.
MCTables == << {"rules", "rule_versions", "agent_runs"}, {}, {} >>

MCModels == << {"rules", "rule_versions"}, {}, {} >>

MCScoped == {"rules", "agent_runs"}

MCCascade == [t \in {"rules", "rule_versions", "agent_runs"} |->
                IF t = "rules" THEN {"rule_versions"} ELSE {}]

MCTableOf == << "rules", "rule_versions" >>

\* An agent run is the first row written.
MCTableOfLeftOut == << "agent_runs", "rules" >>

\* Workers differ in nothing but their names.
Symmetric == Permutations(Workers)
=============================================================================
