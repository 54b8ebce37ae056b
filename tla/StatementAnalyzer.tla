------------------------- MODULE StatementAnalyzer -------------------------
(***************************************************************************)
(* analyze_statement: a statement is dispatched on its kind, once, to the  *)
(* analysis of that kind.  INSERT, UPDATE and DELETE, CREATE TABLE, GRANT  *)
(* and REVOKE are taken step by step; the other statements on the catalog  *)
(* are taken whole, as the statements of a session.                        *)
(***************************************************************************)
EXTENDS WritePlan, TableDefinition, CatalogStatements, Privileges

VARIABLE kind       \* the kind of the statement

statementVars == <<kind, writeVars, definitionVars, catalogVars, privilegeVars>>

Kinds == {"none", "write", "definition", "catalog", "privilege"}

StatementInit ==
    /\ kind = "none"
    /\ WriteInit /\ DefinitionInit /\ CatalogInit /\ PrivilegeInit

Dispatch ==
    /\ kind = "none" /\ kind' \in Kinds \ {"none"}
    /\ UNCHANGED <<writeVars, definitionVars, catalogVars, privilegeVars>>

AnalyzeWrite ==
    kind = "write" /\ WriteNext /\ UNCHANGED <<kind, definitionVars, catalogVars, privilegeVars>>
AnalyzeDefinition ==
    kind = "definition" /\ DefinitionNext /\ UNCHANGED <<kind, writeVars, catalogVars, privilegeVars>>
AnalyzeCatalog ==
    kind = "catalog" /\ CatalogNext /\ UNCHANGED <<kind, writeVars, definitionVars, privilegeVars>>
AnalyzePrivilege ==
    kind = "privilege" /\ PrivilegeNext /\ UNCHANGED <<kind, writeVars, definitionVars, catalogVars>>

StatementNext ==
    \/ Dispatch
    \/ AnalyzeWrite \/ AnalyzeDefinition \/ AnalyzeCatalog \/ AnalyzePrivilege
StatementSpec == StatementInit /\ [][StatementNext]_statementVars

=============================================================================
