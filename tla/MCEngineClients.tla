--------------------------- MODULE MCEngineClients ---------------------------
(***************************************************************************)
(* Instances of EngineClients for TLC.                                     *)
(***************************************************************************)
EXTENDS EngineClients

MCNames == {"business"}

Of(kind, db, actions) == [kind |-> kind, db |-> db, actions |-> actions]

\* The session statements, one of each, and a statement of two actions.
MCShapes ==
    {Of("begin", NoName, 0), Of("commit", NoName, 0), Of("rollback", NoName, 0),
     Of("use_database", "business", 0), Of("create_database", "business", 0),
     Of("sql", NoName, 2)}

MCImportShapes == {Of("sql", NoName, 1), Of("sql", NoName, 2)}

MCRuleShapes == {Of("sql", NoName, 2)}

\* An import whose instructions may hold ROLLBACK.
RollbackImportShapes == {Of("sql", NoName, 1), Of("rollback", NoName, 0)}

OnlyBegin == {Of("begin", NoName, 0)}
=============================================================================
