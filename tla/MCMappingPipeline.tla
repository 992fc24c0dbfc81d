-------------------------- MODULE MCMappingPipeline --------------------------
(***************************************************************************)
(* Instances of MappingPipeline for TLC.                                   *)
(***************************************************************************)
EXTENDS MappingPipeline

MCStagingNames == {"discovery", "second"}

MCBusinessNames == {"business"}

MCNames == MCStagingNames \cup MCBusinessNames

Of(kind, db, actions) == [kind |-> kind, db |-> db, actions |-> actions]

\* A transaction of the user's, and a statement of one action.
MCShapes ==
    {Of("begin", NoName, 0), Of("commit", NoName, 0), Of("rollback", NoName, 0),
     Of("sql", "discovery", 1)}

\* One that writes, one that ends the import's transaction and goes on, one that is
\* refused.
MCImportRulesets ==
    {<<<<Of("sql", NoName, 1)>>>>,
     <<<<Of("rollback", NoName, 0), Of("sql", NoName, 1)>>>>,
     <<<<Of("begin", NoName, 0)>>>>}

NoShapes == {}

File == <<"file">>

Doc(value) == [nodeType |-> File, value |-> value]

Entry(key, value) == [key |-> key, value |-> value]

a == <<"a">>
b == <<"b">>
c == <<"c">>

One  == Scalar("integer", "1")
Two  == Scalar("integer", "2")
Text == Scalar("varchar", "x")

Documents ==
    {Doc(Null), Doc(Object(<<>>)),
     [nodeType |-> <<"note">>, value |-> Object(<<Entry(a, Text)>>)],
     \* Nested objects, a key that collides with one, and a null.
     Doc(Object(<<Entry(a, One), Entry(b, Object(<<Entry(c, Text)>>))>>)),
     Doc(Object(<<Entry(b, Object(<<Entry(c, Null)>>)), Entry(a, Two)>>)),
     Doc(Object(<<Entry(b, Object(<<Entry(c, Scalar("varchar", "y"))>>)),
                  Entry(b \o c, Text)>>)),
     \* A column of another type, and one without a type.
     Doc(Object(<<Entry(a, Text)>>)), Doc(Object(<<Entry(a, Null)>>)),
     \* Arrays of scalars, of objects with arrays, of both.
     Doc(Object(<<Entry(b, Array(<<One, Null, Two>>)), Entry(a, One)>>)),
     Doc(Object(<<Entry(b, Array(<<Object(<<Entry(a, One), Entry(c, Array(<<Text>>))>>),
                                   Object(<<Entry(c, Array(<<>>))>>)>>))>>)),
     Doc(Object(<<Entry(b, Array(<<Two, Object(<<Entry(a, Text)>>)>>))>>)),
     \* The same table below another parent, an array in an array, a structural name.
     Doc(Object(<<Entry(b, Object(<<Entry(c, Array(<<Text, Text>>))>>))>>)),
     Doc(Object(<<Entry(b, Array(<<Array(<<One>>)>>))>>)),
     Doc(Object(<<Entry(Identity, One)>>)),
     Doc(Object(<<Entry(b, Array(<<Object(<<Entry(ParentIdentity, One)>>)>>))>>))}

MCDiscoveries == UNION {[1..k -> Documents] : k \in 0..2}

\* What a discovery finds decides what is inferred and built, not which calls are
\* possible: longer behaviours are explored for one discovery, of two node types.
Usual ==
    <<Doc(Object(<<Entry(a, One), Entry(b, Object(<<Entry(c, Text)>>))>>)),
      [nodeType |-> <<"note">>, value |-> Object(<<Entry(a, Text)>>)]>>

ShortUnlessUsual ==
    calls <= 1 \/ results = NoResults \/ results.docs = Usual
=============================================================================
