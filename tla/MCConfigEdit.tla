---------------------------- MODULE MCConfigEdit ----------------------------
(***************************************************************************)
(* Two scopes, two env files with a variable each, a short value and a     *)
(* long one.                                                               *)
(***************************************************************************)
EXTENDS ConfigEdit

CONSTANTS dev, prod, env1, env2, a, b

PlaceOfEach == (a :> 1) @@ (b :> 2)
FileOfEach == (a :> env1) @@ (b :> env2)

Sensitive(names, scope) ==
    [k \in DOMAIN names |-> [var |-> names[k], sensitive |-> TRUE, digest |-> scope,
                             clear |-> None]]
Made(scope, files, names) ==
    [name |-> scope, files |-> files, vars |-> Sensitive(names, scope)]

\* One scope, and room for another; two, of which one is empty, both have a
\* variable, or both have the same; one whose env files a person has taken out
\* of the file, and one whose declarations are not in order.
SixProjects ==
    {<<Made(dev, {env1, env2}, <<a, b>>)>>,
     <<Made(dev, {env1, env2}, <<a, b>>), Made(prod, {}, <<>>)>>,
     <<Made(dev, {env1}, <<a>>), Made(prod, {env2}, <<b>>)>>,
     <<Made(dev, {env1, env2}, <<a, b>>), Made(prod, {env1}, <<a>>)>>,
     <<Made(dev, {env2}, <<b>>), Made(prod, {}, <<a>>)>>,
     <<Made(dev, {env1, env2}, <<b, a>>)>>}
=============================================================================
