----------------------------- MODULE ConfigEdit -----------------------------
(***************************************************************************)
(* The scopes and variable declarations of one propagate.yaml, and the     *)
(* commands that change them: the interactive editor (config edit), which  *)
(* holds a copy of the file while a person goes through its screens, scope *)
(* create, and the declarations of env push, made when it starts and       *)
(* written when it ends.  The commands overlap, and people edit the env    *)
(* files and lay out propagate.yaml in their own way meanwhile.  Revisions *)
(* and the cloud are Workspace's; which values a push sends is EnvFiles'.  *)
(*                                                                         *)
(* A prompt is the set of choices it shows: the cursor, the shortcuts and  *)
(* the numbered lines without a terminal all end in one of them, or in a   *)
(* cancel.                                                                 *)
(***************************************************************************)
EXTENDS Naturals, Sequences, FiniteSets, SequencesExt

CONSTANTS
    ScopeNames,    \* names of scopes
    Files,         \* env files
    Variables,     \* variables of the env files
    Place,         \* Place[v]: where v comes in the order of their paths and names
    FileOf,        \* FileOf[v]: the env file of variable v
    Short, Long,   \* values of variables: literals and others
    Absent,        \* no such variable in the env file, or no such env file
    Twice,         \* assigned more than once
    None,          \* no digest, no value in clear, no command
    Imported,      \* the scopes that init, env push and an editor may have left
    MaxChanges,    \* bound: changes in a session of the editor
    MaxCommands    \* bound: commands begun

ASSUME VariablesAssumption ==
    /\ IsFiniteSet(Variables)
    /\ Place \in [Variables -> Nat]
    /\ \A v, w \in Variables : Place[v] = Place[w] => v = w
    /\ FileOf \in [Variables -> Files]
ASSUME ValueAssumption == Short \cap Long = {} /\ {Absent, Twice, None} \cap (Short \cup Long) = {}
ASSUME NoneAssumption == None \notin ScopeNames
ASSUME BoundAssumption == MaxCommands \in Nat

\* A declaration: the scope whose key its digest was made with, and the literal
\* or preview it has.
Declaration == [var : Variables, sensitive : BOOLEAN, digest : ScopeNames \cup {None},
                clear : Short \cup Long \cup {None}]

Scope == [name : ScopeNames, files : SUBSET Files, vars : Seq(Declaration)]

\* To begin with, a scope declares a variable once, in any order where a person
\* has written the declarations, and nothing is marked non_sensitive.
ASSUME ImportedAssumption ==
    \A project \in Imported :
        /\ project \in Seq(Scope)
        /\ \A i, k \in DOMAIN project : project[i].name = project[k].name => i = k
        /\ \A i \in DOMAIN project :
              /\ \A k, m \in DOMAIN project[i].vars :
                    project[i].vars[k].var = project[i].vars[m].var => k = m
              /\ \A k \in DOMAIN project[i].vars :
                    project[i].vars[k].sensitive /\ project[i].vars[k].clear = None

\* A line of the summary; `to' is None where a variable is removed.
Change == [var : Variables, from : ScopeNames, to : ScopeNames \cup {None}, sensitive : BOOLEAN]

\* The editor: what it read and whether that was as rendered, what it holds, the
\* screen, the variable it is at (a place in what it holds) and the changes that
\* were made.
Editor == [read : Seq(Scope), asRendered : BOOLEAN, project : Seq(Scope),
           screen : {"variables", "variable", "scopes", "confirm"},
           scope : Nat, variable : Nat, changes : Seq(Change)]

VARIABLES
    file,       \* propagate.yaml
    asRendered, \* whether its text is what RenderParsed makes of it
    env,        \* the env files
    editor,     \* the editor, or None
    push,       \* the file that an env push is about to write, or None
    begun,      \* number of commands begun
    marked      \* history: what a person has marked or moved as non_sensitive

vars == <<file, asRendered, env, editor, push, begun, marked>>

EditTypeOK ==
    /\ file \in Seq(Scope)
    /\ asRendered \in BOOLEAN
    /\ env \in [Variables -> Short \cup Long \cup {Absent, Twice}]
    /\ editor = None \/ editor \in Editor
    /\ push = None \/ push \in Seq(Scope)
    /\ begun \in 0 .. MaxCommands
    /\ marked \subseteq ScopeNames \X Variables

-----------------------------------------------------------------------------
(* propagate.yaml.                                                         *)

Holds(scope, v) == \E i \in DOMAIN scope.vars : scope.vars[i].var = v
Of(scope, v) == scope.vars[CHOOSE i \in DOMAIN scope.vars : scope.vars[i].var = v]
Names(project) == {project[i].name : i \in DOMAIN project}

\* ValidateVariableDeclaration: where a scope lists env files, a declaration is
\* of one of them, and what is sensitive has neither literal nor preview.
Valid(project) ==
    \A i \in DOMAIN project : \A k \in DOMAIN project[i].vars :
        LET d == project[i].vars[k]
        IN  /\ project[i].files = {} \/ FileOf[d.var] \in project[i].files
            /\ d.sensitive => d.clear = None

\* The elements of S, each after those that are before it.
Ordered(S, before) ==
    [n \in 1 .. Cardinality(S) |->
        CHOOSE x \in S : Cardinality({y \in S : <<y, x>> \in before}) = n - 1]

\* sortedVariableDeclarations.  Of two declarations of one variable, which no
\* scope has (DeclaredOnce), the first one stays the first.
Sorted(declarations) ==
    LET places == DOMAIN declarations
        before == {p \in places \X places :
                      LET d == declarations[p[1]]
                          e == declarations[p[2]]
                      IN  Place[d.var] < Place[e.var] \/ (d.var = e.var /\ p[1] < p[2])}
        order == Ordered(places, before)
    IN  [n \in DOMAIN order |-> declarations[order[n]]]

\* RenderParsed: the declarations of a scope are sorted.
Rendered(project) ==
    [i \in DOMAIN project |-> [project[i] EXCEPT !.vars = Sorted(@)]]

\* ReadProject refuses what could not have been written.
Readable(project) == Valid(project)

\* init renders by itself: the scopes of its member are in the order of their
\* ranks, and RenderParsed sorts them.  What a person wrote has its own layout.
Init ==
    /\ file \in Imported
    /\ asRendered \in BOOLEAN
    /\ asRendered => file = Rendered(file)
    /\ env \in [Variables -> Short \cup Long \cup {Absent, Twice}]
    /\ editor = None /\ push = None
    /\ begun = 0
    /\ marked = {}

Begin == begun < MaxCommands /\ begun' = begun + 1

-----------------------------------------------------------------------------
(* config edit.                                                            *)

\* Without a declaration there is nothing to edit.
Open ==
    /\ editor = None
    /\ Begin
    /\ Readable(file)
    /\ \E i \in DOMAIN file : file[i].vars # <<>>
    /\ editor' = [read |-> file, asRendered |-> asRendered, project |-> file,
                  screen |-> "variables", scope |-> 0, variable |-> 0, changes |-> <<>>]
    /\ UNCHANGED <<file, asRendered, env, push, marked>>

On(screen) == editor # None /\ editor.screen = screen
Current == editor.project[editor.scope].vars[editor.variable]
CurrentScope == editor.project[editor.scope]

Show(screen) == editor' = [editor EXCEPT !.screen = screen]

\* Mutant: the change is noted with what the variable was.
MutMake(project, screen, to, sensitive) ==
    /\ Len(editor.changes) < MaxChanges
    /\ editor' = [editor EXCEPT
                    !.project = project, !.screen = screen,
                    !.changes = Append(@, [var |-> Current.var, from |-> CurrentScope.name,
                                           to |-> to, sensitive |-> Current.sensitive])]

\* The project is changed, and the change noted.
Make(project, screen, to, sensitive) ==
    /\ Len(editor.changes) < MaxChanges
    /\ editor' = [editor EXCEPT
                    !.project = project, !.screen = screen,
                    !.changes = Append(@, [var |-> Current.var, from |-> CurrentScope.name,
                                           to |-> to, sensitive |-> sensitive])]

Editing == UNCHANGED <<file, asRendered, env, push, begun, marked>>

\* editableConfigVariables, and a choice among them.
Select ==
    /\ On("variables")
    /\ \E i \in DOMAIN editor.project : \E k \in DOMAIN editor.project[i].vars :
          editor' = [editor EXCEPT !.screen = "variable", !.scope = i, !.variable = k]
    /\ Editing

\* A variable that is no longer sensitive has the value of the env file in the
\* place of its digest; one that is sensitive again has neither.
Toggled(d) ==
    IF d.sensitive THEN [d EXCEPT !.sensitive = FALSE, !.digest = None, !.clear = env[d.var]]
    ELSE [d EXCEPT !.sensitive = TRUE, !.clear = None]

\* configEditLiteralValue: the value in the env file, if it is there, assigned
\* once and short; or else the screen is shown again.
Toggle ==
    /\ On("variable")
    /\ Current.sensitive => env[Current.var] \in Short
    /\ Make([editor.project EXCEPT ![editor.scope].vars[editor.variable] = Toggled(@)],
            "variable", CurrentScope.name, ~Current.sensitive)
    /\ Editing

\* Mutant: the scope that the variable goes to is not looked at.
MutMayMoveTo(i) == i # editor.scope

\* moveConfigEditVariable: not to its own scope, and not where there is one of
\* that name and path.
MayMoveTo(i) == i # editor.scope /\ ~Holds(editor.project[i], Current.var)

\* Mutant: the env file is not mapped.
MutMoved(i) ==
    [editor.project EXCEPT ![editor.scope].vars = RemoveAt(@, editor.variable),
                           ![i].vars = Append(@, Current)]

\* It is taken out of its scope, put at the end of the other and, where that
\* does not list its env file, the env file is added.
Moved(i) ==
    [editor.project EXCEPT ![editor.scope].vars = RemoveAt(@, editor.variable),
                           ![i].vars = Append(@, Current),
                           ![i].files = @ \cup {FileOf[Current.var]}]

MoveVariable ==
    /\ On("scopes")
    /\ \E i \in DOMAIN editor.project :
          \/ ~MayMoveTo(i) /\ Show("variable")
          \/ MayMoveTo(i) /\ Make(Moved(i), "variables", editor.project[i].name,
                                  Current.sensitive)
    /\ Editing

RemoveVariable ==
    /\ On("confirm")
    /\ Make([editor.project EXCEPT ![editor.scope].vars = RemoveAt(@, editor.variable)],
            "variables", None, Current.sensitive)
    /\ Editing

\* To the list of scopes, to the question before a removal, and back.
Turn ==
    /\ \/ On("variable") /\ \E screen \in {"scopes", "confirm", "variables"} : Show(screen)
       \/ (On("scopes") \/ On("confirm")) /\ Show("variable")
    /\ Editing

\* Mutant: the file is written in any case.
MutModified == TRUE

\* ConfigModified: what the editor holds, rendered, is not the text it read.
Modified == ~editor.asRendered \/ Rendered(editor.project) # editor.read

\* The project is rendered, which can fail, and replaces the file unless it is
\* what was read.  The session is over either way.
Save ==
    /\ On("variables")
    /\ IF Valid(editor.project) /\ Modified
       THEN /\ file' = Rendered(editor.project)
            /\ asRendered' = TRUE
            /\ marked' = marked \cup
                  {<<c.to, c.var>> : c \in {x \in Range(editor.changes) :
                                              x.to # None /\ ~x.sensitive}}
       ELSE UNCHANGED <<file, asRendered, marked>>
    /\ editor' = None
    /\ UNCHANGED <<env, push, begun>>

\* A cancel on any screen, the end of the input, and --dry-run at the end.
Cancel ==
    /\ editor # None
    /\ editor' = None
    /\ Editing

-----------------------------------------------------------------------------
(* The other commands that write scopes and declarations.                  *)

\* scope create: a scope at the end of the file, with the env files given, and the
\* rest of it rendered anew.
ScopeCreate ==
    /\ Begin
    /\ Readable(file)
    /\ \E name \in ScopeNames \ Names(file), files \in SUBSET Files :
          file' = Append(Rendered(file), [name |-> name, files |-> files, vars |-> <<>>])
    /\ asRendered' = TRUE
    /\ UNCHANGED <<env, editor, push, marked>>

\* declarationForValue
DeclarationFor(scope, v, sensitive) ==
    [var |-> v, sensitive |-> sensitive,
     digest |-> IF sensitive \/ env[v] \in Long THEN scope.name ELSE None,
     clear |-> IF sensitive THEN None ELSE env[v]]

\* Mutant: the variable is looked for in all scopes.
MutSensitivity(scope, v) ==
    \A i \in DOMAIN file : Holds(file[i], v) => Of(file[i], v).sensitive

\* What was declared in the scope keeps its sensitivity; all else is sensitive.
Sensitivity(scope, v) == Holds(scope, v) => Of(scope, v).sensitive

\* updateScopeDeclarationsFromEnvPushDiff: what the env files of the scope have
\* is declared anew, what is gone from them and was in the cloud is not, and all
\* other declarations stay.
Redeclared(scope, gone) ==
    LET here == {v \in Variables : FileOf[v] \in scope.files /\ env[v] # Absent}
        kept == {v \in Variables : Holds(scope, v) /\ v \notin gone}
        before == {p \in Variables \X Variables : Place[p[1]] < Place[p[2]]}
        keys == Ordered(here \cup kept, before)
    IN  [n \in DOMAIN keys |->
            IF keys[n] \in here
            THEN DeclarationFor(scope, keys[n], Sensitivity(scope, keys[n]))
            ELSE Of(scope, keys[n])]

\* env push of a scope that lists env files, from reading propagate.yaml and the
\* env files to the request.
PushScope ==
    /\ push = None
    /\ Begin
    /\ Readable(file)
    /\ \E i \in DOMAIN file, gone \in SUBSET Variables :
          /\ file[i].files # {}
          /\ \A v \in Variables : FileOf[v] \in file[i].files => env[v] # Twice
          /\ push' = [Rendered(file) EXCEPT ![i].vars = Redeclared(file[i], gone)]
    /\ UNCHANGED <<file, asRendered, env, editor, marked>>

\* It is accepted, and the file replaced by what was pushed.
WritePushed ==
    /\ push # None
    /\ file' = push
    /\ asRendered' = TRUE
    /\ push' = None
    /\ UNCHANGED <<env, editor, begun, marked>>

\* It is refused, or its command ends.
FailPush ==
    /\ push # None
    /\ push' = None
    /\ UNCHANGED <<file, asRendered, env, editor, begun, marked>>

\* A person edits an env file.
EditEnv ==
    /\ \E v \in Variables, x \in Short \cup Long \cup {Absent, Twice} :
          x # env[v] /\ env' = [env EXCEPT ![v] = x]
    /\ UNCHANGED <<file, asRendered, editor, push, begun, marked>>

\* A person adds a comment to propagate.yaml, or lays it out in another way.
LayOut ==
    /\ asRendered
    /\ asRendered' = FALSE
    /\ UNCHANGED <<file, env, editor, push, begun, marked>>

Next ==
    \/ Open \/ Select \/ Toggle \/ MoveVariable \/ RemoveVariable \/ Turn \/ Save \/ Cancel
    \/ ScopeCreate \/ PushScope \/ WritePushed \/ FailPush
    \/ EditEnv \/ LayOut

Spec == Init /\ [][Next]_vars

-----------------------------------------------------------------------------
\* No edit makes the file unsavable: whatever a person does on the screens, and
\* whatever happens to the env files in between, what the editor holds can be
\* rendered, if the scopes that it read list the env files they declare.
AllMapped(project) ==
    \A i \in DOMAIN project : \A k \in DOMAIN project[i].vars :
        FileOf[project[i].vars[k].var] \in project[i].files

EditsCanBeSaved ==
    editor # None /\ AllMapped(editor.read) => Valid(editor.project)

\* A scope declares a variable once, in the file and in the editor: moves and
\* pushes, the overlapping ones too, make no second declaration.
Once(project) ==
    \A i \in DOMAIN project : \A k, m \in DOMAIN project[i].vars :
        project[i].vars[k].var = project[i].vars[m].var => k = m

DeclaredOnce == Once(file) /\ (editor # None => Once(editor.project))

\* The summary that a person is shown tells what the editor did, and nothing
\* else happened: made one after the other, its changes lead from the
\* declarations that were read to those it holds.
Declared(project) ==
    UNION {{<<project[i].name, project[i].vars[k].var, project[i].vars[k].sensitive>> :
               k \in DOMAIN project[i].vars} : i \in DOMAIN project}

\* A change takes what was declared of its variable in the scope it is from, and
\* gives what is declared then; what a change gives stands unless a later one
\* takes it.
Takes(change, x) == x[1] = change.from /\ x[2] = change.var
Gives(change) == <<change.to, change.var, change.sensitive>>

Replayed(declared, changes) ==
    {x \in declared : \A n \in DOMAIN changes : ~Takes(changes[n], x)}
    \cup {Gives(changes[n]) : n \in {m \in DOMAIN changes :
                /\ changes[m].to # None
                /\ \A later \in m + 1 .. Len(changes) : ~Takes(changes[later], Gives(changes[m]))}}

SummaryTellsTheEdits ==
    editor # None => Declared(editor.project) = Replayed(Declared(editor.read), editor.changes)

\* A value is in propagate.yaml in clear only if a person marked the variable
\* non_sensitive in that scope, or moved it there as such, and saved it.
InClearAsMarked ==
    \A i \in DOMAIN file : \A k \in DOMAIN file[i].vars :
        file[i].vars[k].clear # None => <<file[i].name, file[i].vars[k].var>> \in marked

\* A session without a change leaves the file alone, whatever other commands and
\* people did to it while it was open, if the text it read was as rendered; if
\* not, it may put back what it read, and nothing else.
UntouchedUnlessLaidOut ==
    [][editor # None /\ editor' = None /\ editor.changes = <<>> =>
          \/ UNCHANGED <<file, asRendered>>
          \/ ~editor.asRendered /\ file' = Rendered(editor.read)]_vars
=============================================================================
