------------------------------ MODULE CppModel ------------------------------
(* The C++ model: the tables that the C++ parser fills and the C++ services
   read (src/plugins/cpp/model).

   A row of CppAstNode is identified by a hash of all its fields
   (createIdentifier), so an AST node is its own identifier here: the hash is
   taken as injective.  astValue, the text that a user sees, is abstracted away.
   The other tables have identifiers that grow with every insertion, and the
   services often look at the first row only: these tables are sequences, in
   the order of insertion. *)
EXTENDS Integers, Sequences

CONSTANTS File,     \* the source files
          NoFile,   \* no file: the place of what is not known
          Entity,   \* the symbols: functions, types, variables, ...
          NoEntity  \* the entityHash 0 of a CppEntity that was never filled in

VARIABLE db  \* the workspace database: the tables below

ASSUME NoEntityAssumption == NoEntity \notin Entity /\ NoFile \notin File

SymbolType ==
  {"Variable", "Function", "FunctionPtr", "Type", "Typedef", "Macro", "Enum",
   "EnumConstant", "Namespace", "NamespaceAlias", "File", "Other"}

AstType ==
  {"TypeLocation", "Declaration", "Definition", "UnDefinition", "Usage", "Read",
   "Write", "VirtualCall", "ParameterTypeLoc", "ReturnTypeLoc", "FieldTypeLoc",
   "GlobalTypeLoc", "LocalTypeLoc", "TypedefTypeLoc", "InheritanceTypeLoc",
   "UsingLoc"}

(* An operator applied to the members of a sequence, in turn.  The bound name
   makes TLC evaluate one result before it computes the next. *)
InTurn(op(_, _), base, seq) ==
  LET after[k \in 0 .. Len(seq)] ==
        IF k = 0 THEN base
        ELSE CHOOSE r \in {op(before, seq[k]) : before \in {after[k - 1]}} : TRUE
  IN after[Len(seq)]

(* Positions are numbers that grow through a file; npos is model::Position::npos,
   the position of what the compiler added to the source. *)
npos    == -1
NoRange == [start |-> npos, end |-> npos]
Span(start, end) == [start |-> start, end |-> end]

CppAstNode(entity, symbolType, astType, file, range) ==
  [entityHash |-> entity, symbolType |-> symbolType, astType |-> astType,
   file |-> file, range |-> range, visibleInSourceCode |-> TRUE]

(* What a node was before its row was filled in. *)
NoNode == CppAstNode(NoEntity, "Other", "Usage", NoFile, NoRange)

(* The tables.  The CppAstNode rows are keyed by their identifiers and have no
   order; a link to an AST node is the node itself. *)
EmptyDb ==
  [astNodes      |-> {},   enumConstants |-> <<>>, enums        |-> <<>>,
   types         |-> <<>>, typedefs      |-> <<>>, variables    |-> <<>>,
   namespaces    |-> <<>>, members       |-> <<>>, inheritances |-> <<>>,
   friends       |-> <<>>, functions     |-> <<>>, relations    |-> <<>>,
   macros        |-> <<>>, expansions    |-> <<>>, inclusions   |-> <<>>,
   docComments   |-> <<>>, edges         |-> <<>>, edgeAttributes |-> <<>>,
   namespaceAliases |-> <<>>]

(* util::persistAll of some of the vectors that a collector filled, in one
   transaction. *)
persistAll(base, out, vectors) ==
  [table \in DOMAIN base |->
     CASE table \notin vectors                       -> base[table]
       [] table \in vectors /\ table = "astNodes"    -> base[table] \cup out[table]
       [] OTHER                                      -> base[table] \o out[table]]

Rows(table) == {table[k] : k \in DOMAIN table}

NoRepeat(table) == \A j, k \in DOMAIN table : table[j] = table[k] => j = k
=============================================================================
