------------------------------ MODULE Metadata ------------------------------
(***************************************************************************)
(* Metadata::from_env_filtered (movy-replay/src/meta.rs): the type and     *)
(* call index the fuzzer is built on.  The ABIs the testing environment    *)
(* exports are overlaid with the locally built ones; then one fold over    *)
(* the packages, in address order, maps every module address to the       *)
(* package of highest on-chain version that declares it (a failed version *)
(* lookup aborts construction), and a final step builds the ability map,  *)
(* the function-name index from the exported ABIs and the filtered pool   *)
(* of on-chain objects by type.                                            *)
(*                                                                         *)
(* An ABI is the sequence of its modules, each [address, name, functions, *)
(* structs]; as on Sui, every module of a package has the same address:   *)
(* the id of the package's first version.                                  *)
(***************************************************************************)
EXTENDS Integers, Sequences, SequencesExt, FiniteSets, Functions

CONSTANTS
    PkgOrder,     \* package ids in MoveAddress order
    ModAddrs,     \* module addresses
    ModNames,     \* module names
    FnNames,      \* function names
    StructDefs,   \* [name, abilities, generic] of a struct declaration
    AbiChoices,   \* [Pkgs -> the ABIs the package may export]
    LocalIds,     \* packages that also have a locally built ABI
    Versions,     \* on-chain package versions
    Abilities,    \* ability flags
    Objects,      \* on-chain object ids
    TypeTags,     \* object types
    VersionErrChoices, \* sets of packages whose get_version fails
    IncludeChoices, \* include_types: [given, types]; given = FALSE is None
    ExcludeChoices  \* exclude_types, likewise

Pkgs == ToSet(PkgOrder)
NotMapped == "NotMapped"

(* MoveAbility::PRIMITIVES (copy, drop, store) and MoveAbility::DROP.     *)
PRIMITIVES == {"copy", "drop", "store"}
DROP == {"drop"}

VARIABLES
    testing_abis,   \* [Pkgs -> AbiChoices]: env.export_abi()
    local_abis,     \* [LocalIds -> AbiChoices]
    version,        \* [Pkgs -> Versions]
    version_err,    \* packages whose get_version fails
    object_type,    \* [Objects -> TypeTags \cup {"Unreadable"}]
    store_err,      \* "None", or the awaited store call that fails: "Export", "List"
    include, exclude,
    todo,           \* packages the module-address fold has yet to visit
    module_address_to_package,  \* [ModAddrs -> Pkgs \cup {NotMapped}]
    status,         \* "Export", "Folding", "Built" or "Failed"
    ability_to_type_tag,        \* [abilities -> SUBSET tags]
    function_name_to_idents,    \* [FnNames -> Seq(<<addr, fn>>)]
    types_pool                  \* [TypeTags -> SUBSET Objects]
vars == <<testing_abis, local_abis, version, version_err, object_type, store_err, include, exclude,
          todo, module_address_to_package, status, ability_to_type_tag,
          function_name_to_idents, types_pool>>

(* abis: the exported ABIs with the local ones inserted over them.         *)
abis == [p \in Pkgs |-> IF p \in LocalIds THEN local_abis[p] ELSE testing_abis[p]]

(* meta.rs 61: env.export_abi().await? fails, or the fold begins.          *)
ExportAbi ==
    /\ status = "Export"
    /\ status' = IF store_err = "Export" THEN "Failed" ELSE "Folding"
    /\ UNCHANGED <<testing_abis, local_abis, version, version_err, object_type, store_err,
                   include, exclude, todo, module_address_to_package, ability_to_type_tag,
                   function_name_to_idents, types_pool>>

-----------------------------------------------------------------------------
(* meta.rs 68-81: one package of the fold.  For each of its modules whose  *)
(* address is already mapped, the two versions are compared (old first),  *)
(* and the package replaces the old one only on a strictly greater        *)
(* version; a version lookup that fails aborts with the error.             *)

(* Mutant form: the comparison is the wrong way round.                    *)
Newer_Swapped(old, new) == version[new] < version[old]

Newer(old, new) == version[old] < version[new]

(* Mutant form: every module is taken over by the later package.          *)
MapModule_Overwrite(map, a, p) == [map EXCEPT ![a] = p]

MapModule(map, a, p) ==
    IF map[a] = NotMapped THEN [map EXCEPT ![a] = p]
    ELSE IF Newer(map[a], p) THEN [map EXCEPT ![a] = p] ELSE map

(* Mutant form: versions are read only when another package holds the    *)
(* address, as if the fold skipped the package's own earlier modules.     *)
Lookups_OthersOnly(map, a, p) == IF map[a] \in {NotMapped, p} THEN <<>> ELSE <<map[a], p>>

(* The lookups a module of package p needs, in the order they are made:    *)
(* whenever its address is mapped, even to p itself by p's earlier module. *)
Lookups(map, a, p) == IF map[a] = NotMapped THEN <<>> ELSE <<map[a], p>>

RECURSIVE FoldModules(_, _, _)
FoldModules(map, mods, p) ==
    IF mods = <<>> THEN [map |-> map, ok |-> TRUE]
    ELSE LET a == Head(mods) IN
         IF ToSet(Lookups(map, a, p)) \cap version_err # {}
         THEN [map |-> map, ok |-> FALSE]
         ELSE FoldModules(MapModule(map, a, p), Tail(mods), p)

(* `for module in &abi.modules`: the module addresses, in order.           *)
ModuleList(abi) == [i \in DOMAIN abi |-> abi[i].address]

ResolvePackage ==
    /\ status = "Folding" /\ todo # <<>>
    /\ LET p == Head(todo)
           r == FoldModules(module_address_to_package, ModuleList(abis[p]), p)
       IN /\ todo' = Tail(todo)
          /\ module_address_to_package' = r.map
          /\ status' = IF r.ok THEN "Folding" ELSE "Failed"
    /\ UNCHANGED <<testing_abis, local_abis, version, version_err, object_type, store_err,
                   include, exclude, ability_to_type_tag, function_name_to_idents,
                   types_pool>>

-----------------------------------------------------------------------------
(* meta.rs 84-119: the ability map, seeded with the primitive tags under   *)
(* PRIMITIVES and signer under DROP; every monomorphic struct of every ABI *)
(* is added under its exact ability set.                                   *)
AbilityKeys == SUBSET Abilities

(* Bool, Address, U8 .. U256 and vector<u8>, collapsed to one tag; signer; *)
(* and MoveTypeTag::Struct with no type arguments.                         *)
PrimitiveTags == {[kind |-> "Primitive"]}
Signer == [kind |-> "Signer"]
StructTag(a, m, n) == [kind |-> "Struct", address |-> a, module |-> m, name |-> n]

(* Mutant form: generic structs are indexed too.                          *)
StructTags_WithGeneric(abs) ==
    UNION {{<<m.address, m.name, s.name, s.abilities>> : s \in m.structs}
              : m \in UNION {ToSet(abs[p]) : p \in Pkgs}}

(* The struct tags of the monomorphic structs, with their abilities.       *)
StructTags(abs) ==
    UNION {{<<m.address, m.name, s.name, s.abilities>> : s \in {s \in m.structs : ~s.generic}}
              : m \in UNION {ToSet(abs[p]) : p \in Pkgs}}

BuildAbilityMap(abs) ==
    [k \in AbilityKeys |->
        (IF k = PRIMITIVES THEN PrimitiveTags ELSE {})
        \cup (IF k = DROP THEN {Signer} ELSE {})
        \cup {StructTag(t[1], t[2], t[3]) : t \in {t \in StructTags(abs) : t[4] = k}}]

(* meta.rs 121-136: the function-name index, from the exported ABIs only, *)
(* pushing one FunctionIdent (address, module, function) per package,     *)
(* module and function, in package order.                                  *)
IndexSource == testing_abis

(* Mutant form: the ident is built from the package id, not the module's  *)
(* own address.                                                            *)
BuildFunctionIndex_PkgId(abs) ==
    [n \in FnNames |->
        FlattenSeq([i \in 1..Len(PkgOrder) |->
            LET abi == abs[PkgOrder[i]] IN
            FlattenSeq([j \in DOMAIN abi |->
                IF n \in abi[j].functions THEN <<<<PkgOrder[i], abi[j].name, n>>>> ELSE <<>>])])]

BuildFunctionIndex(abs) ==
    [n \in FnNames |->
        FlattenSeq([i \in 1..Len(PkgOrder) |->
            LET abi == abs[PkgOrder[i]] IN
            FlattenSeq([j \in DOMAIN abi |->
                IF n \in abi[j].functions THEN <<<<abi[j].address, abi[j].name, n>>>> ELSE <<>>])])]

(* meta.rs 139-147 and filter_types_pool 184-201: readable objects by     *)
(* type, then the include filter, the exclude filter, and empty entries    *)
(* dropped (an absent key is an empty set here).                           *)

(* Mutant form: the exclude filter keeps only the excluded types.          *)
Excluded_Inverted(t) == exclude.given /\ t \notin exclude.types

Excluded(t) == exclude.given /\ t \in exclude.types

Included(t) == ~include.given \/ t \in include.types

filter_types_pool(pool) ==
    [t \in TypeTags |-> IF Included(t) /\ ~Excluded(t) THEN pool[t] ELSE {}]

(* Mutant form: a failed listing is taken as an empty store.              *)
ObjectsListed_OrEmpty == TRUE

(* list_objects().await? succeeds.                                         *)
ObjectsListed == store_err # "List"

CollectTypesPool ==
    [t \in TypeTags |-> {o \in Objects : ObjectsListed /\ object_type[o] = t}]

(* After the fold: the ability map and the function index are built in    *)
(* locals, then list_objects is awaited; its `?` drops them and returns the *)
(* error, else the pool is collected and the Metadata built.               *)
Finish ==
    /\ status = "Folding" /\ todo = <<>>
    /\ IF ~ObjectsListed
          THEN /\ status' = "Failed"
               /\ UNCHANGED <<ability_to_type_tag, function_name_to_idents, types_pool>>
          ELSE /\ ability_to_type_tag' = BuildAbilityMap(abis)
               /\ function_name_to_idents' = BuildFunctionIndex(IndexSource)
               /\ types_pool' = filter_types_pool(CollectTypesPool)
               /\ status' = "Built"
    /\ UNCHANGED <<testing_abis, local_abis, version, version_err, object_type, store_err,
                   include, exclude, todo, module_address_to_package>>

(* Mutant form: the id is looked up without the module-address map.      *)
get_package_metadata_Direct(id) == IF id \in Pkgs THEN {abis[id]} ELSE {}

(* Metadata::get_package_metadata: the ABI of the package a module address *)
(* maps to, or of the address itself when it is not a module address; the *)
(* Option is a set of at most one element.                                 *)
get_package_metadata(id) ==
    LET p == IF id \in ModAddrs /\ module_address_to_package[id] # NotMapped
             THEN module_address_to_package[id] ELSE id
    IN IF p \in Pkgs THEN {abis[p]} ELSE {}

(* The address of a package's modules: its first version's id.           *)
PkgAddr(p) == testing_abis[p][1].address

(* On chain, the versions of one package are distinct and its first       *)
(* version, whose id is the modules' address, is the oldest.              *)
VersionsOnChain ==
    /\ \A p, q \in Pkgs : p # q /\ PkgAddr(p) = PkgAddr(q) => version[p] # version[q]
    /\ \A p \in Pkgs : PkgAddr(p) \in Pkgs => version[PkgAddr(p)] <= version[p]

Init ==
    /\ testing_abis \in [Pkgs -> UNION {AbiChoices[p] : p \in Pkgs}]
    /\ \A p \in Pkgs : testing_abis[p] \in AbiChoices[p]
    /\ local_abis \in [LocalIds -> UNION {AbiChoices[p] : p \in LocalIds}]
    /\ \A p \in LocalIds : local_abis[p] \in AbiChoices[p] /\ local_abis[p][1].address = PkgAddr(p)
    /\ version \in [Pkgs -> Versions]
    /\ VersionsOnChain
    /\ version_err \in VersionErrChoices
    /\ object_type \in [Objects -> TypeTags \cup {"Unreadable"}]
    /\ store_err \in {"None", "Export", "List"}
    /\ include \in IncludeChoices
    /\ exclude \in ExcludeChoices
    /\ todo = PkgOrder
    /\ module_address_to_package = [a \in ModAddrs |-> NotMapped]
    /\ status = "Export"
    /\ ability_to_type_tag = [k \in AbilityKeys |-> {}]
    /\ function_name_to_idents = [n \in FnNames |-> <<>>]
    /\ types_pool = [t \in TypeTags |-> {}]

Next == ExportAbi \/ ResolvePackage \/ Finish
Spec == Init /\ [][Next]_vars

-----------------------------------------------------------------------------
(* Properties.                                                             *)

Built == status = "Built"

(* The module addresses of an ABI, and the packages declaring address a.   *)
AddrsOf(abi) == ToSet(ModuleList(abi))
Declaring(a) == {p \in Pkgs : a \in AddrsOf(abis[p])}

TypeOK ==
    /\ \A p \in Pkgs : testing_abis[p] \in AbiChoices[p]
    /\ \A p \in LocalIds : local_abis[p] \in AbiChoices[p]
    /\ version \in [Pkgs -> Versions]
    /\ version_err \subseteq Pkgs
    /\ todo \in Seq(Pkgs)
    /\ module_address_to_package \in [ModAddrs -> Pkgs \cup {NotMapped}]
    /\ status \in {"Export", "Folding", "Built", "Failed"}
    /\ ability_to_type_tag \in [AbilityKeys -> SUBSET (PrimitiveTags \cup {Signer}
                                   \cup {StructTag(a, m, s.name) : a \in ModAddrs, m \in ModNames,
                                                                   s \in StructDefs})]
    /\ function_name_to_idents \in [FnNames -> Seq(ModAddrs \X ModNames \X FnNames)]
    /\ types_pool \in [TypeTags -> SUBSET Objects]

(* Spec 4.1: once built, every module address maps to the package of       *)
(* highest version among those that declare it, whether the upgrade comes *)
(* before or after the original in address order, and an address nobody  *)
(* declares is unmapped.                                                   *)
LatestPackageWins ==
    Built =>
        \A a \in ModAddrs :
            LET ps == Declaring(a) IN
            IF ps = {} THEN module_address_to_package[a] = NotMapped
            ELSE LET q == module_address_to_package[a] IN
                 /\ q \in ps
                 /\ \A p \in ps : version[p] <= version[q]

(* Construction fails exactly when exporting the ABIs or listing the      *)
(* store's objects fails, or the version of a package that is read cannot *)
(* be: the fold reads a package's version when another package shares its *)
(* address, but also for its own second module, whose address it has      *)
(* itself just mapped, so a package of two modules with an unreadable      *)
(* version aborts the build though nothing conflicts with it (spec 4.1,   *)
(* 7: unreadable state is fatal).  A failed construction publishes no     *)
(* index.                                                                  *)
VersionRead(p) ==
    \/ Len(abis[p]) >= 2
    \/ \E q \in Pkgs \ {p} : AddrsOf(abis[p]) \cap AddrsOf(abis[q]) # {}
FailsOnlyOnStoreError ==
    status \in {"Built", "Failed"} =>
        /\ (status = "Failed"
              <=> \/ store_err # "None"
                  \/ \E p \in version_err : VersionRead(p))
        /\ status = "Failed" => /\ types_pool = [t \in TypeTags |-> {}]
                                /\ function_name_to_idents = [n \in FnNames |-> <<>>]

(* Asked for a module address, which is also the id of the package's      *)
(* first version, get_package_metadata returns the ABI (local if there is *)
(* one) of the newest version that declares the address, not the first   *)
(* version's: the lookup goes through the module-address map.             *)
PackageMetadataIsLatest ==
    Built =>
        \A a \in ModAddrs :
            Declaring(a) # {} =>
                \E q \in Declaring(a) :
                    /\ \A p \in Declaring(a) : version[p] <= version[q]
                    /\ get_package_metadata(a) = {abis[q]}

(* The ability map lists, under each exact ability set, the seeded tags    *)
(* and the monomorphic structs of every ABI with that ability set, and     *)
(* nothing else.                                                           *)
AbilityMapExact ==
    Built =>
        \A k \in AbilityKeys :
            ability_to_type_tag[k] =
                {t \in PrimitiveTags \cup {Signer} :
                    (t \in PrimitiveTags /\ k = PRIMITIVES) \/ (t = Signer /\ k = DROP)}
                \cup {StructTag(m.address, m.name, s.name) : <<m, s>> \in
                        {<<m, s>> \in (UNION {ToSet(abis[p]) : p \in Pkgs}) \X StructDefs :
                            s \in m.structs /\ ~s.generic /\ s.abilities = k}}

(* The types pool holds, under each type, exactly the readable objects of *)
(* that type, when the type is included (or no include list is given) and *)
(* not excluded.                                                           *)
TypesPoolFiltered ==
    Built =>
        \A t \in TypeTags :
            types_pool[t] = IF (~include.given \/ t \in include.types)
                               /\ ~(exclude.given /\ t \in exclude.types)
                            THEN {o \in Objects : object_type[o] = t}
                            ELSE {}
=============================================================================
