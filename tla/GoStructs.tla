------------------------------- MODULE GoStructs -------------------------------
(***************************************************************************)
(* What c-for-go generates for the wrapping structs and for the wrappers   *)
(* that take strings or structs.  The generated code of two structs (or    *)
(* wrappers) differs only in what a record of this module says.            *)
(***************************************************************************)

(* A wrapping struct: the byte slices that copyPCharBytes copies, the type  *)
(* of its slice of structs, which an unpackS... helper copies, and the type *)
(* of the struct nested in it, if there are any.  ...Items is what the      *)
(* unpackS... and packS... helpers of a type of slice copy and read back.   *)
Struct(name, bytes, items, nested) ==
  [name |-> name, bytes |-> bytes, items |-> items, nested |-> nested]

StringItem        == Struct("StringItem", 1, {}, {})
StringItems       == {StringItem}
StringArray       == Struct("StringArray", 0, StringItems, {})
ValueItem         == Struct("ValueItem", 0, {}, {})
ValueItems        == {ValueItem}
ValueArray        == Struct("ValueArray", 0, ValueItems, {})
StoreParam        == Struct("StoreParam", 2, {}, {})
StoreParamItems   == {StoreParam}
StoreParams       == Struct("StoreParams", 0, StoreParamItems, {})
StorePathHashPart == Struct("StorePathHashPart", 0, {}, {})
StorePathItem     == Struct("StorePathItem", 0, {}, {})
StorePathItems    == {StorePathItem}
StorePathList     == Struct("StorePathList", 0, StorePathItems, {})
StoreGCOptions    == Struct("StoreGCOptions", 0, {}, {StorePathList})

Structs == {StringItem, StringArray, ValueItem, ValueArray, StoreParam, StoreParams,
            StorePathHashPart, StorePathItem, StorePathList, StoreGCOptions}

-----------------------------------------------------------------------------
(* A wrapper: the structs it takes by value (PassValue) or by pointer       *)
(* (PassRef), at most one, and the number of strings (unpackPCharString).   *)
ByValue(struct, strings)   == [values |-> {struct}, refs |-> {}, strings |-> strings]
ByPointer(struct, strings) == [values |-> {}, refs |-> {struct}, strings |-> strings]
Strings(n)                 == [values |-> {}, refs |-> {}, strings |-> n]

ValueCallMulti                == ByValue(ValueArray, 0)
EvalStateBuilderSetLookupPath == ByValue(StringArray, 0)
StateCreate                   == ByValue(StringArray, 0)
StoreOpen                     == ByValue(StoreParams, 1)
StoreCollectGarbage           == ByValue(StoreGCOptions, 0)
StorePathHash                 == ByPointer(StorePathHashPart, 0)
StoreCreateFromParts          == ByPointer(StorePathHashPart, 1)

ExprEvalFromString                       == Strings(2)
GetAttrByname                            == Strings(1)
GetAttrBynameLazy                        == Strings(1)
HasAttrByname                            == Strings(1)
InitString                               == Strings(1)
InitPathString                           == Strings(1)
BindingsBuilderInsert                    == Strings(1)
FlakeReferenceParseFlagsSetBaseDirectory == Strings(1)
FlakeReferenceAndFragmentFromString      == Strings(1)
FlakeLockFlagsAddInputOverride           == Strings(1)
SetLogFormat                             == Strings(1)
LogSinkInstall                           == Strings(1)
StoreParsePath                           == Strings(1)
StoreAddPermanentRoot                    == Strings(1)
DerivationFromJson                       == Strings(1)
StoreQueryPathFromHashPart               == Strings(1)
SettingGet                               == Strings(1)
SettingSet                               == Strings(2)
SetErrMsg                                == Strings(1)

Wrappers ==
  {ValueCallMulti, EvalStateBuilderSetLookupPath, StateCreate, StoreOpen,
   StoreCollectGarbage, StorePathHash, StoreCreateFromParts, ExprEvalFromString,
   GetAttrByname, GetAttrBynameLazy, HasAttrByname, InitString, InitPathString,
   BindingsBuilderInsert, FlakeReferenceParseFlagsSetBaseDirectory,
   FlakeReferenceAndFragmentFromString, FlakeLockFlagsAddInputOverride, SetLogFormat,
   LogSinkInstall, StoreParsePath, StoreAddPermanentRoot, DerivationFromJson,
   StoreQueryPathFromHashPart, SettingGet, SettingSet, SetErrMsg}
=============================================================================
