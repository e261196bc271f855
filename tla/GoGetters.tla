------------------------------ MODULE GoGetters ------------------------------
(***************************************************************************)
(* The functions of nix.go that return a new C string, each with the shim  *)
(* it calls.  Shims, and wrappers, differ only in what a record of this    *)
(* module says.                                                            *)
(***************************************************************************)
EXTENDS Naturals

(* How Nix shows a shim its string: to a callback, as a pointer into an     *)
(* object, as memory to be freed, or in C++; and whether the shim reports a *)
(* copy that it cannot make.  An optional string may be absent.             *)
Shim(shows, reports) ==
  [shows |-> shows, reports |-> reports, optional |-> FALSE]

go_nix_setting_get                  == Shim("callback", TRUE)
go_nix_err_info_msg                 == Shim("callback", TRUE)
go_nix_err_name                     == Shim("callback", TRUE)
go_nix_store_get_string             == Shim("callback", TRUE)
go_nix_store_real_path              == Shim("callback", TRUE)
go_nix_store_path_name              == Shim("callback", FALSE)
go_nix_derivation_to_json           == Shim("callback", TRUE)
go_nix_get_string                   == Shim("callback", TRUE)
go_nix_get_path_string              == Shim("pointer", TRUE)
go_nix_get_attr_name_byidx          == Shim("pointer", TRUE)
go_nix_version_get                  == Shim("pointer", FALSE)
go_nix_err_msg                      == Shim("pointer", FALSE)
go_nix_realised_string_get_buffer   == Shim("pointer", FALSE)
go_nix_get_typename                 == Shim("gift", TRUE)
go_nix_locked_flake_get_lock_json   == Shim("internal", TRUE)
go_nix_locked_flake_get_fingerprint ==
  [Shim("internal", TRUE) EXCEPT !.optional = TRUE]

-----------------------------------------------------------------------------
(* A wrapper passes on the contexts it takes: none, the one to report on,   *)
(* or also the one to read an error from.                                   *)
Wrapper(name, contexts, shim) == [name |-> name, contexts |-> contexts, shim |-> shim]

SettingGet                == Wrapper("SettingGet", 1, go_nix_setting_get)
VersionGet                == Wrapper("VersionGet", 0, go_nix_version_get)
ErrMsg                    == Wrapper("ErrMsg", 2, go_nix_err_msg)
ErrInfoMsg                == Wrapper("ErrInfoMsg", 2, go_nix_err_info_msg)
ErrName                   == Wrapper("ErrName", 2, go_nix_err_name)
StoreGetUri               == Wrapper("StoreGetUri", 1, go_nix_store_get_string)
StoreGetStoredir          == Wrapper("StoreGetStoredir", 1, go_nix_store_get_string)
StoreGetVersion           == Wrapper("StoreGetVersion", 1, go_nix_store_get_string)
StoreRealPath             == Wrapper("StoreRealPath", 1, go_nix_store_real_path)
StorePathName             == Wrapper("StorePathName", 0, go_nix_store_path_name)
DerivationToJson          == Wrapper("DerivationToJson", 1, go_nix_derivation_to_json)
GetTypename               == Wrapper("GetTypename", 1, go_nix_get_typename)
GetString                 == Wrapper("GetString", 1, go_nix_get_string)
GetPathString             == Wrapper("GetPathString", 1, go_nix_get_path_string)
GetAttrNameByidx          == Wrapper("GetAttrNameByidx", 1, go_nix_get_attr_name_byidx)
RealisedStringGetBuffer   == Wrapper("RealisedStringGetBuffer", 0, go_nix_realised_string_get_buffer)
LockedFlakeGetLockJson    == Wrapper("LockedFlakeGetLockJson", 1, go_nix_locked_flake_get_lock_json)
LockedFlakeGetFingerprint == Wrapper("LockedFlakeGetFingerprint", 1, go_nix_locked_flake_get_fingerprint)

Getters ==
  {SettingGet, VersionGet, ErrMsg, ErrInfoMsg, ErrName, StoreGetUri, StoreGetStoredir,
   StoreGetVersion, StoreRealPath, StorePathName, DerivationToJson, GetTypename, GetString,
   GetPathString, GetAttrNameByidx, RealisedStringGetBuffer, LockedFlakeGetLockJson,
   LockedFlakeGetFingerprint}
=============================================================================
