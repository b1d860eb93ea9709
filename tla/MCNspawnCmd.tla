---------------------------- MODULE MCNspawnCmd ----------------------------
(* Two TLS variables, so that several are forwarded in some order; HOME;  *)
(* one reserved variable.  The user sets a TLS variable and HOME to a     *)
(* value the host does not use, so an override is visible.  Two bind pairs whose paths hold a colon and a *)
(* trailing backslash.                                                     *)
EXTENDS NspawnCmd

MCEnvKeys == {"THRIFT_TLS_A", "THRIFT_TLS_B", "HOME", "SYSTEMD_NSPAWN_X"}
MCTlsKeys == {"THRIFT_TLS_A", "THRIFT_TLS_B"}
MCReservedKeys == {"SYSTEMD_NSPAWN_X"}
MCEnvValues == {"host"}
MCSetenvKeys == {"THRIFT_TLS_A", "HOME"}
MCSetenvValues == {"user"}
MCBindPairs == { << <<"a", "\\">>, <<":", "b">> >>,
                 << <<"a", ":">>, <<"\\", ":">> >> }
MCMachines == {"m1"}

=============================================================================
