--------------------------- MODULE MCRequestPath ---------------------------
(***************************************************************************)
(* RequestPath for TLC: every header of up to three symbols, every list of *)
(* up to two entries of auth_methods, and every message of up to two of    *)
(* the bytes at the boundaries of the encoding.                            *)
(***************************************************************************)
EXTENDS RequestPath, SequencesExt

MCHeaders == SeqOf({"Bearer", Space, "pem", NonAscii}, 3) \cup {<<"Bearer", Space, "jwk">>}

Entry(name, options) == [name |-> name, options |-> options]
Entries == {Entry("remote_user", {"header"}), Entry("remote_user", {}),
            Entry("jwt", {"pem"}), Entry("jwt", {"pem", "pem_file"}), Entry("jwt", {"pem_file", "bad"}),
            Entry("jwks", {"oidc_url"}), Entry("jwks", {}), Entry("other", {"header"})}
MCAuthConfigs == SeqOf(Entries, 2) \cup {NotConfigured}

\* Both sides of each boundary, a percent sign and hexadecimal digits.
MCMessages == SeqOf({31, 32, 37, 126, 127, 195}, 2) \cup {<<37, 48, 65>>}
=============================================================================
