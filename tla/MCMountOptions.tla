--------------------------- MODULE MCMountOptions ---------------------------
(***************************************************************************)
(* Options that meet: a distributed cache with and without values, the     *)
(* local options they stand for, and options that begin like a default.    *)
(***************************************************************************)
EXTENDS MountOptions

Future == "--distributed-cache-future-option"

Inline ==
    {Opt(Discovery, <<"x">>), Opt("--distributed-cache-block-size", <<"8">>),
     Opt("--block-cache-block-size", <<"4">>), Opt("--block-cache", <<"false">>),
     Opt("-o gid", <<"1">>), Opt("--telemetry", <<"x">>)}

ClassOptions ==
    Inline \cup {Opt(Future, <<"x">>), Opt("--distributed-cache-block-size", <<>>),
                 Opt(DNSServer, <<"x">>), Opt("--tmp-path-of", <<"x">>),
                 [Opt("--tmp-path", <<"x">>) EXCEPT !.padded = TRUE],
                 Opt("--telemetry", <<"">>), Opt("--telemetry", <<"blobpartner-csi/1">>),
                 Opt("--log-file-path", <<"x--telemetry">>)}

Starts ==
    ((Translatable \cup {Discovery, DNSServer, Future}) \X {"--distributed-cache-"})
    \cup {<<"--tmp-path-of", "--tmp-path">>, <<"blobpartner-csi/1", "blobpartner-csi/">>}

Parts == {<<"-o gid", "gid=">>, <<"x--telemetry", "--telemetry">>}
=============================================================================
