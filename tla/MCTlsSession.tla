---------------------------- MODULE MCTlsSession ----------------------------
(* Constants for the run of TlsSession. *)
EXTENDS TlsSession, TLC

Cert(key, issuer) ==
    [type |-> "RSA", bits |-> 2048, exponent |-> 65537, key |-> key, issuer |-> issuer]

Config(cert, key, ca) ==
    [cert |-> cert, key |-> key, ca |-> ca, verify |-> TRUE, require |-> TRUE,
     tls10 |-> TRUE, ciphers |-> {"AES128-SHA"}, own |-> TRUE]

\* The library of a recent system does not offer TLS 1.0 unless it is asked to.
MCVersions == {"TLS 1.2", "TLS 1.3"}

ServerConfig == Config(Cert("server", "ca"), "server", "ca")
ClientConfig == Config(Cert("client", "ca"), "client", "ca")

\* The responder's files: good ones, a renewed authority, a key that does not
\* match; its flags; and another program that checks nothing.
MCServerConfigs ==
    {ServerConfig,
     Config(Cert("server", "ca2"), "server", "ca2"),
     Config(Cert("server", "ca"), "other", "ca"),
     [ServerConfig EXCEPT !.verify = FALSE],
     [ServerConfig EXCEPT !.require = FALSE],
     [ServerConfig EXCEPT !.own = FALSE, !.verify = FALSE, !.cert.bits = 1024]}

\* Initiators of the repository, one of them without verify_peer and one that
\* cannot use its key; initiators that offer another suite or another version;
\* and peers that check nothing, with a good certificate, another exponent, no
\* certificate, or one of another authority.
AllConfigs ==
    LET foreign == [ClientConfig EXCEPT !.own = FALSE, !.verify = FALSE]
    IN  {ClientConfig,
         [ClientConfig EXCEPT !.verify = FALSE],
         [ClientConfig EXCEPT !.key = "other"],
         [ClientConfig EXCEPT !.ciphers = {"ECDHE-RSA-AES256-GCM-SHA384"}],
         [ClientConfig EXCEPT !.tls10 = FALSE],
         foreign,
         [foreign EXCEPT !.cert.exponent = 3],
         [foreign EXCEPT !.cert = None],
         [foreign EXCEPT !.cert.issuer = "ca2"]}

\* One client of any kind beside one with nothing wrong.
CONSTANTS c1, c2

MCClientConfigs == {f \in [Clients -> AllConfigs] : f[c2] = ClientConfig}
=============================================================================
