----------------------------- MODULE TlsProfile -----------------------------
(***************************************************************************)
(* What makes a TLS context and what makes two of them agree:              *)
(* TlsProfile::apply (src/security/tls_profile.cpp), the certificate       *)
(* profile (src/security/certificate_utils.cpp) and, as OpenSSL does it    *)
(* for the modes apply sets, the handshake.                                *)
(*                                                                         *)
(* A configuration is a TlsConfig with its paths replaced by what the      *)
(* files hold at the time:                                                 *)
(*    cert      a certificate, None if the path is empty, the file is      *)
(*              missing or holds none                                      *)
(*    key       the name of a private key, None likewise                   *)
(*    ca        the name of a certificate authority, None likewise         *)
(*    verify    verify_peer                                                *)
(*    require   require_peer_certificate                                   *)
(*    tls10     allow_tls10                                                *)
(*    ciphers   the suites cipher_list names                               *)
(* and a certificate says who issued it, for which key, and of what kind   *)
(* that key is.                                                            *)
(***************************************************************************)
EXTENDS Integers

CONSTANTS None,
          Versions      \* the protocol versions the library speaks

\* Mutant of ValidProfile: any exponent will do.
ProfileOfAnyExponent(cert) ==
    /\ cert # None
    /\ cert.type = "RSA"
    /\ cert.bits = 2048

\* validate_certificate_profile returns.
ValidProfile(cert) ==
    /\ cert # None
    /\ cert.type = "RSA"
    /\ cert.bits = 2048
    /\ cert.exponent = 65537

\* TlsProfile::apply returns. The profile of the file comes first, so that an
\* empty certificate path always throws; cert and key go together after it.
ContextBuilds(cfg) ==
    /\ ValidProfile(cfg.cert)
    /\ cfg.ciphers # {}
    /\ cfg.key # None
    /\ cfg.key = cfg.cert.key
    /\ cfg.ca # None

\* SSL_CTX_set_min_proto_version and SSL_CTX_set_max_proto_version
VersionsOf(cfg) == IF cfg.tls10 THEN {"TLS 1.0"} ELSE Versions

\* SSL_VERIFY_NONE in a server means that no certificate is asked of a client.
Presented(server, client) == IF server.verify THEN client.cert ELSE None

\* Mutant of PeerAccepted: the issuer is not looked at.
PeerAcceptedFromAnyone(cfg, isServer, cert) ==
    cfg.verify =>
        IF cert = None THEN ~(isServer /\ cfg.require) ELSE TRUE

\* The verification the modes ask of OpenSSL: a certificate has to come from the
\* authority, and only SSL_VERIFY_FAIL_IF_NO_PEER_CERT insists on one.
PeerAccepted(cfg, isServer, cert) ==
    cfg.verify =>
        IF cert = None THEN ~(isServer /\ cfg.require) ELSE cert.issuer = cfg.ca

\* SSL_accept and SSL_connect both return.
HandshakeSucceeds(server, client) ==
    /\ VersionsOf(server) \cap VersionsOf(client) # {}
    /\ server.ciphers \cap client.ciphers # {}
    /\ PeerAccepted(client, FALSE, server.cert)
    /\ PeerAccepted(server, TRUE, Presented(server, client))
=============================================================================
