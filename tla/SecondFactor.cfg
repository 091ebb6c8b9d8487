\* Two concurrent requests of one user, two secrets, three backup codes.
SPECIFICATION Spec
CONSTANTS
    Workers = {w1, w2}
    MaxSecrets = 2
    MaxCodes = 3
    BatchSize = 1
    None = None
SYMMETRY Symmetry
INVARIANTS BackupUsesBounded LoginsChallenged EnabledAccounted SweptCodesDead 
