SPECIFICATION Spec
INVARIANT RegistryReleased
