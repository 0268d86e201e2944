SPECIFICATION Spec
CONSTANTS
    Keys = {k0, k1, k2, k3, k4}
    ZeroKey = k0
    MAX_IMAGES = 4
    max_images = 4
SYMMETRY KeySymmetry
INVARIANTS LookupExact HandlesFollowImages
